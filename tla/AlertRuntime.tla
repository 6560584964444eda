---------------------------- MODULE AlertRuntime ----------------------------
(***************************************************************************)
(* The life of an alert in the two engines that raise alerts: the alert    *)
(* engine, for the conditions of one policy, and the heartbeat engine, for *)
(* the conditions of the sites.  Both run checks: observe Proxmox, compare *)
(* with the runtime entries, and send a webhook for each condition that    *)
(* starts to fire, is due a reminder, or is gone.                          *)
(*                                                                         *)
(* The alert engine's files, its policies as its entries, are those of a   *)
(* site context.  A policy of a page lives in the store of its site, but   *)
(* every check of the alert engine runs without a context: it works on the *)
(* policies of the PROXMOX_* variables' context, or on none at all.  The   *)
(* heartbeat engine has one file for all sites and visits them in turn.    *)
(*                                                                         *)
(* The scheduler starts checks every 30 s without waiting for the last one *)
(* and webhooks are awaited for up to half a minute each, so checks        *)
(* overlap.  The alert engine updates the entries inside one mutation and  *)
(* sends afterwards; the heartbeat engine reads them, sends, and writes    *)
(* them back at the end.                                                   *)
(*                                                                         *)
(* A time stamp is kept as its age, and an age stops growing once no       *)
(* comparison with it can change any more.                                 *)
(***************************************************************************)
EXTENDS Naturals, FiniteSets

CONSTANTS
  Keys,      \* the conditions
  Checks,    \* checks that can be alive together: a bound
  NoCopy,
  Grace,     \* rule.graceMinutes, settings.graceMinutes
  Reminder,  \* reminderIntervalMinutes
  Interval,  \* checkIntervalMinutes, checkIntervalSeconds
  EnvConfigured,  \* whether the PROXMOX_* variables are set
  Faults,    \* the kinds of disturbance this instance allows
  MaxFaults  \* how many of them happen over a behaviour: a bound

(* A runtime entry.  known: the store has one; age: of firstObservedAt; sent:
   lastNotifiedAt is set and notificationCount > 0, which go together; ago: the age
   of lastNotifiedAt. *)
Entry == [known : BOOLEAN, active : BOOLEAN, age : 0..Grace,
          sent : BOOLEAN, ago : 0..Reminder]

ASSUME AlertAssumption ==
  /\ Grace \in Nat /\ Reminder \in Nat \ {0} /\ Interval \in Nat \ {0}
  /\ MaxFaults \in Nat /\ EnvConfigured \in BOOLEAN
  /\ NoCopy \notin [Keys -> Entry]

FaultKind ==
  {"force",    \* the operator runs a check at once
   "clear",    \* the operator clears the active alerts
   "disable",  \* the policy or the engine is switched off for a while
   "unseen",   \* Proxmox reports no figures for what a condition is about
   "webhook",  \* the webhook refuses a message, or all three attempts
   "restart"}  \* the process dies and starts again

NoEntry == [known |-> FALSE, active |-> FALSE, age |-> 0, sent |-> FALSE, ago |-> 0]
Fresh == [NoEntry EXCEPT !.known = TRUE, !.active = TRUE]
Notification == [key : Keys, state : {"firing", "resolved"}]
(* What the alert engine's evaluations have seen without a break, as opposed to what
   the entries say; ago is the age of the last firing of either engine. *)
Streak == [on : BOOLEAN, age : 0..Grace, told : BOOLEAN, ago : 0..Reminder]

VARIABLES
  engine,    \* "alerts" or "heartbeat"
  policy,    \* notifyOnce and resolveNotificationsEnabled
  home,      \* whose files keep the policy and its entries: a site's, the __env__
             \* context's, or, for the heartbeat, those of the whole program
  enabled,   \* the policy and its engine are switched on
  cond,      \* the conditions that hold
  entry,     \* alert-runtime-state.json of that context, heartbeat-runtime-state.json
  checked,   \* age of policy.lastCheckedAt, lastHeartbeatCheckAt
  told,      \* the last webhook delivered for each condition
  clearing,  \* a heartbeat clear between its read and its write
  \* locals of a check
  pc,
  begun,     \* age of the start of an alert check
  left,      \* conditions it has not observed yet
  snap,      \* conditions it saw
  copy,      \* the heartbeat's entries between read and write
  todo,      \* notifications it has not sent yet
  \* bookkeeping of the model
  streak, overlap, faults

storeVars == <<entry, checked>>
locals == <<pc, begun, left, snap, copy, todo>>
fixed == <<engine, policy, home>>
vars == <<engine, policy, home, enabled, cond, entry, checked, told, clearing,
          pc, begun, left, snap, copy, todo, streak, overlap, faults>>

Disturb(f) == f \in Faults /\ faults < MaxFaults /\ faults' = faults + 1

TypeOK ==
  /\ engine \in {"alerts", "heartbeat"}
  /\ policy \in [once : BOOLEAN, resolves : BOOLEAN]
  /\ home \in {"site", "env", "all"}
  /\ enabled \in BOOLEAN /\ overlap \in BOOLEAN
  /\ cond \subseteq Keys
  /\ entry \in [Keys -> Entry]
  /\ checked \in 0..Interval
  /\ told \in [Keys -> {"none", "firing", "resolved"}]
  /\ clearing \in [Keys -> Entry] \cup {NoCopy}
  /\ pc \in [Checks -> {"idle", "observe", "evaluate", "send"}]
  /\ begun \in [Checks -> 0..Interval]
  /\ left \in [Checks -> SUBSET Keys] /\ snap \in [Checks -> SUBSET Keys]
  /\ copy \in [Checks -> [Keys -> Entry] \cup {NoCopy}]
  /\ todo \in [Checks -> SUBSET Notification]
  /\ streak \in [Keys -> Streak]
  /\ faults \in 0..MaxFaults

Init ==
  /\ engine \in {"alerts", "heartbeat"}
  /\ policy \in [once : BOOLEAN, resolves : BOOLEAN]
  /\ engine = "heartbeat" => ~policy.once
  /\ home \in IF engine = "heartbeat" THEN {"all"} ELSE {"site", "env"}
  /\ enabled = TRUE
  /\ cond = {}
  /\ entry = [k \in Keys |-> NoEntry]
  /\ checked = Interval
  /\ told = [k \in Keys |-> "none"]
  /\ clearing = NoCopy
  /\ pc = [c \in Checks |-> "idle"]
  /\ begun = [c \in Checks |-> 0]
  /\ left = [c \in Checks |-> {}] /\ snap = [c \in Checks |-> {}]
  /\ copy = [c \in Checks |-> NoCopy]
  /\ todo = [c \in Checks |-> {}]
  /\ streak = [k \in Keys |-> [on |-> FALSE, age |-> 0, told |-> FALSE, ago |-> Reminder]]
  /\ overlap = FALSE /\ faults = 0

-----------------------------------------------------------------------------
(* The world *)

Older_Unbounded(age, top) == age + 1
Older(age, top) == IF age < top THEN age + 1 ELSE age
Aged(es) == [k \in Keys |-> [es[k] EXCEPT !.age = Older(@, Grace), !.ago = Older(@, Reminder)]]

Time ==
  /\ entry' = Aged(entry)
  /\ clearing' = IF clearing = NoCopy THEN NoCopy ELSE Aged(clearing)
  /\ copy' = [c \in Checks |-> IF copy[c] = NoCopy THEN NoCopy ELSE Aged(copy[c])]
  /\ streak' = [k \in Keys |-> IF streak[k].on THEN Aged(streak)[k]
                                 ELSE [streak[k] EXCEPT !.ago = Older(@, Reminder)]]
  /\ checked' = Older(checked, Interval)
  /\ begun' = [c \in Checks |-> IF pc[c] = "idle" \/ engine = "heartbeat" THEN 0
                                ELSE Older(begun[c], Interval)]
  /\ UNCHANGED <<fixed, enabled, cond, told, pc, left, snap, todo, overlap, faults>>

Change(k) ==
  /\ cond' = IF k \in cond THEN cond \ {k} ELSE cond \cup {k}
  /\ UNCHANGED <<fixed, enabled, storeVars, told, clearing, locals, streak, overlap, faults>>

Switch ==
  /\ \/ enabled /\ Disturb("disable")
     \/ ~enabled /\ UNCHANGED faults
  /\ enabled' = ~enabled
  /\ UNCHANGED <<fixed, cond, storeVars, told, clearing, locals, streak, overlap>>

-----------------------------------------------------------------------------
(* One check: runAlertCheck for one policy, runHeartbeatCheck *)

(* getActiveSiteConfig outside any withSiteConfig: what a check can see and write.  The
   scheduler, the cron route and the button that checks now all call it like that. *)
Reached == home = "all" \/ (home = "env" /\ EnvConfigured)

(* shouldRunPolicy, shouldRunHeartbeat *)
Due == enabled /\ checked = Interval

(* The heartbeat engine notes the time of the check now, the alert engine when the
   check is over. *)
Enter(c) ==
  /\ pc[c] = "idle"
  /\ pc' = [pc EXCEPT ![c] = "observe"]
  /\ left' = [left EXCEPT ![c] = Keys]
  /\ begun' = [begun EXCEPT ![c] = 0]
  /\ checked' = IF engine = "heartbeat" THEN 0 ELSE checked
  /\ overlap' = (overlap \/ \E d \in Checks : pc[d] # "idle")
  /\ UNCHANGED <<fixed, enabled, cond, entry, told, clearing, snap, copy, todo, streak>>

Begin(c) == Reached /\ Due /\ Enter(c) /\ UNCHANGED faults

(* The force option: the interval is ignored, by the heartbeat the switch too. *)
BeginForced(c) ==
  Reached /\ (enabled \/ engine = "heartbeat") /\ Disturb("force") /\ Enter(c)

(* Proxmox is asked one thing after another; what it does not report is no condition. *)
Observe(c, k) ==
  /\ pc[c] = "observe" /\ k \in left[c]
  /\ left' = [left EXCEPT ![c] = @ \ {k}]
  /\ \/ snap' = [snap EXCEPT ![c] = IF k \in cond THEN @ \cup {k} ELSE @] /\ UNCHANGED faults
     \/ k \in cond /\ Disturb("unseen") /\ UNCHANGED snap
  /\ pc' = [pc EXCEPT ![c] = IF left[c] = {k} THEN "evaluate" ELSE "observe"]
  /\ UNCHANGED <<fixed, enabled, cond, storeVars, told, clearing, begun, copy, todo,
                 streak, overlap>>

(* The entry of a condition that was seen.  The alert engine starts a new episode when
   the entry was not active; the heartbeat goes on with the entry of the last one. *)
Seen_GoesOn(e) == IF e.known THEN [e EXCEPT !.active = TRUE] ELSE Fresh
Seen(e) ==
  CASE engine = "alerts"    -> IF e.active THEN e ELSE Fresh
    [] engine = "heartbeat" -> IF e.known THEN [e EXCEPT !.active = TRUE] ELSE Fresh

(* Past the grace period; not again with notifyOnce, nor before the reminder is due. *)
Fires_IgnoresReminder(e) == e.age >= Grace /\ ~(policy.once /\ e.sent)
Fires_OnceOnly(e) == e.age >= Grace /\ ~e.sent
Fires(e) ==
  /\ e.age >= Grace
  /\ e.sent => ~policy.once /\ e.ago >= Reminder

(* The entry after a check that saw, or did not see, its condition. *)
After_StaysActive(e, saw) ==
  IF ~saw THEN e
  ELSE IF Fires(Seen(e)) THEN [Seen(e) EXCEPT !.sent = TRUE, !.ago = 0] ELSE Seen(e)
After(e, saw) ==
  IF ~saw THEN [e EXCEPT !.active = FALSE]
  ELSE IF Fires(Seen(e)) THEN [Seen(e) EXCEPT !.sent = TRUE, !.ago = 0] ELSE Seen(e)

(* Of an alert that is gone, only who was told that it fires is told. *)
Resolves_Untold(e) == policy.resolves /\ e.active
Resolves_RecentOnly(e) == policy.resolves /\ e.active /\ e.sent /\ e.ago < Reminder
Resolves(e) == policy.resolves /\ e.active /\ e.sent

Decided(c) ==
  {[key |-> k, state |-> "firing"] : k \in {j \in snap[c] : Fires(Seen(entry[j]))}}
    \cup {[key |-> k, state |-> "resolved"] : k \in {j \in Keys \ snap[c] : Resolves(entry[j])}}

Broken(s) == [s EXCEPT !.on = FALSE, !.age = 0, !.told = FALSE]
StreakAfter(c, k) ==
  LET here == IF streak[k].on THEN streak[k] ELSE [Broken(streak[k]) EXCEPT !.on = TRUE]
  IN IF k \notin snap[c] THEN Broken(streak[k])
     ELSE IF Fires(Seen(entry[k])) THEN [here EXCEPT !.told = TRUE, !.ago = 0] ELSE here

(* evaluateNotifications is one mutation of the stored entries; the heartbeat engine
   works on what it reads here and writes it back when all messages are sent. *)
Evaluate(c) ==
  /\ pc[c] = "evaluate"
  /\ LET es == [k \in Keys |-> After(entry[k], k \in snap[c])] IN
       IF engine = "alerts"
         THEN entry' = es /\ UNCHANGED copy
         ELSE copy' = [copy EXCEPT ![c] = es] /\ UNCHANGED entry
  /\ todo' = [todo EXCEPT ![c] = Decided(c)]
  /\ streak' = [k \in Keys |-> IF engine = "alerts" THEN StreakAfter(c, k)
                                                   ELSE Broken(StreakAfter(c, k))]
  /\ snap' = [snap EXCEPT ![c] = {}]
  /\ pc' = [pc EXCEPT ![c] = "send"]
  /\ UNCHANGED <<fixed, enabled, cond, checked, told, clearing, begun, left, overlap, faults>>

(* Messages that fire go first.  A dispatch that failed is not repeated. *)
Send(c, n) ==
  /\ pc[c] = "send" /\ n \in todo[c]
  /\ n.state = "resolved" => \A m \in todo[c] : m.state = "resolved"
  /\ todo' = [todo EXCEPT ![c] = @ \ {n}]
  /\ \/ told' = [told EXCEPT ![n.key] = n.state] /\ UNCHANGED faults
     \/ UNCHANGED told /\ Disturb("webhook")
  /\ UNCHANGED <<fixed, enabled, cond, storeVars, clearing, pc, begun, left, snap, copy,
                 streak, overlap>>

Leave(c) ==
  /\ pc' = [pc EXCEPT ![c] = "idle"]
  /\ begun' = [begun EXCEPT ![c] = 0]
  /\ left' = [left EXCEPT ![c] = {}]
  /\ snap' = [snap EXCEPT ![c] = {}]
  /\ copy' = [copy EXCEPT ![c] = NoCopy]

(* markPolicyChecked with the time of the start; writeRuntimeStore of the heartbeat. *)
Finish(c) ==
  /\ pc[c] = "send" /\ todo[c] = {}
  /\ IF engine = "alerts"
       THEN checked' = begun[c] /\ UNCHANGED entry
       ELSE entry' = copy[c] /\ UNCHANGED checked
  /\ Leave(c)
  /\ UNCHANGED <<fixed, enabled, cond, told, clearing, todo, streak, overlap, faults>>

-----------------------------------------------------------------------------
(* The operator clears the active alerts; a crash. *)

Cleared(es) == [k \in Keys |-> [es[k] EXCEPT !.active = FALSE]]

(* clearAllActiveAlerts is one mutation, and it too runs without a context, ...  A
   single alert is cleared in the context of its site, whose store has no entry, since
   no check works there: clearSingleAlert finds nothing and is no step. *)
Clear ==
  /\ engine = "alerts" /\ Reached /\ Disturb("clear")
  /\ entry' = Cleared(entry)
  /\ streak' = [k \in Keys |-> Broken(streak[k])]
  /\ UNCHANGED <<fixed, enabled, cond, checked, told, clearing, locals, overlap>>

(* ... clearAllHeartbeatAlerts is a read and a write. *)
HeartbeatClearReads ==
  /\ engine = "heartbeat" /\ clearing = NoCopy /\ Disturb("clear")
  /\ clearing' = Cleared(entry)
  /\ UNCHANGED <<fixed, enabled, cond, storeVars, told, locals, streak, overlap>>

HeartbeatClearWrites ==
  /\ clearing # NoCopy
  /\ entry' = clearing
  /\ clearing' = NoCopy
  /\ UNCHANGED <<fixed, enabled, cond, checked, told, locals, streak, overlap, faults>>

(* Messages decided and not sent are lost; so is lastHeartbeatCheckAt. *)
Restart ==
  /\ Disturb("restart")
  /\ pc' = [c \in Checks |-> "idle"]
  /\ begun' = [c \in Checks |-> 0]
  /\ left' = [c \in Checks |-> {}] /\ snap' = [c \in Checks |-> {}]
  /\ copy' = [c \in Checks |-> NoCopy]
  /\ todo' = [c \in Checks |-> {}]
  /\ clearing' = NoCopy
  /\ checked' = IF engine = "heartbeat" THEN Interval ELSE checked
  /\ UNCHANGED <<fixed, enabled, cond, entry, told, streak, overlap>>

-----------------------------------------------------------------------------
CheckStep(c) ==
  \/ \E k \in Keys : Observe(c, k)
  \/ Evaluate(c)
  \/ \E n \in todo[c] : Send(c, n)
  \/ Finish(c)

OperatorStep ==
  \/ Switch \/ Clear \/ HeartbeatClearReads \/ HeartbeatClearWrites
  \/ \E c \in Checks : BeginForced(c)

Next ==
  \/ Time
  \/ \E k \in Keys : Change(k)
  \/ \E c \in Checks : Begin(c) \/ CheckStep(c)
  \/ OperatorStep
  \/ Restart

(* The scheduler's interval starts a check that is due, whatever the last one does,
   where it reaches the policy; of a site's policy Begin is never enabled.  And a check
   ends: every request and webhook has a timeout. *)
Fairness ==
  /\ WF_vars(Time)
  /\ WF_vars(\E c \in Checks : Begin(c))
  /\ \A c \in Checks : WF_vars(CheckStep(c))
  /\ WF_vars(HeartbeatClearWrites)

Spec == Init /\ [][Next]_vars /\ Fairness
-----------------------------------------------------------------------------
(* Properties *)

(* An evaluation of this step decided to send a message of state s about k. *)
Says(k, s) == \E c \in Checks : [key |-> k, state |-> s] \in todo'[c] \ todo[c]

(* However its checks overlap and whoever clears alerts in between, the alert engine
   sends a firing only for a condition that every evaluation has seen for the grace
   period, once with notifyOnce, and else no two within the reminder interval. *)
FiringsDue ==
  [][engine = "alerts" => \A k \in Keys : Says(k, "firing") =>
       /\ streak'[k].on /\ streak'[k].age >= Grace
       /\ streak[k].told => ~policy.once /\ streak[k].ago >= Reminder]_vars

(* The alert engine never reports the recovery of something it did not report, or
   reports it twice. *)
ResolvedWasFiring ==
  [][engine = "alerts" => \A k \in Keys : Says(k, "resolved") => streak[k].told]_vars

(* The heartbeat engine keeps its reminder interval while its checks do not overlap
   and none is cut short. *)
HeartbeatSpaced ==
  [][engine = "heartbeat" /\ ~overlap /\ faults = 0 => \A k \in Keys :
       Says(k, "firing") => streak[k].ago >= Reminder]_vars

(* The entries of a policy that the scheduler's checks reach, and those of the heartbeat,
   follow the world: what lasts becomes and stays active, what is over becomes and stays
   inactive, whatever checks, clears and write-backs collided. *)
EntryFollows ==
  \A k \in Keys :
    /\ <>[](Reached /\ enabled /\ k \in cond) => <>[]entry[k].active
    /\ <>[](Reached /\ enabled /\ k \notin cond) => <>[]~entry[k].active

(* With reminders, what lasts is told in the end, for the policies that checks reach: a
   lost message, a crash or a late recovery message is made good by the next reminder. *)
LastingTold ==
  \A k \in Keys :
    <>[](Reached /\ ~policy.once /\ enabled /\ k \in cond) => <>[](told[k] = "firing")

(* While checks do not overlap and nothing fails, the last word about what is over is
   not that it fires. *)
LastWord ==
  \A k \in Keys :
    <>[](policy.resolves /\ ~overlap /\ faults = 0 /\ k \notin cond)
      => <>[](told[k] # "firing")
=============================================================================
