------------------------ MODULE AlertRuntime_proofs ------------------------
(***************************************************************************)
(* When the alert engine sends messages, for any conditions, any number of *)
(* checks that overlap, any intervals, policies and disturbances.          *)
(*                                                                         *)
(* What the engine goes by are the stored entries; what the properties     *)
(* speak of are the streaks, that is, what its evaluations have seen and   *)
(* said.  The invariant says that an entry never tells another story than  *)
(* the streak of its condition.                                            *)
(***************************************************************************)
EXTENDS AlertRuntime, TLAPS

(* An entry is active as long as its condition is seen without a break, is as old as
   the streak, and knows of the messages of this streak and of no other. *)
Tells(e, s) ==
  /\ e.active <=> s.on
  /\ s.told => s.on
  /\ e.active => e.age = s.age /\ (e.sent <=> s.told)
  /\ e.active /\ e.sent => e.ago = s.ago

Typed ==
  /\ entry \in [Keys -> Entry]
  /\ streak \in [Keys -> Streak]
  /\ todo = [c \in Checks |-> todo[c]]

AlertInv ==
  /\ clearing = NoCopy
  /\ Typed
  /\ \A k \in Keys : Tells(entry[k], streak[k])

(* The heartbeat engine has no such invariant: its overlapping checks write back what
   they read. *)
Inv == engine = "alerts" => AlertInv

-----------------------------------------------------------------------------
(* Records *)

LEMMA Ages ==
  /\ Grace \in Nat /\ Reminder \in Nat
  /\ 0 \in 0..Grace /\ 0 \in 0..Reminder /\ Reminder \in 0..Reminder
BY AlertAssumption

LEMMA FreshEntry ==
  /\ NoEntry \in Entry /\ Fresh \in Entry
  /\ ~NoEntry.active
  /\ Fresh.active /\ ~Fresh.sent /\ Fresh.age = 0
<1>1. NoEntry \in Entry /\ ~NoEntry.active /\ ~NoEntry.sent /\ NoEntry.age = 0
  BY Ages, Zenon DEF NoEntry, Entry
<1>2. Fresh \in Entry
  BY <1>1, Zenon DEF Fresh, Entry
<1> QED
  BY <1>1, <1>2 DEF Fresh, NoEntry

LEMMA OlderTyped ==
  ASSUME NEW top \in Nat, NEW age \in 0..top
  PROVE  Older(age, top) \in 0..top
BY DEF Older

LEMMA AgedEntry ==
  ASSUME NEW e \in Entry
  PROVE  LET o == [e EXCEPT !.age = Older(@, Grace), !.ago = Older(@, Reminder)] IN
           /\ o \in Entry
           /\ o.active = e.active /\ o.sent = e.sent
           /\ o.age = Older(e.age, Grace) /\ o.ago = Older(e.ago, Reminder)
<1>1. e.age \in 0..Grace /\ e.ago \in 0..Reminder
  BY DEF Entry
<1>2. Older(e.age, Grace) \in 0..Grace /\ Older(e.ago, Reminder) \in 0..Reminder
  BY <1>1, Ages, OlderTyped
<1> QED
  BY <1>2, Zenon DEF Entry

LEMMA AgedStreak ==
  ASSUME NEW s \in Streak
  PROVE  LET o == [s EXCEPT !.age = Older(@, Grace), !.ago = Older(@, Reminder)]
             p == [s EXCEPT !.ago = Older(@, Reminder)] IN
           /\ o \in Streak /\ p \in Streak
           /\ o.on = s.on /\ o.told = s.told /\ p.on = s.on /\ p.told = s.told
           /\ o.age = Older(s.age, Grace) /\ o.ago = Older(s.ago, Reminder)
<1>1. s.age \in 0..Grace /\ s.ago \in 0..Reminder
  BY DEF Streak
<1>2. Older(s.age, Grace) \in 0..Grace /\ Older(s.ago, Reminder) \in 0..Reminder
  BY <1>1, Ages, OlderTyped
<1> QED
  BY <1>2, Zenon DEF Streak

LEMMA NotifiedEntry ==
  ASSUME NEW e \in Entry
  PROVE  LET n == [e EXCEPT !.sent = TRUE, !.ago = 0] IN
           /\ n \in Entry
           /\ n.active = e.active /\ n.sent /\ n.age = e.age /\ n.ago = 0
BY Ages, Zenon DEF Entry

LEMMA InactiveEntry ==
  ASSUME NEW e \in Entry
  PROVE  [e EXCEPT !.active = FALSE] \in Entry /\ ~[e EXCEPT !.active = FALSE].active
BY Zenon DEF Entry

LEMMA BrokenStreak ==
  ASSUME NEW s \in Streak
  PROVE  LET b == Broken(s) IN
           b \in Streak /\ ~b.on /\ ~b.told /\ b.age = 0
BY Ages, Zenon DEF Broken, Streak

LEMMA BegunStreak ==
  ASSUME NEW s \in Streak
  PROVE  LET b == [s EXCEPT !.on = TRUE] IN
           b \in Streak /\ b.on /\ b.told = s.told /\ b.age = s.age /\ b.ago = s.ago
BY Zenon DEF Streak

LEMMA ToldStreak ==
  ASSUME NEW s \in Streak
  PROVE  LET t == [s EXCEPT !.told = TRUE, !.ago = 0] IN
           t \in Streak /\ t.on = s.on /\ t.told /\ t.age = s.age /\ t.ago = 0
BY Ages, Zenon DEF Streak

-----------------------------------------------------------------------------
(* An entry and the streak of its condition *)

(* The entry of a condition that is seen tells the story of the streak that goes on,
   or of one that begins. *)
LEMMA SeenTells ==
  ASSUME engine = "alerts", NEW e \in Entry, NEW s \in Streak, Tells(e, s)
  PROVE  LET here == IF s.on THEN s ELSE [Broken(s) EXCEPT !.on = TRUE] IN
           /\ Seen(e) \in Entry /\ here \in Streak
           /\ Seen(e).active /\ here.on
           /\ Tells(Seen(e), here)
           /\ s.told => here = s /\ Seen(e) = e
<1>1. CASE e.active
  <2>1. Seen(e) = e /\ s.on
    BY <1>1, Zenon DEF Seen, Tells
  <2> QED
    BY <1>1, <2>1
<1>2. CASE ~e.active
  <2>1. Seen(e) = Fresh /\ ~s.on /\ ~s.told
    BY <1>2, Zenon DEF Seen, Tells
  <2>2. LET b == [Broken(s) EXCEPT !.on = TRUE] IN
          b \in Streak /\ b.on /\ ~b.told /\ b.age = 0
    BY BrokenStreak, BegunStreak
  <2> QED
    BY <2>1, <2>2, FreshEntry DEF Tells
<1> QED
  BY <1>1, <1>2

(* So do they after an evaluation that did or did not send a message. *)
LEMMA AfterTells ==
  ASSUME engine = "alerts", NEW c, NEW k \in Keys,
         entry[k] \in Entry, streak[k] \in Streak, Tells(entry[k], streak[k])
  PROVE  /\ After(entry[k], k \in snap[c]) \in Entry
         /\ StreakAfter(c, k) \in Streak
         /\ Tells(After(entry[k], k \in snap[c]), StreakAfter(c, k))
<1> DEFINE e == entry[k]
           s == streak[k]
           here == IF s.on THEN s ELSE [Broken(s) EXCEPT !.on = TRUE]
<1>1. CASE k \notin snap[c]
  <2>1. After(e, k \in snap[c]) = [e EXCEPT !.active = FALSE] /\ StreakAfter(c, k) = Broken(s)
    BY <1>1, Zenon DEF After, StreakAfter
  <2> QED
    BY <2>1, InactiveEntry, BrokenStreak DEF Tells
<1>2. CASE k \in snap[c] /\ ~Fires(Seen(e))
  <2>1. After(e, k \in snap[c]) = Seen(e) /\ StreakAfter(c, k) = here
    BY <1>2, Zenon DEF After, StreakAfter
  <2> QED
    BY <2>1, SeenTells
<1>3. CASE k \in snap[c] /\ Fires(Seen(e))
  <2>1. /\ After(e, k \in snap[c]) = [Seen(e) EXCEPT !.sent = TRUE, !.ago = 0]
        /\ StreakAfter(c, k) = [here EXCEPT !.told = TRUE, !.ago = 0]
    BY <1>3, Zenon DEF After, StreakAfter
  <2>2. /\ Seen(e) \in Entry /\ here \in Streak
        /\ Seen(e).active /\ here.on /\ Tells(Seen(e), here)
    BY SeenTells
  <2> HIDE DEF e, here
  <2>3. /\ [Seen(e) EXCEPT !.sent = TRUE, !.ago = 0] \in Entry
        /\ [here EXCEPT !.told = TRUE, !.ago = 0] \in Streak
        /\ Tells([Seen(e) EXCEPT !.sent = TRUE, !.ago = 0],
                 [here EXCEPT !.told = TRUE, !.ago = 0])
    BY <2>2, NotifiedEntry, ToldStreak DEF Tells
  <2> QED
    BY <2>1, <2>3 DEF e
<1> QED
  BY <1>1, <1>2, <1>3

(* What an evaluation that fires knows of the streak, ... *)
LEMMA FiresDue ==
  ASSUME engine = "alerts", NEW c, NEW k \in Keys,
         entry[k] \in Entry, streak[k] \in Streak, Tells(entry[k], streak[k]),
         k \in snap[c], Fires(Seen(entry[k]))
  PROVE  /\ StreakAfter(c, k).on /\ StreakAfter(c, k).age >= Grace
         /\ streak[k].told => ~policy.once /\ streak[k].ago >= Reminder
<1> DEFINE e == entry[k]
           s == streak[k]
           here == IF s.on THEN s ELSE [Broken(s) EXCEPT !.on = TRUE]
<1>1. StreakAfter(c, k) = [here EXCEPT !.told = TRUE, !.ago = 0]
  BY Zenon DEF StreakAfter
<1>2. /\ Seen(e) \in Entry /\ here \in Streak
      /\ Seen(e).active /\ here.on /\ Tells(Seen(e), here)
      /\ s.told => here = s /\ Seen(e) = e
  BY SeenTells
<1> HIDE DEF e, here, s
<1>3. Seen(e).age >= Grace /\ (Seen(e).sent => ~policy.once /\ Seen(e).ago >= Reminder)
  BY DEF Fires, e
<1>4. [here EXCEPT !.told = TRUE, !.ago = 0].on /\ [here EXCEPT !.told = TRUE, !.ago = 0].age = here.age
  BY <1>2, ToldStreak
<1>5. here.age >= Grace
  BY <1>2, <1>3 DEF Tells
<1>6. s.told => ~policy.once /\ s.ago >= Reminder
  BY <1>2, <1>3 DEF Tells
<1> QED
  BY <1>1, <1>4, <1>5, <1>6 DEF s

(* ... and one that reports a recovery. *)
LEMMA ResolvesTold ==
  ASSUME NEW e \in Entry, NEW s \in Streak, Tells(e, s), Resolves(e)
  PROVE  s.told
BY DEF Tells, Resolves
-----------------------------------------------------------------------------
(* Steps *)

LEMMA InitInv == Init => Inv
<1> SUFFICES ASSUME Init PROVE AlertInv
  BY DEF Inv
<1> DEFINE still == [on |-> FALSE, age |-> 0, told |-> FALSE, ago |-> Reminder]
<1>1. still \in Streak /\ ~still.on /\ ~still.told
  BY Ages, Zenon DEF Streak
<1> HIDE DEF still
<1>2. entry = [k \in Keys |-> NoEntry] /\ streak = [k \in Keys |-> still]
  BY DEF Init, still
<1>3. Typed
  BY <1>1, <1>2, FreshEntry DEF Typed, Init
<1>4. \A k \in Keys : Tells(entry[k], streak[k])
  BY <1>1, <1>2, FreshEntry DEF Tells
<1> QED
  BY <1>3, <1>4 DEF AlertInv, Init

LEMMA TimeInv ==
  ASSUME engine = "alerts", AlertInv, Time
  PROVE  AlertInv'
<1> DEFINE older(e) == [e EXCEPT !.age = Older(@, Grace), !.ago = Older(@, Reminder)]
           rested(s) == [s EXCEPT !.ago = Older(@, Reminder)]
<1>1. \A k \in Keys : entry[k] \in Entry /\ streak[k] \in Streak /\ Tells(entry[k], streak[k])
  BY DEF AlertInv, Typed
<1>2. /\ entry' = [k \in Keys |-> older(entry[k])]
      /\ streak' = [k \in Keys |-> IF streak[k].on THEN older(streak[k]) ELSE rested(streak[k])]
  BY Zenon DEF Time, Aged
<1>3. ASSUME NEW k \in Keys
      PROVE  /\ entry'[k] \in Entry /\ streak'[k] \in Streak
             /\ Tells(entry'[k], streak'[k])
  <2> DEFINE e == entry[k]
             s == streak[k]
  <2>1. e \in Entry /\ s \in Streak /\ Tells(e, s)
    BY <1>1
  <2>2. /\ older(e) \in Entry
        /\ older(e).active = e.active /\ older(e).sent = e.sent
        /\ older(e).age = Older(e.age, Grace) /\ older(e).ago = Older(e.ago, Reminder)
    BY <2>1, AgedEntry
  <2>3. /\ older(s) \in Streak /\ rested(s) \in Streak
        /\ older(s).on = s.on /\ older(s).told = s.told
        /\ rested(s).on = s.on /\ rested(s).told = s.told
        /\ older(s).age = Older(s.age, Grace) /\ older(s).ago = Older(s.ago, Reminder)
    BY <2>1, AgedStreak
  <2>4. entry'[k] = older(e) /\ streak'[k] = IF s.on THEN older(s) ELSE rested(s)
    BY <1>2
  <2> HIDE DEF older, rested, e, s
  <2> QED
    BY <2>1, <2>2, <2>3, <2>4 DEF Tells
<1>4. UNCHANGED todo /\ clearing' = NoCopy
  BY DEF Time, AlertInv
<1>5. \A k \in Keys : entry'[k] \in Entry /\ streak'[k] \in Streak /\ Tells(entry'[k], streak'[k])
  BY <1>3
<1> HIDE DEF older, rested
<1> QED
  BY <1>2, <1>4, <1>5 DEF AlertInv, Typed

LEMMA EvaluateInv ==
  ASSUME engine = "alerts", AlertInv, NEW c \in Checks, Evaluate(c)
  PROVE  AlertInv'
<1>1. \A k \in Keys : entry[k] \in Entry /\ streak[k] \in Streak /\ Tells(entry[k], streak[k])
  BY DEF AlertInv, Typed
<1>2. /\ entry' = [k \in Keys |-> After(entry[k], k \in snap[c])]
      /\ streak' = [k \in Keys |-> StreakAfter(c, k)]
  BY Zenon DEF Evaluate
<1>3. \A k \in Keys : entry'[k] \in Entry /\ streak'[k] \in Streak /\ Tells(entry'[k], streak'[k])
  BY <1>1, <1>2, AfterTells
<1>4. todo' = [todo EXCEPT ![c] = Decided(c)] /\ clearing' = NoCopy
  BY DEF Evaluate, AlertInv
<1>5. todo' = [d \in Checks |-> todo'[d]]
  BY <1>4 DEF AlertInv, Typed
<1> QED
  BY <1>2, <1>3, <1>4, <1>5 DEF AlertInv, Typed

LEMMA ClearInv ==
  ASSUME engine = "alerts", AlertInv, Clear
  PROVE  AlertInv'
<1>1. \A k \in Keys : entry[k] \in Entry /\ streak[k] \in Streak /\ Tells(entry[k], streak[k])
  BY DEF AlertInv, Typed
<1>2. /\ entry' = [k \in Keys |-> [entry[k] EXCEPT !.active = FALSE]]
      /\ streak' = [k \in Keys |-> Broken(streak[k])]
  BY Zenon DEF Clear, Cleared
<1>3. ASSUME NEW k \in Keys
      PROVE  /\ entry'[k] \in Entry /\ streak'[k] \in Streak
             /\ Tells(entry'[k], streak'[k])
  <2>1. entry'[k] = [entry[k] EXCEPT !.active = FALSE] /\ streak'[k] = Broken(streak[k])
    BY <1>2
  <2> QED
    BY <1>1, <2>1, InactiveEntry, BrokenStreak DEF Tells
<1>4. UNCHANGED <<todo, clearing>>
  BY DEF Clear, locals
<1> QED
  BY <1>2, <1>3, <1>4 DEF AlertInv, Typed

(* No other step touches what the alert engine's entries or streaks say. *)
LEMMA RestInv ==
  ASSUME engine = "alerts", AlertInv,
         UNCHANGED <<entry, streak, clearing>>,
         todo' = [d \in Checks |-> todo'[d]]
  PROVE  AlertInv'
BY DEF AlertInv, Typed

LEMMA NextInv == Inv /\ [Next]_vars => Inv'
<1> SUFFICES ASSUME Inv, [Next]_vars, engine' = "alerts" PROVE AlertInv'
  BY DEF Inv
<1>1. engine = "alerts"
  BY DEF Next, CheckStep, OperatorStep, Time, Change, Switch, Begin, BeginForced, Enter, Observe,
         Evaluate, Send, Finish, Clear, HeartbeatClearReads, HeartbeatClearWrites, Restart,
         fixed, vars
<1>2. AlertInv /\ clearing = NoCopy /\ todo = [c \in Checks |-> todo[c]]
  BY <1>1 DEF Inv, AlertInv, Typed
<1>3. CASE Time
  BY <1>1, <1>2, <1>3, TimeInv
<1>4. ASSUME NEW k \in Keys, Change(k) PROVE AlertInv'
  BY <1>1, <1>2, <1>4, RestInv DEF Change, storeVars, locals
<1>5. CASE Switch
  BY <1>1, <1>2, <1>5, RestInv DEF Switch, storeVars, locals
<1>6. ASSUME NEW c \in Checks, Begin(c) \/ BeginForced(c) PROVE AlertInv'
  BY <1>1, <1>2, <1>6, RestInv DEF Begin, BeginForced, Enter
<1>7. ASSUME NEW c \in Checks, NEW k \in Keys, Observe(c, k) PROVE AlertInv'
  BY <1>1, <1>2, <1>7, RestInv DEF Observe, storeVars
<1>8. ASSUME NEW c \in Checks, Evaluate(c) PROVE AlertInv'
  BY <1>1, <1>2, <1>8, EvaluateInv
<1>9. ASSUME NEW c \in Checks, NEW n \in todo[c], Send(c, n) PROVE AlertInv'
  <2>1. UNCHANGED <<entry, streak, clearing>> /\ todo' = [todo EXCEPT ![c] = @ \ {n}]
    BY <1>9 DEF Send, storeVars
  <2> QED
    BY <1>1, <1>2, <2>1, RestInv
<1>10. ASSUME NEW c \in Checks, Finish(c) PROVE AlertInv'
  BY <1>1, <1>2, <1>10, RestInv DEF Finish
<1>11. CASE Clear
  BY <1>1, <1>2, <1>11, ClearInv
<1>12. ~HeartbeatClearReads /\ ~HeartbeatClearWrites
  BY <1>1, <1>2 DEF HeartbeatClearReads, HeartbeatClearWrites
<1>13. CASE Restart
  <2>1. UNCHANGED <<entry, streak>> /\ clearing' = NoCopy /\ todo' = [c \in Checks |-> {}]
    BY <1>13 DEF Restart
  <2> QED
    BY <1>1, <1>2, <2>1, RestInv
<1>14. CASE UNCHANGED vars
  BY <1>1, <1>2, <1>14, RestInv DEF vars
<1> QED
  BY <1>3, <1>4, <1>5, <1>6, <1>7, <1>8, <1>9, <1>10, <1>11, <1>12, <1>13, <1>14
     DEF Next, CheckStep, OperatorStep

-----------------------------------------------------------------------------
(* What is said *)

(* Only an evaluation decides to say something. *)
LEMMA SaysEvaluates ==
  ASSUME Typed, [Next]_vars, NEW k, NEW s, Says(k, s)
  PROVE  \E c \in Checks : Evaluate(c) /\ [key |-> k, state |-> s] \in Decided(c)
<1>1. PICK d \in Checks : [key |-> k, state |-> s] \in todo'[d] \ todo[d]
  BY DEF Says
<1>2. todo = [c \in Checks |-> todo[c]]
  BY DEF Typed
<1>3. ~UNCHANGED todo
  BY <1>1
<1>4. ~Time /\ (\A j \in Keys : ~Change(j)) /\ ~OperatorStep /\ ~UNCHANGED vars
  BY <1>3 DEF Time, Change, OperatorStep, Switch, Clear, HeartbeatClearReads,
              HeartbeatClearWrites, BeginForced, Enter, locals, vars
<1>5. \A c \in Checks : /\ ~Begin(c) /\ ~Finish(c)
                        /\ \A j \in Keys : ~Observe(c, j)
  BY <1>3 DEF Begin, Enter, Finish, Observe
<1>6. \A c \in Checks : \A n \in todo[c] : ~Send(c, n)
  <2> SUFFICES ASSUME NEW c \in Checks, NEW n \in todo[c], Send(c, n) PROVE FALSE
    OBVIOUS
  <2>1. todo' = [todo EXCEPT ![c] = @ \ {n}]
    BY DEF Send
  <2> QED
    BY <1>1, <1>2, <2>1
<1>7. ~Restart
  <2> SUFFICES ASSUME Restart PROVE FALSE
    OBVIOUS
  <2> QED
    BY <1>1 DEF Restart
<1>8. PICK c \in Checks : Evaluate(c)
  BY <1>4, <1>5, <1>6, <1>7 DEF Next, CheckStep
<1>9. todo' = [todo EXCEPT ![c] = Decided(c)]
  BY <1>8 DEF Evaluate
<1>10. d = c /\ [key |-> k, state |-> s] \in Decided(c)
  BY <1>1, <1>2, <1>9
<1> QED
  BY <1>8, <1>10

LEMMA DecidedFiring ==
  ASSUME NEW c, NEW k, [key |-> k, state |-> "firing"] \in Decided(c)
  PROVE  k \in snap[c] /\ Fires(Seen(entry[k]))
BY DEF Decided

LEMMA DecidedResolved ==
  ASSUME NEW c, NEW k, [key |-> k, state |-> "resolved"] \in Decided(c)
  PROVE  k \notin snap[c] /\ Resolves(entry[k])
BY DEF Decided

LEMMA AlwaysInv == Spec => []Inv
BY InitInv, NextInv, PTL DEF Spec

(* However many checks of the alert engine overlap, whoever clears alerts and whatever
   fails, it sends a firing only for a condition that was seen for the grace period,
   once with notifyOnce and else not within the reminder interval. *)
THEOREM FiringsAreDue == Spec => FiringsDue
<1>1. ASSUME Inv, [Next]_vars
      PROVE  engine = "alerts" => \A k \in Keys : Says(k, "firing") =>
               /\ streak'[k].on /\ streak'[k].age >= Grace
               /\ streak[k].told => ~policy.once /\ streak[k].ago >= Reminder
  <2> SUFFICES ASSUME engine = "alerts", NEW k \in Keys, Says(k, "firing")
               PROVE  /\ streak'[k].on /\ streak'[k].age >= Grace
                      /\ streak[k].told => ~policy.once /\ streak[k].ago >= Reminder
    OBVIOUS
  <2>1. Typed /\ entry[k] \in Entry /\ streak[k] \in Streak /\ Tells(entry[k], streak[k])
    BY <1>1 DEF Inv, AlertInv, Typed
  <2>2. PICK c \in Checks : Evaluate(c) /\ [key |-> k, state |-> "firing"] \in Decided(c)
    BY <1>1, <2>1, SaysEvaluates
  <2>3. k \in snap[c] /\ Fires(Seen(entry[k]))
    BY <2>2, DecidedFiring
  <2>4. streak'[k] = StreakAfter(c, k)
    BY <2>2 DEF Evaluate
  <2> QED
    BY <2>1, <2>3, <2>4, FiresDue
<1> QED
  BY <1>1, AlwaysInv, PTL DEF Spec, FiringsDue

(* Nor does it report the recovery of something it did not report, or twice. *)
THEOREM ResolvedWasTold == Spec => ResolvedWasFiring
<1>1. ASSUME Inv, [Next]_vars
      PROVE  engine = "alerts" => \A k \in Keys : Says(k, "resolved") => streak[k].told
  <2> SUFFICES ASSUME engine = "alerts", NEW k \in Keys, Says(k, "resolved")
               PROVE  streak[k].told
    OBVIOUS
  <2>1. Typed /\ entry[k] \in Entry /\ streak[k] \in Streak /\ Tells(entry[k], streak[k])
    BY <1>1 DEF Inv, AlertInv, Typed
  <2>2. PICK c \in Checks : [key |-> k, state |-> "resolved"] \in Decided(c)
    BY <1>1, <2>1, SaysEvaluates
  <2> QED
    BY <2>1, <2>2, DecidedResolved, ResolvesTold
<1> QED
  BY <1>1, AlwaysInv, PTL DEF Spec, ResolvedWasFiring
-----------------------------------------------------------------------------
(* Types *)

(* The heartbeat engine writes back a copy it made. *)
TypeInv ==
  /\ TypeOK
  /\ \A c \in Checks : engine = "heartbeat" /\ pc[c] = "send" => copy[c] \in [Keys -> Entry]

LEMMA ActiveEntry ==
  ASSUME NEW e \in Entry
  PROVE  LET a == [e EXCEPT !.active = TRUE] IN
           /\ a \in Entry /\ a.known = e.known
           /\ a.sent = e.sent /\ a.ago = e.ago
BY Zenon DEF Entry

LEMMA SeenTyped ==
  ASSUME NEW e \in Entry, engine \in {"alerts", "heartbeat"}
  PROVE  Seen(e) \in Entry
<1>1. Seen(e) \in {e, Fresh, [e EXCEPT !.active = TRUE]}
  BY Zenon DEF Seen
<1> QED
  BY <1>1, FreshEntry, ActiveEntry

LEMMA AfterTyped ==
  ASSUME NEW e \in Entry, NEW saw \in BOOLEAN, engine \in {"alerts", "heartbeat"}
  PROVE  After(e, saw) \in Entry
<1>1. /\ Seen(e) \in Entry
      /\ [e EXCEPT !.active = FALSE] \in Entry
      /\ [Seen(e) EXCEPT !.sent = TRUE, !.ago = 0] \in Entry
  BY SeenTyped, InactiveEntry, NotifiedEntry
<1>2. After(e, saw) \in {Seen(e), [e EXCEPT !.active = FALSE],
                         [Seen(e) EXCEPT !.sent = TRUE, !.ago = 0]}
  BY Zenon DEF After
<1> QED
  BY <1>1, <1>2

LEMMA StreakAfterTyped ==
  ASSUME NEW c, NEW k, streak[k] \in Streak
  PROVE  StreakAfter(c, k) \in Streak /\ Broken(StreakAfter(c, k)) \in Streak
<1> DEFINE here == IF streak[k].on THEN streak[k] ELSE [Broken(streak[k]) EXCEPT !.on = TRUE]
<1>1. Broken(streak[k]) \in Streak
  BY BrokenStreak
<1>2. here \in Streak
  BY <1>1, BegunStreak
<1>3. StreakAfter(c, k) \in {Broken(streak[k]), here, [here EXCEPT !.told = TRUE, !.ago = 0]}
  BY Zenon DEF StreakAfter
<1> HIDE DEF here
<1>4. [here EXCEPT !.told = TRUE, !.ago = 0] \in Streak
  BY <1>2, ToldStreak
<1>5. StreakAfter(c, k) \in Streak
  BY <1>1, <1>2, <1>3, <1>4
<1> QED
  BY <1>5, BrokenStreak

LEMMA AgedTyped ==
  ASSUME NEW es \in [Keys -> Entry]
  PROVE  Aged(es) \in [Keys -> Entry]
<1> DEFINE older(e) == [e EXCEPT !.age = Older(@, Grace), !.ago = Older(@, Reminder)]
<1>1. \A k \in Keys : older(es[k]) \in Entry
  BY AgedEntry
<1>2. Aged(es) = [k \in Keys |-> older(es[k])]
  BY Zenon DEF Aged
<1> HIDE DEF older
<1> QED
  BY <1>1, <1>2

LEMMA ClearedTyped ==
  ASSUME NEW es \in [Keys -> Entry]
  PROVE  Cleared(es) \in [Keys -> Entry]
<1> DEFINE inactive(e) == [e EXCEPT !.active = FALSE]
<1>1. \A k \in Keys : inactive(es[k]) \in Entry
  BY InactiveEntry
<1>2. Cleared(es) = [k \in Keys |-> inactive(es[k])]
  BY Zenon DEF Cleared
<1> HIDE DEF inactive
<1> QED
  BY <1>1, <1>2

LEMMA TypeInit == Init => TypeInv
<1> SUFFICES ASSUME Init PROVE TypeInv
  OBVIOUS
<1> DEFINE still == [on |-> FALSE, age |-> 0, told |-> FALSE, ago |-> Reminder]
<1>1. still \in Streak
  BY Ages, Zenon DEF Streak
<1> HIDE DEF still
<1>2. entry \in [Keys -> Entry] /\ streak \in [Keys -> Streak]
  BY <1>1, FreshEntry DEF Init, still
<1>3. checked \in 0..Interval /\ begun \in [Checks -> 0..Interval] /\ faults \in 0..MaxFaults
  BY AlertAssumption DEF Init
<1> QED
  BY <1>2, <1>3 DEF TypeInv, TypeOK, Init

LEMMA DisturbTyped ==
  ASSUME faults \in 0..MaxFaults, NEW f, Disturb(f)
  PROVE  faults' \in 0..MaxFaults /\ faults' > 0
BY AlertAssumption DEF Disturb

LEMMA TimeTyped == ASSUME TypeInv, Time PROVE TypeInv'
<1> USE DEF TypeInv, TypeOK
<1>1. entry' \in [Keys -> Entry]
  BY AgedTyped DEF Time
<1>2. clearing' \in [Keys -> Entry] \cup {NoCopy}
  BY AgedTyped DEF Time
<1>3. \A c \in Checks :
        /\ copy'[c] \in [Keys -> Entry] \cup {NoCopy}
        /\ copy[c] \in [Keys -> Entry] => copy'[c] \in [Keys -> Entry]
  BY AgedTyped DEF Time
<1>4. copy' \in [Checks -> [Keys -> Entry] \cup {NoCopy}]
  BY <1>3 DEF Time
<1>5. ASSUME NEW k \in Keys PROVE streak'[k] \in Streak
  <2> DEFINE older(s) == [s EXCEPT !.age = Older(@, Grace), !.ago = Older(@, Reminder)]
             rested(s) == [s EXCEPT !.ago = Older(@, Reminder)]
  <2>1. older(streak[k]) \in Streak /\ rested(streak[k]) \in Streak
    BY AgedStreak
  <2>2. streak' = [j \in Keys |-> IF streak[j].on THEN older(streak[j]) ELSE rested(streak[j])]
    BY Zenon DEF Time, Aged
  <2> HIDE DEF older, rested
  <2> QED
    BY <2>1, <2>2
<1>6. streak' \in [Keys -> Streak]
  BY <1>5 DEF Time
<1>7. checked' \in 0..Interval
  BY AlertAssumption, OlderTyped DEF Time
<1>8. \A c \in Checks : Older(begun[c], Interval) \in 0..Interval /\ 0 \in 0..Interval
  BY AlertAssumption, OlderTyped
<1>9. begun' \in [Checks -> 0..Interval]
  BY <1>8 DEF Time
<1> QED
  BY <1>1, <1>2, <1>3, <1>4, <1>6, <1>7, <1>9 DEF Time, fixed

LEMMA CheckTyped ==
  ASSUME TypeInv, NEW c \in Checks, Begin(c) \/ BeginForced(c) \/ CheckStep(c)
  PROVE  TypeInv'
<1> USE DEF TypeInv, TypeOK
<1>1. 0 \in 0..Interval
  BY AlertAssumption
<1>2. CASE Begin(c)
  BY <1>1, <1>2 DEF Begin, Enter, fixed
<1>3. CASE BeginForced(c)
  BY <1>1, <1>3, DisturbTyped DEF BeginForced, Enter, fixed
<1>4. ASSUME NEW k \in Keys, Observe(c, k) PROVE TypeInv'
  <2>1. faults' \in 0..MaxFaults
    BY <1>4, DisturbTyped DEF Observe
  <2>2. snap' \in [Checks -> SUBSET Keys]
    BY <1>4 DEF Observe
  <2>3. left' \in [Checks -> SUBSET Keys]
    BY <1>4 DEF Observe
  <2>4. pc' = [pc EXCEPT ![c] = pc'[c]] /\ pc'[c] \in {"observe", "evaluate"}
    BY <1>4 DEF Observe
  <2>5. /\ pc' \in [Checks -> {"idle", "observe", "evaluate", "send"}]
        /\ \A d \in Checks : pc'[d] = "send" => pc[d] = "send"
    BY <2>4
  <2>6. UNCHANGED <<fixed, enabled, cond, entry, checked, told, clearing, begun, copy,
                    todo, streak, overlap>>
    BY <1>4 DEF Observe, storeVars
  <2> QED
    BY <2>1, <2>2, <2>3, <2>5, <2>6 DEF fixed
<1>5. CASE Evaluate(c)
  <2> DEFINE es == [k \in Keys |-> After(entry[k], k \in snap[c])]
  <2>1. \A k \in Keys : After(entry[k], k \in snap[c]) \in Entry
    <3> TAKE k \in Keys
    <3>1. entry[k] \in Entry /\ (k \in snap[c]) \in BOOLEAN
      OBVIOUS
    <3> HIDE DEF TypeInv, TypeOK
    <3>2. engine \in {"alerts", "heartbeat"}
      BY DEF TypeInv, TypeOK
    <3> QED
      BY <3>1, <3>2, AfterTyped
  <2>2. streak' \in [Keys -> Streak]
    BY <1>5, StreakAfterTyped DEF Evaluate
  <2>3. Decided(c) \subseteq Notification
    BY DEF Decided, Notification
  <2>4. IF engine = "alerts" THEN entry' = es /\ UNCHANGED copy
                             ELSE copy' = [copy EXCEPT ![c] = es] /\ UNCHANGED entry
    BY <1>5, Zenon DEF Evaluate
  <2> HIDE DEF es
  <2>5. entry' \in [Keys -> Entry] /\ copy' \in [Checks -> [Keys -> Entry] \cup {NoCopy}]
    BY <2>1, <2>4 DEF es
  <2>6. todo' \in [Checks -> SUBSET Notification]
    BY <1>5, <2>3 DEF Evaluate
  <2>7. \A d \in Checks : engine = "heartbeat" /\ pc'[d] = "send" => copy'[d] \in [Keys -> Entry]
    BY <1>5, <2>1, <2>4 DEF Evaluate, es
  <2> QED
    BY <1>5, <2>2, <2>5, <2>6, <2>7 DEF Evaluate, fixed
<1>6. ASSUME NEW n \in todo[c], Send(c, n) PROVE TypeInv'
  <2>1. n.key \in Keys /\ n.state \in {"firing", "resolved"}
    BY DEF Notification
  <2>2. faults' \in 0..MaxFaults
    BY <1>6, DisturbTyped DEF Send
  <2>3. told' \in [Keys -> {"none", "firing", "resolved"}]
    BY <1>6, <2>1 DEF Send
  <2> QED
    BY <1>6, <2>2, <2>3 DEF Send, fixed, storeVars
<1>7. CASE Finish(c)
  <2>1. entry' \in [Keys -> Entry] /\ checked' \in 0..Interval
    BY <1>7 DEF Finish
  <2> QED
    BY <1>1, <1>7, <2>1 DEF Finish, Leave, fixed
<1> QED
  BY <1>2, <1>3, <1>4, <1>5, <1>6, <1>7 DEF CheckStep

LEMMA OperatorTyped ==
  ASSUME TypeInv, Switch \/ Clear \/ HeartbeatClearReads \/ HeartbeatClearWrites \/ Restart
  PROVE  TypeInv'
<1> USE DEF TypeInv, TypeOK
<1>1. CASE Switch
  BY <1>1, DisturbTyped DEF Switch, fixed, storeVars, locals
<1>2. CASE Clear
  <2>1. Cleared(entry) \in [Keys -> Entry] /\ \A k \in Keys : Broken(streak[k]) \in Streak
    BY ClearedTyped, BrokenStreak
  <2>2. faults' \in 0..MaxFaults
    BY <1>2, DisturbTyped DEF Clear
  <2>3. entry' \in [Keys -> Entry] /\ streak' \in [Keys -> Streak]
    BY <1>2, <2>1 DEF Clear
  <2> QED
    BY <1>2, <2>2, <2>3 DEF Clear, fixed, locals
<1>3. CASE HeartbeatClearReads
  BY <1>3, ClearedTyped, DisturbTyped DEF HeartbeatClearReads, fixed, storeVars, locals
<1>4. CASE HeartbeatClearWrites
  BY <1>4 DEF HeartbeatClearWrites, fixed, locals
<1>5. CASE Restart
  <2>1. Interval \in 0..Interval /\ 0 \in 0..Interval /\ faults' \in 0..MaxFaults
    BY <1>5, DisturbTyped, AlertAssumption DEF Restart
  <2> QED
    BY <1>5, <2>1 DEF Restart, fixed
<1> QED
  BY <1>1, <1>2, <1>3, <1>4, <1>5

LEMMA TypeNext == TypeInv /\ [Next]_vars => TypeInv'
<1>1. ASSUME TypeInv, NEW k \in Keys, Change(k) PROVE TypeInv'
  BY <1>1 DEF TypeInv, TypeOK, Change, fixed, storeVars, locals
<1>2. ASSUME TypeInv, UNCHANGED vars PROVE TypeInv'
  BY <1>2 DEF TypeInv, TypeOK, vars
<1> QED
  BY <1>1, <1>2, TimeTyped, CheckTyped, OperatorTyped DEF Next, OperatorStep

(* Whatever overlaps and fails, every variable of both engines keeps its type; in
   particular the heartbeat engine never writes back a copy it did not make. *)
THEOREM TypeCorrect == Spec => []TypeOK
<1>1. TypeInv => TypeOK
  BY DEF TypeInv
<1> QED
  BY <1>1, TypeInit, TypeNext, PTL DEF Spec

-----------------------------------------------------------------------------
(* The reminders of the heartbeat engine *)

(* What an entry of the heartbeat engine knows of the last firing. *)
KnowsFiring(e, s) ==
  /\ e.sent => e.ago = s.ago
  /\ ~e.sent => s.ago = Reminder
  /\ e.sent => e.known

(* A check that is alone works on the entries there are, and has the newer ones while
   it sends. *)
SpacedInv ==
  /\ clearing = NoCopy
  /\ \A c, d \in Checks : pc[c] # "idle" /\ pc[d] # "idle" => c = d
  /\ \A k \in Keys :
       /\ (\A c \in Checks : pc[c] # "send") => KnowsFiring(entry[k], streak[k])
       /\ \A c \in Checks : pc[c] = "send" => KnowsFiring(copy[c][k], streak[k])

Undisturbed == engine = "heartbeat" /\ ~overlap /\ faults = 0
HeartbeatInv == TypeInv /\ (Undisturbed => ~policy.once /\ SpacedInv)

LEMMA FreshKnows == ~NoEntry.sent /\ ~Fresh.sent /\ Fresh.known
BY DEF NoEntry, Fresh

LEMMA BrokenAgo == ASSUME NEW s \in Streak PROVE Broken(s) \in Streak /\ Broken(s).ago = s.ago
BY BrokenStreak, Zenon DEF Broken, Streak

LEMMA NotifiedKnown ==
  ASSUME NEW e \in Entry, e.known
  PROVE  LET n == [e EXCEPT !.sent = TRUE, !.ago = 0] IN n.sent /\ n.ago = 0 /\ n.known
BY Zenon DEF Entry

LEMMA AgedKnows ==
  ASSUME NEW e \in Entry, NEW s \in Streak, KnowsFiring(e, s)
  PROVE  LET o == [e EXCEPT !.age = Older(@, Grace), !.ago = Older(@, Reminder)]
             t == [s EXCEPT !.age = Older(@, Grace), !.ago = Older(@, Reminder)]
             r == [s EXCEPT !.ago = Older(@, Reminder)] IN
           KnowsFiring(o, t) /\ KnowsFiring(o, r)
<1> DEFINE o == [e EXCEPT !.age = Older(@, Grace), !.ago = Older(@, Reminder)]
           t == [s EXCEPT !.age = Older(@, Grace), !.ago = Older(@, Reminder)]
           r == [s EXCEPT !.ago = Older(@, Reminder)]
<1>1. /\ o.sent = e.sent /\ o.known = e.known /\ o.ago = Older(e.ago, Reminder)
      /\ t.ago = Older(s.ago, Reminder) /\ r.ago = Older(s.ago, Reminder)
  BY Zenon DEF Entry, Streak
<1>2. Older(Reminder, Reminder) = Reminder
  BY Ages DEF Older
<1> HIDE DEF o, t, r
<1> QED
  BY <1>1, <1>2 DEF KnowsFiring, o, t, r

LEMMA SeenKnows ==
  ASSUME engine = "heartbeat", NEW e \in Entry
  PROVE  /\ Seen(e).known
         /\ e.known => Seen(e).sent = e.sent /\ Seen(e).ago = e.ago
         /\ ~e.known => ~Seen(e).sent
<1>1. CASE e.known
  <2>1. Seen(e) = [e EXCEPT !.active = TRUE]
    BY <1>1, Zenon DEF Seen
  <2> QED
    BY <1>1, <2>1, ActiveEntry
<1>2. CASE ~e.known
  <2>1. Seen(e) = Fresh
    BY <1>2, Zenon DEF Seen
  <2> QED
    BY <1>2, <2>1, FreshKnows
<1> QED
  BY <1>1, <1>2

(* The entry after a check and the firing of the streak still agree. *)
LEMMA AfterKnows ==
  ASSUME engine = "heartbeat", NEW c, NEW k \in Keys,
         entry[k] \in Entry, streak[k] \in Streak, KnowsFiring(entry[k], streak[k])
  PROVE  KnowsFiring(After(entry[k], k \in snap[c]), Broken(StreakAfter(c, k)))
<1> DEFINE e == entry[k]
           s == streak[k]
           here == IF s.on THEN s ELSE [Broken(s) EXCEPT !.on = TRUE]
<1>1. e \in Entry /\ s \in Streak /\ KnowsFiring(e, s)
  OBVIOUS
<1>2. Broken(s) \in Streak /\ Broken(s).ago = s.ago
  BY BrokenAgo
<1>3. here \in Streak /\ here.ago = s.ago
  BY <1>2, BegunStreak
<1>4. CASE k \notin snap[c]
  <2>1. After(e, k \in snap[c]) = [e EXCEPT !.active = FALSE] /\ StreakAfter(c, k) = Broken(s)
    BY <1>4, Zenon DEF After, StreakAfter
  <2>2. LET i == [e EXCEPT !.active = FALSE] IN
          i.sent = e.sent /\ i.ago = e.ago /\ i.known = e.known
    BY Zenon DEF Entry
  <2>3. Broken(Broken(s)).ago = s.ago
    BY <1>2, BrokenAgo
  <2> QED
    BY <2>1, <2>2, <2>3 DEF KnowsFiring
<1>5. CASE k \in snap[c] /\ ~Fires(Seen(e))
  <2>1. After(e, k \in snap[c]) = Seen(e) /\ StreakAfter(c, k) = here
    BY <1>5, Zenon DEF After, StreakAfter
  <2> HIDE DEF e, s, here
  <2>2. Broken(here).ago = s.ago
    BY <1>3, BrokenAgo
  <2>3. KnowsFiring(Seen(e), Broken(here))
    BY <1>1, <2>2, SeenKnows DEF KnowsFiring
  <2> QED
    BY <2>1, <2>3 DEF e
<1>6. CASE k \in snap[c] /\ Fires(Seen(e))
  <2>1. /\ After(e, k \in snap[c]) = [Seen(e) EXCEPT !.sent = TRUE, !.ago = 0]
        /\ StreakAfter(c, k) = [here EXCEPT !.told = TRUE, !.ago = 0]
    BY <1>6, Zenon DEF After, StreakAfter
  <2> HIDE DEF e, s, here
  <2>2. Seen(e) \in Entry /\ Seen(e).known
    BY <1>1, SeenKnows, SeenTyped
  <2>3. LET n == [Seen(e) EXCEPT !.sent = TRUE, !.ago = 0] IN n.sent /\ n.ago = 0 /\ n.known
    BY <2>2, NotifiedKnown
  <2>4. LET t == [here EXCEPT !.told = TRUE, !.ago = 0] IN t \in Streak /\ t.ago = 0
    BY <1>3, ToldStreak
  <2>5. Broken([here EXCEPT !.told = TRUE, !.ago = 0]).ago = 0
    BY <2>4, BrokenAgo
  <2> QED
    BY <2>1, <2>3, <2>5 DEF KnowsFiring, e
<1> QED
  BY <1>4, <1>5, <1>6

-----------------------------------------------------------------------------
(* An undisturbed step of the heartbeat engine *)

LEMMA SpacedInit == Init => HeartbeatInv
<1> SUFFICES ASSUME Init PROVE HeartbeatInv
  OBVIOUS
<1>1. TypeInv
  BY TypeInit
<1>2. \A k \in Keys : entry[k] = NoEntry /\ streak[k].ago = Reminder
  BY DEF Init
<1>3. \A k \in Keys : KnowsFiring(entry[k], streak[k])
  BY <1>2, FreshKnows DEF KnowsFiring
<1>4. SpacedInv /\ (engine = "heartbeat" => ~policy.once)
  BY <1>3 DEF SpacedInv, Init
<1> QED
  BY <1>1, <1>4 DEF HeartbeatInv, Undisturbed

(* Steps that touch neither the entries nor the streaks, and let no check send. *)
LEMMA SpacedRest ==
  ASSUME SpacedInv, UNCHANGED <<entry, streak, copy, clearing>>,
         \A c, d \in Checks : pc'[c] # "idle" /\ pc'[d] # "idle" => c = d,
         \A c \in Checks : pc'[c] = "send" <=> pc[c] = "send"
  PROVE  SpacedInv'
BY DEF SpacedInv

LEMMA SpacedTime ==
  ASSUME TypeInv, engine = "heartbeat", SpacedInv, Time
  PROVE  SpacedInv'
<1> DEFINE older(e) == [e EXCEPT !.age = Older(@, Grace), !.ago = Older(@, Reminder)]
           rested(s) == [s EXCEPT !.ago = Older(@, Reminder)]
<1>1. /\ entry' = Aged(entry)
      /\ streak' = [k \in Keys |-> IF streak[k].on THEN older(streak[k]) ELSE rested(streak[k])]
      /\ \A c \in Checks : copy[c] # NoCopy => copy'[c] = Aged(copy[c])
  BY Zenon DEF Time, Aged
<1>2. \A es : Aged(es) = [k \in Keys |-> older(es[k])]
  BY Zenon DEF Aged
<1>3. ASSUME NEW k \in Keys, NEW e \in Entry, KnowsFiring(e, streak[k])
      PROVE  KnowsFiring(older(e), streak'[k])
  <2>1. streak[k] \in Streak
    BY DEF TypeInv, TypeOK
  <2>2. KnowsFiring(older(e), older(streak[k])) /\ KnowsFiring(older(e), rested(streak[k]))
    BY <1>3, <2>1, AgedKnows
  <2>3. streak'[k] = older(streak[k]) \/ streak'[k] = rested(streak[k])
    BY <1>1
  <2> HIDE DEF older, rested
  <2> QED
    BY <2>2, <2>3
<1> HIDE DEF older, rested
<1>4. entry \in [Keys -> Entry] /\ UNCHANGED <<pc>> /\ clearing' = clearing
  BY DEF TypeInv, TypeOK, Time, SpacedInv
<1>5. \A c \in Checks : pc[c] = "send" =>
        copy[c] \in [Keys -> Entry] /\ copy'[c] = Aged(copy[c])
  BY <1>1, AlertAssumption DEF TypeInv
<1>6. \A k \in Keys : (\A c \in Checks : pc[c] # "send") => KnowsFiring(entry'[k], streak'[k])
  BY <1>1, <1>2, <1>3, <1>4 DEF SpacedInv
<1>7. \A k \in Keys : \A c \in Checks : pc[c] = "send" => KnowsFiring(copy'[c][k], streak'[k])
  BY <1>2, <1>3, <1>5 DEF SpacedInv
<1> QED
  BY <1>4, <1>6, <1>7 DEF SpacedInv

LEMMA SpacedEvaluate ==
  ASSUME TypeInv, engine = "heartbeat", SpacedInv, NEW c \in Checks, Evaluate(c)
  PROVE  SpacedInv'
<1>1. \A d \in Checks : pc[d] # "send" /\ (d # c => pc[d] = "idle")
  BY DEF Evaluate, SpacedInv
<1>2. \A k \in Keys : entry[k] \in Entry /\ streak[k] \in Streak
                      /\ KnowsFiring(entry[k], streak[k])
  BY <1>1 DEF SpacedInv, TypeInv, TypeOK
<1>3. \A k \in Keys : KnowsFiring(After(entry[k], k \in snap[c]), Broken(StreakAfter(c, k)))
  BY <1>2, AfterKnows
<1>4. /\ copy' = [copy EXCEPT ![c] = [k \in Keys |-> After(entry[k], k \in snap[c])]]
      /\ streak' = [k \in Keys |-> Broken(StreakAfter(c, k))]
      /\ UNCHANGED clearing
  BY Zenon DEF Evaluate
<1>5. pc' = [pc EXCEPT ![c] = "send"] /\ pc \in [Checks -> {"idle", "observe", "evaluate", "send"}]
      /\ copy = [d \in Checks |-> copy[d]]
  BY DEF Evaluate, TypeInv, TypeOK
<1>6. \A d \in Checks : pc'[d] # "idle" => d = c
  BY <1>1, <1>5
<1>7. \A k \in Keys : KnowsFiring(copy'[c][k], streak'[k])
  BY <1>3, <1>4, <1>5
<1>8. pc'[c] = "send" /\ \A d \in Checks : pc'[d] = "send" => d = c
  BY <1>5, <1>6
<1> QED
  BY <1>4, <1>6, <1>7, <1>8 DEF SpacedInv

LEMMA SpacedFinish ==
  ASSUME TypeInv, engine = "heartbeat", SpacedInv, NEW c \in Checks, Finish(c)
  PROVE  SpacedInv'
<1>1. \A k \in Keys : KnowsFiring(copy[c][k], streak[k])
  BY DEF Finish, SpacedInv
<1>2. /\ entry' = copy[c] /\ UNCHANGED <<streak, clearing>>
      /\ pc' = [pc EXCEPT ![c] = "idle"] /\ pc[c] = "send"
  BY DEF Finish, Leave
<1>3. \A d \in Checks : pc'[d] = "idle"
  BY <1>2 DEF SpacedInv, TypeInv, TypeOK
<1> QED
  BY <1>1, <1>2, <1>3 DEF SpacedInv

LEMMA SpacedBegin ==
  ASSUME TypeInv, SpacedInv, NEW c \in Checks, Begin(c), ~overlap'
  PROVE  SpacedInv'
<1>1. \A d \in Checks : pc[d] = "idle"
  BY DEF Begin, Enter
<1>2. /\ UNCHANGED <<entry, streak, copy, clearing>>
      /\ pc' = [pc EXCEPT ![c] = "observe"]
  BY DEF Begin, Enter
<1>3. \A d \in Checks : pc'[d] # "send" /\ (pc'[d] # "idle" => d = c)
  BY <1>1, <1>2 DEF TypeInv, TypeOK
<1> QED
  BY <1>1, <1>2, <1>3, SpacedRest

LEMMA SpacedObserve ==
  ASSUME TypeInv, SpacedInv, NEW c \in Checks, NEW k \in Keys, Observe(c, k)
  PROVE  SpacedInv'
<1>1. /\ UNCHANGED <<entry, streak, copy, clearing>>
      /\ pc' = [pc EXCEPT ![c] = pc'[c]] /\ pc'[c] \in {"observe", "evaluate"}
      /\ pc[c] = "observe" /\ pc \in [Checks -> {"idle", "observe", "evaluate", "send"}]
  BY DEF Observe, storeVars, TypeInv, TypeOK
<1>2. \A d \in Checks : /\ pc'[d] = "send" <=> pc[d] = "send"
                        /\ pc'[d] = "idle" <=> pc[d] = "idle"
  BY <1>1
<1> QED
  BY <1>1, <1>2, SpacedRest DEF SpacedInv

(* Of the faults and of overlap nothing is forgotten. *)
LEMMA UndisturbedBefore ==
  ASSUME TypeInv, [Next]_vars, Undisturbed'
  PROVE  Undisturbed /\ policy' = policy /\ \A f : ~Disturb(f)
<1>1. \A f : ~Disturb(f)
  BY DisturbTyped DEF TypeInv, TypeOK, Undisturbed
<1>2. engine' = engine /\ policy' = policy
  BY DEF Next, CheckStep, OperatorStep, Time, Change, Switch, Begin, BeginForced, Enter, Observe,
         Evaluate, Send, Finish, Clear, HeartbeatClearReads, HeartbeatClearWrites, Restart,
         fixed, vars
<1>3. overlap => overlap'
  BY DEF Next, CheckStep, OperatorStep, Time, Change, Switch, Begin, BeginForced, Enter, Observe,
         Evaluate, Send, Finish, Clear, HeartbeatClearReads, HeartbeatClearWrites, Restart, vars
<1>4. faults' = faults
  BY <1>1 DEF Next, CheckStep, OperatorStep, Time, Change, Switch, Begin, BeginForced, Enter, Observe,
         Evaluate, Send, Finish, Clear, HeartbeatClearReads, HeartbeatClearWrites, Restart, vars
<1> QED
  BY <1>1, <1>2, <1>3, <1>4 DEF Undisturbed

LEMMA HeartbeatNext == HeartbeatInv /\ [Next]_vars => HeartbeatInv'
<1> SUFFICES ASSUME HeartbeatInv, [Next]_vars PROVE HeartbeatInv'
  OBVIOUS
<1>1. TypeInv /\ TypeInv'
  BY TypeNext DEF HeartbeatInv
<1> SUFFICES ASSUME Undisturbed' PROVE ~policy'.once /\ SpacedInv'
  BY <1>1 DEF HeartbeatInv
<1>2. Undisturbed /\ policy' = policy /\ \A f : ~Disturb(f)
  BY <1>1, UndisturbedBefore
<1>3. ~policy'.once /\ SpacedInv /\ engine = "heartbeat" /\ clearing = NoCopy /\ ~overlap'
  BY <1>2 DEF HeartbeatInv, Undisturbed, SpacedInv
<1>4. CASE Time
  BY <1>1, <1>3, <1>4, SpacedTime
<1>5. ASSUME NEW c \in Checks, Begin(c) PROVE SpacedInv'
  BY <1>1, <1>3, <1>5, SpacedBegin
<1>6. ASSUME NEW c \in Checks, NEW k \in Keys, Observe(c, k) PROVE SpacedInv'
  BY <1>1, <1>3, <1>6, SpacedObserve
<1>7. ASSUME NEW c \in Checks, Evaluate(c) PROVE SpacedInv'
  BY <1>1, <1>3, <1>7, SpacedEvaluate
<1>8. ASSUME NEW c \in Checks, Finish(c) PROVE SpacedInv'
  BY <1>1, <1>3, <1>8, SpacedFinish
<1>9. ASSUME (\E k \in Keys : Change(k)) \/ Switch \/ UNCHANGED vars
             \/ \E c \in Checks : \E n \in todo[c] : Send(c, n)
      PROVE  SpacedInv'
  <2>1. UNCHANGED <<entry, streak, copy, clearing, pc>>
    BY <1>9 DEF Change, Switch, Send, storeVars, locals, vars
  <2> QED
    BY <1>3, <2>1, SpacedRest DEF SpacedInv
<1>10. /\ ~Clear /\ ~HeartbeatClearReads /\ ~HeartbeatClearWrites /\ ~Restart
       /\ \A c \in Checks : ~BeginForced(c)
  BY <1>2, <1>3 DEF Clear, HeartbeatClearReads, HeartbeatClearWrites, Restart, BeginForced
<1> QED
  BY <1>3, <1>4, <1>5, <1>6, <1>7, <1>8, <1>9, <1>10 DEF Next, CheckStep, OperatorStep

(* Until a check overlaps another or something is cut short, the heartbeat engine sends
   no two firings of a condition within the reminder interval: the entries it writes back
   know of the last one. *)
THEOREM RemindersAreSpaced == Spec => HeartbeatSpaced
<1>1. ASSUME HeartbeatInv, [Next]_vars
      PROVE  engine = "heartbeat" /\ ~overlap /\ faults = 0 => \A k \in Keys :
               Says(k, "firing") => streak[k].ago >= Reminder
  <2> SUFFICES ASSUME engine = "heartbeat", ~overlap, faults = 0,
                      NEW k \in Keys, Says(k, "firing")
               PROVE  streak[k].ago >= Reminder
    OBVIOUS
  <2>1. TypeInv /\ ~policy.once /\ SpacedInv
    BY <1>1 DEF HeartbeatInv, Undisturbed
  <2>2. Typed /\ entry[k] \in Entry /\ streak[k] \in Streak
    BY <2>1 DEF Typed, TypeInv, TypeOK
  <2>3. PICK c \in Checks : Evaluate(c) /\ [key |-> k, state |-> "firing"] \in Decided(c)
    BY <1>1, <2>2, SaysEvaluates
  <2>4. Fires(Seen(entry[k]))
    BY <2>3, DecidedFiring
  <2>5. \A d \in Checks : pc[d] # "send"
    BY <2>1, <2>3 DEF Evaluate, SpacedInv
  <2>6. KnowsFiring(entry[k], streak[k])
    BY <2>1, <2>5 DEF SpacedInv
  <2>7. entry[k].sent => streak[k].ago >= Reminder
    BY <1>1, <2>2, <2>4, <2>6, SeenKnows DEF Fires, KnowsFiring
  <2>8. ~entry[k].sent => streak[k].ago >= Reminder
    BY <2>6, Ages DEF KnowsFiring
  <2> QED
    BY <2>7, <2>8
<1>2. Spec => []HeartbeatInv
  BY SpacedInit, HeartbeatNext, PTL DEF Spec
<1> QED
  BY <1>1, <1>2, PTL DEF Spec, HeartbeatSpaced
=============================================================================
