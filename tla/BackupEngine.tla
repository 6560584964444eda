----------------------------- MODULE BackupEngine -----------------------------
(***************************************************************************)
(* Tainer's backup engine (backup-engine.ts with backup-run-log.ts and     *)
(* markPolicyRun of backup-policies.ts): the tick of the scheduler that    *)
(* polls the one backup in flight, starts the next one, ends finished runs *)
(* and starts due policies, beside the operators' manual runs.             *)
(*                                                                         *)
(* Files are those of a site context.  An operator's action runs in the    *)
(* context of its site.  The scheduler sets none, so its tick works in the *)
(* context of the PROXMOX_* variables, or in none at all.                  *)
(*                                                                         *)
(* An action is the code from one await to the next.  Offloading to the    *)
(* Storage Box reads nothing of this state and changes none of it.         *)
(***************************************************************************)
EXTENDS Naturals, Sequences, FiniteSets

CONSTANTS
  SitePolicies,   \* policies in the store of the site
  EnvPolicies,    \* policies in the store of the __env__ context: kept or put there by
                  \* hand, since no page writes it
  Guests,
  Scopes,         \* what filterDeploymentsByScope may return for each policy
  Retention,      \* retentionCount of every policy
  Ticks,          \* ticks that may be under way at once: more than one when they overlap
  Manuals,        \* manual runs of a behaviour: a bound
  Scheduled,      \* the policies that come due: a bound
  EnvConfigured,  \* whether the PROXMOX_* variables are set
  None,
  Faults,         \* the faults this instance allows
  MaxErrors,      \* requests and writes that fail: a bound
  MaxRuns         \* a policy comes due again up to this many runs: a bound

Policies == SitePolicies \cup EnvPolicies
Actors == Ticks \cup Manuals

Result == [guest : Guests, ok : BOOLEAN]                   \* BackupWorkloadResult
ActiveRun == [run : Nat, pending : SUBSET Guests, completed : Seq(Result)]
Slot == [policy : Policies, guest : Guests, task : Nat]    \* InFlightVm

ASSUME BackupAssumption ==
  /\ SitePolicies \cap EnvPolicies = {}
  /\ Ticks \cap Manuals = {}
  /\ None \notin Policies \cup Guests \cup ActiveRun \cup Slot
  /\ IsFiniteSet(Guests)
  /\ Scheduled \subseteq Policies
  /\ Scopes \in [Policies -> SUBSET SUBSET Guests]
  /\ Retention \in Nat /\ MaxErrors \in Nat /\ MaxRuns \in Nat
  /\ EnvConfigured \in BOOLEAN
  /\ Faults \subseteq {"trigger",   \* triggerBackup is refused
                       "poll",      \* getTaskSnapshot, or a list of Proxmox, fails
                       "read",      \* a store cannot be read, and is taken to be empty
                       "write",     \* a store cannot be written
                       "delete",    \* an archive cannot be deleted
                       "restart",   \* the process restarts
                       "race"}      \* manual runs overlap

VARIABLES
  active,     \* activeRuns: the run of each policy, or None
  inFlight,   \* inFlightVm, or None
  backingUp,  \* backingUpVmids
  tasks,      \* the vzdump tasks on the cluster, in the order they started
  archives,   \* archives of each guest on the policies' storage
  due,        \* the policies whose nextRunAt has passed
  log,        \* backup-run-log.json of each context
  pc, loc,    \* where each tick or manual run is, and its local variables
  lastRun,    \* runs created so far
  before,     \* the last run of the processes before this one
  missed,     \* runs whose record an error left without its last news: bookkeeping
  errors

vars == <<active, inFlight, backingUp, tasks, archives, due, log, pc, loc, lastRun, before,
          missed, errors>>
engineVars == <<active, inFlight, backingUp>>
clusterVars == <<tasks, archives>>

ActivePolicies == {p \in Policies : active[p] # None}

(* The runs that were created so far. *)
Runs == 0..lastRun
Record == [run : Runs, ended : BOOLEAN, results : SUBSET Result]
Task == [run : Runs, guest : Guests, state : {"running", "success", "error"}]
Stages == {"idle", "snapshot", "prune", "update", "updateWrite", "clear", "advance",
           "trigger", "finalize", "finalizeWrite", "mark", "delete", "list", "start",
           "create", "endEmpty", "done"}

(* The type of the state; and the guest in flight is marked as being backed up, whoever
   set or cleared the slot. *)
TypeOK ==
  /\ active \in [Policies -> ActiveRun \cup {None}]
  /\ \A p \in ActivePolicies : active[p].run \in Runs /\ active[p].pending \in Scopes[p]
  /\ inFlight \in Slot \cup {None}
  /\ inFlight # None => inFlight.task \in 1..Len(tasks) /\ inFlight.guest \in backingUp
  /\ backingUp \subseteq Guests
  /\ tasks \in Seq(Task)
  /\ archives \in [Guests -> Nat]
  /\ due \subseteq Policies
  /\ log \in [{"site", "env"} -> SUBSET Record]
  /\ pc \in [Actors -> Stages]
  /\ lastRun \in Nat /\ before \in Runs /\ missed \subseteq Runs /\ errors \in 0..MaxErrors

NoLocals ==
  [policy |-> None, run |-> 0, guest |-> None, task |-> 0, ok |-> FALSE, results |-> {},
   copy |-> {}, left |-> {}]

Init ==
  /\ active = [p \in Policies |-> None]
  /\ inFlight = None /\ backingUp = {}
  /\ tasks = <<>> /\ archives = [g \in Guests |-> 0]
  /\ due = {}
  /\ log = [c \in {"site", "env"} |-> {}]
  /\ pc = [a \in Actors |-> "idle"]
  /\ loc = [a \in Actors |-> NoLocals]
  /\ lastRun = 0 /\ before = 0 /\ missed = {} /\ errors = 0

Fault(f) == f \in Faults /\ errors < MaxErrors /\ errors' = errors + 1
NoFault == UNCHANGED errors

To(a, stage) == pc' = [pc EXCEPT ![a] = stage] /\ UNCHANGED loc
Leave(a, stage) == pc' = [pc EXCEPT ![a] = stage] /\ loc' = [loc EXCEPT ![a] = NoLocals]
With(a, stage, l) == pc' = [pc EXCEPT ![a] = stage] /\ loc' = [loc EXCEPT ![a] = l]

(* getActiveSiteConfig: the context an actor's files and requests are in. *)
Context(a) == IF a \in Manuals THEN "site" ELSE IF EnvConfigured THEN "env" ELSE "none"
PoliciesIn(c) == CASE c = "site" -> SitePolicies [] c = "env" -> EnvPolicies [] OTHER -> {}

(* run.completed.push: on the run the tick holds, which may not be the active one any
   more. *)
Pushed(p, run, r) ==
  IF active[p] # None /\ active[p].run = run
    THEN [active EXCEPT ![p].completed = Append(@, r)]
    ELSE active

ResultsOf(run) == {run.completed[i] : i \in 1..Len(run.completed)}

-----------------------------------------------------------------------------
(* pollInFlightVm *)

TickStart(t) ==
  /\ pc[t] = "idle"
  /\ IF inFlight = None
       THEN Leave(t, "advance")
       ELSE With(t, "snapshot", [NoLocals EXCEPT !.policy = inFlight.policy,
                                                 !.guest = inFlight.guest, !.task = inFlight.task])
  /\ UNCHANGED <<engineVars, clusterVars, due, log, lastRun, before, missed, errors>>

(* The slot is free again, whatever backup it holds by now. *)
Freed_KeepsMark(g) == inFlight' = None /\ UNCHANGED backingUp
Freed(g) == inFlight' = None /\ backingUp' = backingUp \ {g}

(* The poll takes up a task only once it has ended. *)
Ended(state) == state # "running"

Snapshot(t) ==
  LET p == loc[t].policy
      g == loc[t].guest
      state == tasks[loc[t].task].state
  IN
  /\ pc[t] = "snapshot" /\ Ended(state)
  /\ IF active[p] = None
       THEN Freed(g) /\ Leave(t, "advance") /\ UNCHANGED active
       ELSE LET ok == state = "success"
                result == [guest |-> g, ok |-> ok]
                l == [loc[t] EXCEPT !.run = active[p].run, !.ok = ok,
                                    !.results = ResultsOf(active[p]) \cup {result}]
            IN
            IF ok /\ Retention > 0
              THEN With(t, "prune", l) /\ UNCHANGED engineVars
              ELSE /\ active' = Pushed(p, l.run, result)
                   /\ With(t, "update", l) /\ UNCHANGED <<inFlight, backingUp>>
  /\ UNCHANGED <<clusterVars, due, log, lastRun, before, missed, errors>>

SnapshotIdle(t) ==
  /\ pc[t] = "snapshot"
  /\ \/ ~Ended(tasks[loc[t].task].state) /\ NoFault
     \/ Fault("poll")
  /\ Leave(t, "advance")
  /\ UNCHANGED <<engineVars, clusterVars, due, log, lastRun, before, missed>>

(* enforceRetention deletes all but the newest retentionCount archives; a failed delete
   leaves its archive. *)
Kept_OneLess == Retention - 1
Kept == Retention

Prune(t) ==
  LET g == loc[t].guest
      least == IF archives[g] > Kept THEN Kept ELSE archives[g]
  IN
  /\ pc[t] = "prune"
  /\ \/ archives' = [archives EXCEPT ![g] = least] /\ NoFault
     \/ archives[g] > least /\ archives' = [archives EXCEPT ![g] = least + 1] /\ Fault("delete")
  /\ active' = Pushed(loc[t].policy, loc[t].run, [guest |-> g, ok |-> TRUE])
  /\ To(t, "update")
  /\ UNCHANGED <<inFlight, backingUp, tasks, due, log, lastRun, before, missed>>

HasRecord(a, run) == Context(a) # "none" /\ \E r \in log[Context(a)] : r.run = run

Logged_LastOnly(c, l) ==
  {IF r.run = l.run THEN [r EXCEPT !.results = {[guest |-> l.guest, ok |-> l.ok]}] ELSE r : r \in c}
Logged(c, l) == {IF r.run = l.run THEN [r EXCEPT !.results = l.results] ELSE r : r \in c}

(* readStore takes a log that it cannot read for an empty one, in which no run is found:
   the record stays as it is. *)
Misses(a) ==
  /\ HasRecord(a, loc[a].run) /\ Fault("read")
  /\ missed' = missed \cup {loc[a].run}

(* updateBackupRun reads the log, and writes it back with the run's results if it knows
   the run. *)
Update(t) ==
  /\ pc[t] = "update"
  /\ \/ /\ HasRecord(t, loc[t].run)
        /\ With(t, "updateWrite", [loc[t] EXCEPT !.copy = Logged(log[Context(t)], loc[t])])
        /\ NoFault /\ UNCHANGED missed
     \/ ~HasRecord(t, loc[t].run) /\ To(t, "clear") /\ NoFault /\ UNCHANGED missed
     \/ Misses(t) /\ To(t, "clear")
  /\ UNCHANGED <<engineVars, clusterVars, due, log, lastRun, before>>

(* All results of the run are written each time, so a record that missed some has them
   now.  A failed write leaves the slot as it is: the next tick polls the task again. *)
UpdateWrite(t) ==
  /\ pc[t] = "updateWrite"
  /\ \/ /\ log' = [log EXCEPT ![Context(t)] = loc[t].copy]
        /\ missed' = missed \ {loc[t].run}
        /\ To(t, "clear") /\ NoFault
     \/ Fault("write") /\ Leave(t, "advance") /\ UNCHANGED <<log, missed>>
  /\ UNCHANGED <<engineVars, clusterVars, due, lastRun, before>>

Clear(t) ==
  /\ pc[t] = "clear"
  /\ Freed(loc[t].guest)
  /\ Leave(t, "advance")
  /\ UNCHANGED <<active, clusterVars, due, log, lastRun, before, missed, errors>>

-----------------------------------------------------------------------------
(* advanceActiveRuns *)

SlotFree_Unchecked == TRUE
SlotFree == inFlight = None

NextGuests(run) ==
  {g \in run.pending : g \notin backingUp
     /\ \A i \in 1..Len(run.completed) : run.completed[i].guest # g}

(* The run ends when every guest of it has a result. *)
Complete_AnyResult(run) == Len(run.completed) >= 1
Complete(run) == NextGuests(run) = {} /\ Len(run.completed) >= Cardinality(run.pending)

(* The loop over the active runs from here on: to a run that is complete or has a guest
   to back up.  The order of the map and of a run's guests is left open. *)
Loop(t, left) ==
  LET ready == {p \in left : active'[p] # None /\ (Complete(active'[p]) \/ NextGuests(active'[p]) # {})}
      l(p) == [NoLocals EXCEPT !.policy = p, !.run = active'[p].run, !.left = left \ {p}]
  IN
  \/ ready = {} /\ Leave(t, "list")
  \/ \E p \in ready :
       IF Complete(active'[p])
         THEN With(t, "finalize", l(p))
         ELSE \E g \in NextGuests(active'[p]) : With(t, "trigger", [l(p) EXCEPT !.guest = g])

Advance(t) ==
  /\ pc[t] = "advance"
  /\ UNCHANGED <<engineVars, clusterVars, due, log, lastRun, before, missed, errors>>
  /\ IF SlotFree THEN Loop(t, ActivePolicies) ELSE Leave(t, "list")

Marked_Not(g) == backingUp
Marked(g) == backingUp \cup {g}

(* startVmBackup *)
Trigger(t) ==
  LET g == loc[t].guest IN
  /\ pc[t] = "trigger" /\ Context(t) # "none"
  /\ tasks' = Append(tasks, [run |-> loc[t].run, guest |-> g, state |-> "running"])
  /\ inFlight' = [policy |-> loc[t].policy, guest |-> g, task |-> Len(tasks')]
  /\ backingUp' = Marked(g)
  /\ Leave(t, "list")
  /\ UNCHANGED <<active, archives, due, log, lastRun, before, missed, errors>>

(* The result of a backup that did not start stays in memory, and is not logged. *)
TriggerFails(t) ==
  /\ pc[t] = "trigger"
  /\ \/ Context(t) = "none" /\ NoFault
     \/ Fault("trigger")
  /\ active' = Pushed(loc[t].policy, loc[t].run, [guest |-> loc[t].guest, ok |-> FALSE])
  /\ Leave(t, "list")
  /\ UNCHANGED <<inFlight, backingUp, clusterVars, due, log, lastRun, before, missed>>

(* finalizeBackupRun, which returns without an error if it does not find the run. *)
Finalize(t) ==
  /\ pc[t] = "finalize"
  /\ \/ /\ HasRecord(t, loc[t].run)
        /\ With(t, "finalizeWrite", [loc[t] EXCEPT !.copy = log[Context(t)]])
        /\ NoFault /\ UNCHANGED missed
     \/ ~HasRecord(t, loc[t].run) /\ To(t, "mark") /\ NoFault /\ UNCHANGED missed
     \/ Misses(t) /\ To(t, "mark")
  /\ UNCHANGED <<engineVars, clusterVars, due, log, lastRun, before>>

EndedIn_NotSaved(c, run) == c
EndedIn(c, run) ==
  {IF r.run = run THEN [r EXCEPT !.ended = TRUE] ELSE r : r \in c}

(* An error here leaves the tick: the run stays active and is tried again. *)
FinalizeWrite(t) ==
  /\ pc[t] = "finalizeWrite"
  /\ \/ /\ log' = [log EXCEPT ![Context(t)] = EndedIn(loc[t].copy, loc[t].run)]
        /\ To(t, "mark") /\ NoFault
     \/ Fault("write") /\ Leave(t, "idle") /\ UNCHANGED log
  /\ UNCHANGED <<engineVars, clusterVars, due, lastRun, before, missed>>

(* markPolicyRun knows the policies of its own context only; in none it cannot write. *)
Mark(t) ==
  /\ pc[t] = "mark"
  /\ \/ /\ Context(t) # "none" /\ NoFault
        /\ due' = due \ ({loc[t].policy} \cap PoliciesIn(Context(t)))
        /\ To(t, "delete")
     \/ /\ \/ Context(t) = "none" /\ NoFault
           \/ Fault("write")
        /\ Leave(t, "idle") /\ UNCHANGED due
  /\ UNCHANGED <<engineVars, clusterVars, log, lastRun, before, missed>>

(* activeRuns.delete, by the policy *)
Delete(t) ==
  /\ pc[t] = "delete"
  /\ active' = [active EXCEPT ![loc[t].policy] = None]
  /\ Loop(t, loc[t].left)
  /\ UNCHANGED <<inFlight, backingUp, clusterVars, due, log, lastRun, before, missed, errors>>

-----------------------------------------------------------------------------
(* runBackupTick after the runs, and startPolicyRun *)

DuePolicies_NotRunningInLog(t) ==
  {p \in PoliciesIn(Context(t)) : p \in due /\ \A r \in log[Context(t)] : r.ended}
DuePolicies(t) == {p \in PoliciesIn(Context(t)) : p \in due /\ active[p] = None}

(* A tick that cannot read the policies finds none; one that cannot list the guests or
   the storages ends. *)
List(t) ==
  /\ pc[t] = "list"
  /\ \/ DuePolicies(t) = {} /\ Leave(t, "idle") /\ NoFault
     \/ /\ DuePolicies(t) # {} /\ NoFault
        /\ With(t, "start", [NoLocals EXCEPT !.left = DuePolicies(t)])
     \/ DuePolicies(t) # {} /\ (Fault("read") \/ Fault("poll")) /\ Leave(t, "idle")
  /\ UNCHANGED <<engineVars, clusterVars, due, log, lastRun, before, missed>>

(* What createBackupRun reads: the log, or nothing. *)
ReadsLog(a, copy) ==
  \/ copy = log[Context(a)] /\ NoFault
  \/ copy = {} /\ log[Context(a)] # {} /\ Fault("read")

(* The next due policy: its storage is healthy and createBackupRun reads the log, or it
   is skipped. *)
Start(t) ==
  /\ pc[t] = "start"
  /\ IF loc[t].left = {} THEN Leave(t, "idle") /\ NoFault
     ELSE \E p \in loc[t].left :
            LET left == loc[t].left \ {p} IN
            \/ \E copy \in {log[Context(t)], {}} :
                 /\ ReadsLog(t, copy)
                 /\ With(t, "create", [NoLocals EXCEPT !.policy = p, !.copy = copy, !.left = left])
            \/ Fault("poll") /\ With(t, "start", [NoLocals EXCEPT !.left = left])
  /\ UNCHANGED <<engineVars, clusterVars, due, log, lastRun, before, missed>>

Goes(a) == IF a \in Manuals THEN Leave(a, "done")
                            ELSE With(a, "start", [NoLocals EXCEPT !.left = loc[a].left])

(* createBackupRun writes the log, which keeps only the new run if it could not be read,
   and startPolicyRun makes the run the policy's active one. *)
Create(a) ==
  LET p == loc[a].policy
      run == lastRun + 1
  IN
  /\ pc[a] = "create"
  /\ lastRun' = run
  /\ log' = [log EXCEPT ![Context(a)] = loc[a].copy \cup {[run |-> run, ended |-> FALSE, results |-> {}]}]
  /\ \E scope \in Scopes[p] :
       IF scope = {}
         THEN With(a, "endEmpty", [loc[a] EXCEPT !.run = run]) /\ UNCHANGED active
         ELSE /\ active' = [active EXCEPT ![p] = [run |-> run, pending |-> scope,
                                                  completed |-> <<>>]]
              /\ Goes(a)
  /\ UNCHANGED <<inFlight, backingUp, clusterVars, due, before, missed, errors>>

CreateFails(a) ==
  /\ pc[a] = "create" /\ Fault("write")
  /\ Goes(a)
  /\ UNCHANGED <<engineVars, clusterVars, due, log, lastRun, before, missed>>

(* A run without guests is finalized and marked at once; an error ends startPolicyRun. *)
EndEmpty(a) ==
  LET ended == [log EXCEPT ![Context(a)] = EndedIn(@, loc[a].run)]
      marked == due \ {loc[a].policy}
  IN
  /\ pc[a] = "endEmpty"
  /\ \/ log' = ended /\ due' = marked /\ NoFault /\ UNCHANGED missed
     \/ log' = ended /\ Fault("write") /\ UNCHANGED <<due, missed>>
     \/ Misses(a) /\ due' = marked /\ UNCHANGED log
     \/ Fault("write") /\ missed' = missed \cup {loc[a].run} /\ UNCHANGED <<log, due>>
  /\ Goes(a)
  /\ UNCHANGED <<engineVars, clusterVars, lastRun, before>>

(* triggerManualBackupRun: refused while the policy has an active run. *)
Manual(m) ==
  /\ pc[m] = "idle"
  /\ "race" \in Faults \/ \A n \in Manuals : pc[n] \in {"idle", "done"}
  /\ \E p \in SitePolicies :
       IF active[p] = None
         THEN With(m, "start", [NoLocals EXCEPT !.policy = p])
         ELSE Leave(m, "done")
  /\ UNCHANGED <<engineVars, clusterVars, due, log, lastRun, before, missed, errors>>

ManualStart(m) ==
  /\ pc[m] = "start"
  /\ \/ \E copy \in {log["site"], {}} :
          ReadsLog(m, copy) /\ With(m, "create", [loc[m] EXCEPT !.copy = copy])
     \/ Fault("poll") /\ Leave(m, "done")
  /\ UNCHANGED <<engineVars, clusterVars, due, log, lastRun, before, missed>>

-----------------------------------------------------------------------------
(* The cluster and the clock *)

TaskEnds(i) ==
  /\ tasks[i].state = "running"
  /\ \E s \in {"success", "error"} :
       /\ tasks' = [tasks EXCEPT ![i].state = s]
       /\ archives' = IF s = "success" THEN [archives EXCEPT ![tasks[i].guest] = @ + 1]
                                       ELSE archives
  /\ UNCHANGED <<engineVars, due, log, pc, loc, lastRun, before, missed, errors>>

(* nextRunAt passes. *)
ComesDue(p) ==
  /\ p \notin due /\ lastRun < MaxRuns
  /\ due' = due \cup {p}
  /\ UNCHANGED <<engineVars, clusterVars, log, pc, loc, lastRun, before, missed, errors>>

(* The process restarts: the engine's state is a global of the process, and nothing reads
   the runs of the log back into it. *)
Restart ==
  /\ Fault("restart")
  /\ active' = [p \in Policies |-> None]
  /\ inFlight' = None /\ backingUp' = {}
  /\ pc' = [a \in Actors |-> IF a \in Manuals /\ pc[a] # "idle" THEN "done" ELSE "idle"]
  /\ loc' = [a \in Actors |-> NoLocals]
  /\ before' = lastRun
  /\ UNCHANGED <<clusterVars, due, log, lastRun, missed>>

TickGoesOn(t) ==
  \/ Snapshot(t) \/ SnapshotIdle(t) \/ Prune(t) \/ Update(t) \/ UpdateWrite(t) \/ Clear(t)
  \/ Advance(t) \/ Trigger(t) \/ TriggerFails(t)
  \/ Finalize(t) \/ FinalizeWrite(t) \/ Mark(t) \/ Delete(t)
  \/ List(t) \/ Start(t)
  \/ Create(t) \/ CreateFails(t) \/ EndEmpty(t)

Next ==
  \/ \E t \in Ticks : TickStart(t) \/ TickGoesOn(t)
  \/ \E m \in Manuals : Manual(m) \/ ManualStart(m) \/ Create(m) \/ CreateFails(m) \/ EndEmpty(m)
  \/ \E i \in 1..Len(tasks) : TaskEnds(i)
  \/ \E p \in Scheduled : ComesDue(p)
  \/ Restart

Spec == Init /\ [][Next]_vars

(* The interval fires for ever, continuations run, and vzdump tasks end. *)
FairSpec ==
  /\ Spec
  /\ \A t \in Ticks : WF_vars(TickStart(t) \/ TickGoesOn(t))
  /\ WF_vars(\E i \in 1..Len(tasks) : TaskEnds(i))

-----------------------------------------------------------------------------
(* Properties *)

(* Guests are backed up one at a time: the engine has one slot, and starts no task
   while another one it started is running.  It does not know the task of a process
   before it. *)
OneBackupAtATime ==
  \A i, j \in 1..Len(tasks) :
    /\ tasks[i].state = "running" /\ tasks[j].state = "running"
    /\ tasks[i].run > before /\ tasks[j].run > before
    => i = j

(* A run leaves activeRuns only when every guest of it has a result, or with the
   process. *)
EndsComplete(p) ==
  active[p] # None /\ active'[p] = None /\ before' = before =>
    \A g \in active[p].pending :
      \E i \in 1..Len(active[p].completed) : active[p].completed[i].guest = g
RunsEndComplete == [][\A p \in Policies : EndsComplete(p)]_vars

(* A guest reported as backed up in a run has an archive to restore. *)
SuccessHasArchive ==
  \A p \in ActivePolicies : \A i \in 1..Len(active[p].completed) :
    active[p].completed[i].ok => archives[active[p].completed[i].guest] > 0

(* A scheduled run whose policy is idle again is not left in its log as running, unless
   the process that ran it is gone, or the log could not be read when the run ended, or,
   of a run without guests, written. *)
ScheduledRunsRecorded ==
  (\A a \in Actors : pc[a] # "endEmpty") =>
    \A r \in log["env"] :
      \/ r.ended \/ r.run <= before \/ r.run \in missed
      \/ \E p \in EnvPolicies : active[p] # None /\ active[p].run = r.run

(* The record of a run that ended tells the outcome of every backup the run started:
   failed polls, writes and restarts lose none.  A log that cannot be read loses the
   last results only if no later result of the run was recorded.  (A backup that did
   not start may be missing from the record.) *)
RecordsTell ==
  \A r \in log["env"] : \A i \in 1..Len(tasks) :
    r.ended /\ r.run \notin missed /\ tasks[i].run = r.run =>
      /\ Ended(tasks[i].state)
      /\ [guest |-> tasks[i].guest, ok |-> tasks[i].state = "success"] \in r.results

(* Every active run ends: ticks go on in spite of failed polls, triggers and writes. *)
RunsEnd == \A p \in Policies : []<>(active[p] = None)

(* A policy that is due in the scheduler's context is run to its end: a run that a
   restart or a failed write cut short is started again. *)
DueRuns == \A p \in EnvPolicies : []<>(p \notin due)

(* What the page of the policies promises: "Automated backup schedules ... Each policy
   runs independently via the built-in scheduler".  A policy that is due gets a run. *)
PoliciesRun == \A p \in SitePolicies : p \in due ~> active[p] # None
=============================================================================
