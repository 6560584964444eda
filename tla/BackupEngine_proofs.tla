------------------------- MODULE BackupEngine_proofs -------------------------
(***************************************************************************)
(* What the backup engine guarantees, for any policies, guests, scopes,    *)
(* retention, manual runs and faults: the type of its state and an archive *)
(* for each success whatever overlaps, and one backup at a time for a tick *)
(* that is alone.  BackupRecords_proofs goes on with the records and the   *)
(* ends of the runs.                                                       *)
(***************************************************************************)
EXTENDS BackupEngine, TLAPS

(* The locals of the actors, with what they hold at each stage. *)
Locals ==
  [policy : Policies \cup {None}, run : Runs, guest : Guests \cup {None}, task : Nat,
   ok : BOOLEAN, results : SUBSET Result, copy : SUBSET Record, left : SUBSET Policies]

Polling == {"snapshot", "prune", "update", "updateWrite", "clear"}
Ending == {"finalize", "finalizeWrite", "mark", "delete"}

(* What an actor holds at a stage. *)
Fits(a, stage, l, n) ==
  /\ stage \in Polling \cup Ending \cup {"trigger", "create", "endEmpty"} => l.policy \in Policies
  /\ stage \in Polling \cup {"trigger"} => l.guest \in Guests
  /\ stage \in Polling => l.task \in 1..n
  /\ stage \in {"start", "create", "endEmpty"} /\ l.left # {} => EnvConfigured
  /\ stage \in {"start", "create", "endEmpty"} /\ a \in Manuals => l.policy \in SitePolicies

LocalsOK ==
  /\ loc \in [Actors -> Locals]
  /\ \A a \in Actors : Fits(a, pc[a], loc[a], Len(tasks))

TypeInv ==
  /\ TypeOK /\ LocalsOK
  /\ \A p \in ActivePolicies : active[p].run > before

-----------------------------------------------------------------------------
(* The locals of an actor *)

LEMMA NoLocalsType == ASSUME lastRun \in Nat PROVE NoLocals \in Locals
BY DEF NoLocals, Locals, Runs

LEMMA PolledType ==
  ASSUME lastRun \in Nat, NEW p \in Policies, NEW g \in Guests, NEW i \in Nat
  PROVE  [NoLocals EXCEPT !.policy = p, !.guest = g, !.task = i] \in Locals
BY NoLocalsType DEF Locals

LEMMA ResultsType ==
  ASSUME NEW l \in Locals, NEW run \in Runs, NEW ok \in BOOLEAN, NEW res \in SUBSET Result
  PROVE  [l EXCEPT !.run = run, !.ok = ok, !.results = res] \in Locals
BY DEF Locals

LEMMA CopyType ==
  ASSUME NEW l \in Locals, NEW c \in SUBSET Record
  PROVE  [l EXCEPT !.copy = c] \in Locals
BY DEF Locals

LEMMA RunType == ASSUME NEW l \in Locals, NEW run \in Runs PROVE [l EXCEPT !.run = run] \in Locals
BY DEF Locals

LEMMA PickedType ==
  ASSUME lastRun \in Nat, NEW p \in Policies, NEW run \in Runs, NEW left \in SUBSET Policies
  PROVE  [NoLocals EXCEPT !.policy = p, !.run = run, !.left = left] \in Locals
BY NoLocalsType DEF Locals

LEMMA GuestType == ASSUME NEW l \in Locals, NEW g \in Guests PROVE [l EXCEPT !.guest = g] \in Locals
BY DEF Locals

LEMMA LeftType ==
  ASSUME lastRun \in Nat, NEW left \in SUBSET Policies
  PROVE  [NoLocals EXCEPT !.left = left] \in Locals
BY NoLocalsType DEF Locals

LEMMA ManualType ==
  ASSUME lastRun \in Nat, NEW p \in Policies PROVE [NoLocals EXCEPT !.policy = p] \in Locals
BY NoLocalsType DEF Locals

LEMMA LoggedType ==
  ASSUME lastRun \in Nat, NEW l \in Locals, NEW c \in SUBSET Record PROVE Logged(c, l) \in SUBSET Record
<1> SUFFICES ASSUME NEW r \in c PROVE [r EXCEPT !.results = l.results] \in Record
  BY DEF Logged
<1>1. l.results \in SUBSET Result
  BY DEF Locals
<1> HIDE DEF Result
<1>2. r \in Record
  OBVIOUS
<1> QED
  BY <1>1, <1>2 DEF Record

LEMMA EndedInType ==
  ASSUME lastRun \in Nat, NEW run, NEW c \in SUBSET Record PROVE EndedIn(c, run) \in SUBSET Record
<1> SUFFICES ASSUME NEW r \in c PROVE [r EXCEPT !.ended = TRUE] \in Record
  BY DEF EndedIn
<1>2. r \in Record
  OBVIOUS
<1> QED
  BY <1>2 DEF Record

LEMMA NoneApart == IsFiniteSet(Guests) /\ None \notin ActiveRun /\ None \notin Slot /\ None \notin Policies
BY BackupAssumption

LEMMA InContext ==
  ASSUME NEW a \in Actors, Context(a) # "none" PROVE Context(a) \in {"site", "env"}
BY DEF Context

(* No run is created: the types that name the runs stay what they are. *)
LEMMA SameRuns ==
  ASSUME lastRun' = lastRun
  PROVE  Runs' = Runs /\ Record' = Record /\ Task' = Task /\ Locals' = Locals
<1>1. Runs' = Runs
  BY DEF Runs
<1>2. Record' = Record /\ Task' = Task
  BY <1>1 DEF Record, Task
<1> QED
  BY <1>1, <1>2 DEF Locals

(* A step of one actor to a stage that fits what it holds. *)
LEMMA Moves ==
  ASSUME TypeInv, NEW a \in Actors, NEW stage \in Stages, NEW l \in Locals, With(a, stage, l),
         Fits(a, stage, l, Len(tasks)), UNCHANGED <<tasks, lastRun>>
  PROVE  LocalsOK' /\ pc' \in [Actors -> Stages]
<1>1. pc' = [pc EXCEPT ![a] = stage] /\ loc' = [loc EXCEPT ![a] = l]
  BY DEF With
<1>2. pc \in [Actors -> Stages] /\ loc \in [Actors -> Locals]
  BY DEF TypeInv, TypeOK, LocalsOK
<1>3. loc' \in [Actors -> Locals'] /\ pc' \in [Actors -> Stages]
  BY <1>1, <1>2, SameRuns
<1>4. ASSUME NEW b \in Actors PROVE Fits(b, pc'[b], loc'[b], Len(tasks'))
  <2>1. CASE b = a
    BY <2>1, <1>1, <1>2
  <2>2. CASE b # a
    BY <2>2, <1>1, <1>2 DEF TypeInv, LocalsOK
  <2> QED
    BY <2>1, <2>2
<1> QED
  BY <1>3, <1>4 DEF LocalsOK

(* Two of the ways to move: with what the actor has, or with nothing. *)
LEMMA MovesTo ==
  ASSUME TypeInv, NEW a \in Actors, NEW stage \in Stages, To(a, stage),
         Fits(a, stage, loc[a], Len(tasks)), UNCHANGED <<tasks, lastRun>>
  PROVE  LocalsOK' /\ pc' \in [Actors -> Stages]
<1>1. loc[a] \in Locals /\ loc \in [Actors -> Locals]
  BY DEF TypeInv, LocalsOK
<1>2. With(a, stage, loc[a])
  BY <1>1 DEF To, With
<1> QED
  BY <1>1, <1>2, Moves

Resting == {"idle", "advance", "list", "done"}

LEMMA Leaves ==
  ASSUME TypeInv, NEW a \in Actors, NEW stage \in Resting, Leave(a, stage), UNCHANGED <<tasks, lastRun>>
  PROVE  LocalsOK' /\ pc' \in [Actors -> Stages]
<1>1. NoLocals \in Locals
  BY NoLocalsType DEF TypeInv, TypeOK
<1>2. With(a, stage, NoLocals)
  BY DEF Leave, With
<1>3. stage \in Stages /\ Fits(a, stage, NoLocals, Len(tasks))
  BY DEF Resting, Stages, Fits, Polling, Ending, NoLocals
<1> QED
  BY <1>1, <1>2, <1>3, Moves

LEMMA ErrType == ASSUME TypeInv, NEW f, Fault(f) \/ NoFault PROVE errors' \in 0..MaxErrors
BY BackupAssumption DEF TypeInv, TypeOK, Fault, NoFault

(* A step that leaves the engine and the cluster alone. *)
LEMMA Walks ==
  ASSUME TypeInv, LocalsOK', pc' \in [Actors -> Stages], errors' \in 0..MaxErrors,
         UNCHANGED <<engineVars, clusterVars, lastRun, before>>, missed' \subseteq Runs,
         due' \subseteq Policies, log' \in [{"site", "env"} -> SUBSET Record]
  PROVE  TypeInv'
<1>1. Runs' = Runs /\ Record' = Record /\ Task' = Task
  BY SameRuns
<1>2. ActivePolicies' = ActivePolicies
  BY DEF ActivePolicies, engineVars
<1> HIDE DEF Runs, Record, Task
<1>3. TypeOK'
  BY <1>1, <1>2 DEF TypeInv, TypeOK, engineVars, clusterVars
<1> QED
  BY <1>2, <1>3 DEF TypeInv, engineVars

(* What a result pushed to a run changes. *)
LEMMA PushedRuns ==
  ASSUME active \in [Policies -> ActiveRun \cup {None}],
         NEW p \in Policies, NEW run, NEW r \in Result, active' = Pushed(p, run, r)
  PROVE  /\ active' \in [Policies -> ActiveRun \cup {None}]
         /\ \A q \in Policies : active'[q] # None <=> active[q] # None
         /\ \A q \in Policies : active[q] # None =>
              /\ active'[q].run = active[q].run /\ active'[q].pending = active[q].pending
              /\ active'[q].completed = IF q = p /\ active[q].run = run
                                         THEN Append(active[q].completed, r)
                                         ELSE active[q].completed
<1> USE NoneApart
<1>1. CASE active[p] # None /\ active[p].run = run
  <2>1. active' = [active EXCEPT ![p].completed = Append(@, r)]
    BY <1>1 DEF Pushed
  <2>2. active[p] \in ActiveRun /\ active[p].completed \in Seq(Result)
    BY <1>1 DEF ActiveRun
  <2>3. Append(active[p].completed, r) \in Seq(Result)
    BY <2>2
  <2>4. active'[p] = [active[p] EXCEPT !.completed = Append(@, r)]
    BY <2>1
  <2> HIDE DEF Result
  <2>5. /\ active'[p] \in ActiveRun /\ active'[p].run = active[p].run
        /\ active'[p].pending = active[p].pending
        /\ active'[p].completed = Append(active[p].completed, r)
    BY <2>2, <2>3, <2>4 DEF ActiveRun
  <2>6. \A q \in Policies : q # p => active'[q] = active[q]
    BY <2>1
  <2>7. active' \in [Policies -> ActiveRun \cup {None}]
    BY <2>1, <2>3, <2>5, <2>6
  <2> QED
    BY <1>1, <2>5, <2>6, <2>7
<1>2. CASE ~(active[p] # None /\ active[p].run = run)
  BY <1>2 DEF Pushed
<1> QED
  BY <1>1, <1>2

(* The loop over the active runs: it has none left to act on, or takes one that is
   complete or has a guest to back up. *)
Picked(p, left) == [NoLocals EXCEPT !.policy = p, !.run = active'[p].run, !.left = left \ {p}]
PickedFor(p, left, g) == [Picked(p, left) EXCEPT !.guest = g]

LEMMA LoopChoice ==
  ASSUME NEW t, NEW left, Loop(t, left)
  PROVE  \/ Leave(t, "list")
         \/ \E p \in left : active'[p] # None /\
              \/ Complete(active'[p]) /\ With(t, "finalize", Picked(p, left))
              \/ \E g \in NextGuests(active'[p]) :
                   With(t, "trigger", PickedFor(p, left, g))
<1> DEFINE ready == {p \in left : active'[p] # None /\ (Complete(active'[p]) \/ NextGuests(active'[p]) # {})}
<1>1. \/ ready = {} /\ Leave(t, "list")
      \/ \E p \in ready :
           IF Complete(active'[p])
             THEN With(t, "finalize", Picked(p, left))
             ELSE \E g \in NextGuests(active'[p]) :
                    With(t, "trigger", PickedFor(p, left, g))
  BY Zenon DEF Loop, Picked, PickedFor
<1>2. ASSUME NEW p \in ready PROVE p \in left /\ active'[p] # None
  OBVIOUS
<1> HIDE DEF ready
<1> QED
  BY <1>1, <1>2

LEMMA PickedLocals ==
  ASSUME TypeInv, NEW left \in SUBSET Policies, NEW p \in left,
         active' \in [Policies -> ActiveRun \cup {None}], active'[p] # None, active'[p].run \in Runs
  PROVE  /\ Picked(p, left) \in Locals /\ Picked(p, left).policy = p
         /\ Picked(p, left).run = active'[p].run /\ Picked(p, left).left = left \ {p}
BY PickedType DEF Picked, TypeInv, TypeOK, NoLocals

LEMMA PickedGuest ==
  ASSUME TypeInv, NEW left \in SUBSET Policies, NEW p \in left,
         active' \in [Policies -> ActiveRun \cup {None}], active'[p] # None, active'[p].run \in Runs,
         NEW g \in Guests
  PROVE  /\ PickedFor(p, left, g) \in Locals /\ PickedFor(p, left, g).policy = p
         /\ PickedFor(p, left, g).guest = g /\ PickedFor(p, left, g).run = active'[p].run
         /\ PickedFor(p, left, g).left = left \ {p}
<1> DEFINE k == Picked(p, left)
<1>1. k \in Locals /\ k.policy = p /\ k.run = active'[p].run /\ k.left = left \ {p}
  BY PickedLocals
<1>2. PickedFor(p, left, g) = [k EXCEPT !.guest = g]
  BY DEF PickedFor
<1> HIDE DEF k
<1> QED
  BY <1>1, <1>2 DEF Locals

LEMMA LoopType ==
  ASSUME TypeInv, NEW t \in Ticks, NEW left \in SUBSET Policies, Loop(t, left),
         active' \in [Policies -> ActiveRun \cup {None}],
         \A p \in Policies : active'[p] # None => active'[p] = active[p],
         UNCHANGED <<tasks, lastRun>>
  PROVE  LocalsOK' /\ pc' \in [Actors -> Stages]
<1>0. t \in Actors
  BY DEF Actors
<1>1. CASE Leave(t, "list")
  BY <1>0, <1>1, Leaves DEF Resting
<1>2. ASSUME NEW p \in left, active'[p] # None,
             \/ With(t, "finalize", Picked(p, left))
             \/ \E g \in NextGuests(active'[p]) :
                  With(t, "trigger", PickedFor(p, left, g))
      PROVE  LocalsOK' /\ pc' \in [Actors -> Stages]
  <2>1. active'[p] \in ActiveRun /\ active'[p].run \in Runs
    BY <1>2 DEF TypeInv, TypeOK, ActivePolicies
  <2>2. CASE With(t, "finalize", Picked(p, left))
    <3>1. Picked(p, left) \in Locals /\ Picked(p, left).policy = p
      BY <1>2, <2>1, PickedLocals
    <3>2. Fits(t, "finalize", Picked(p, left), Len(tasks)) /\ "finalize" \in Stages
      BY <3>1 DEF Fits, Stages, Polling, Ending
    <3> QED
      BY <1>0, <2>2, <3>1, <3>2, Moves
  <2>3. ASSUME NEW g \in NextGuests(active'[p]),
               With(t, "trigger", PickedFor(p, left, g))
        PROVE  LocalsOK' /\ pc' \in [Actors -> Stages]
    <3> DEFINE l == PickedFor(p, left, g)
    <3>1. g \in Guests
      BY <2>1 DEF NextGuests, ActiveRun
    <3>2. l \in Locals /\ l.policy = p /\ l.guest = g
      BY <1>2, <2>1, <3>1, PickedGuest
    <3> HIDE DEF l
    <3>3. Fits(t, "trigger", l, Len(tasks)) /\ "trigger" \in Stages
      BY <3>1, <3>2 DEF Fits, Stages, Polling, Ending
    <3> QED
      BY <1>0, <2>3, <3>2, <3>3, Moves DEF l
  <2> QED
    BY <1>2, <2>2, <2>3
<1> QED
  BY <1>1, <1>2, LoopChoice

-----------------------------------------------------------------------------
(* Types *)

LEMMA InitType == Init => TypeInv
<1> SUFFICES ASSUME Init PROVE TypeInv
  OBVIOUS
<1>1. /\ lastRun = 0 /\ before = 0 /\ errors = 0 /\ errors \in 0..MaxErrors /\ before \in Runs
      /\ missed \subseteq Runs
  BY BackupAssumption DEF Init, Runs
<1>2. active \in [Policies -> ActiveRun \cup {None}] /\ ActivePolicies = {}
  BY DEF Init, ActivePolicies
<1>3. tasks \in Seq(Task) /\ Len(tasks) = 0
  BY DEF Init
<1>4. loc \in [Actors -> Locals]
  BY <1>1, NoLocalsType DEF Init
<1>5. \A a \in Actors : Fits(a, pc[a], loc[a], Len(tasks)) /\ pc[a] \in Stages
  BY DEF Init, Fits, Polling, Ending, Stages
<1>6. log \in [{"site", "env"} -> SUBSET Record]
  BY DEF Init
<1> QED
  BY <1>1, <1>2, <1>3, <1>4, <1>5, <1>6 DEF Init, TypeInv, TypeOK, LocalsOK

LEMMA TickStartType == ASSUME TypeInv, NEW t \in Ticks, TickStart(t) PROVE TypeInv'
<1>0. t \in Actors /\ errors' \in 0..MaxErrors
  BY DEF Actors, TickStart, TypeInv, TypeOK
<1>1. UNCHANGED <<engineVars, clusterVars, due, log, lastRun, before, missed>>
  BY DEF TickStart
<1>2. LocalsOK' /\ pc' \in [Actors -> Stages]
  <2>1. CASE inFlight = None
    BY <1>0, <1>1, <2>1, Leaves DEF TickStart, Resting, clusterVars
  <2>2. CASE inFlight # None
    <3> DEFINE p == inFlight.policy
               g == inFlight.guest
               i == inFlight.task
               l == [NoLocals EXCEPT !.policy = p, !.guest = g, !.task = i]
    <3>1. p \in Policies /\ g \in Guests /\ i \in Nat /\ i \in 1..Len(tasks)
      BY <2>2 DEF TypeInv, TypeOK, Slot
    <3>2. With(t, "snapshot", l)
      BY <2>2 DEF TickStart
    <3>3. l.policy = p /\ l.guest = g /\ l.task = i
      BY DEF NoLocals
    <3>4. l \in Locals
      BY <3>1, PolledType DEF TypeInv, TypeOK
    <3> HIDE DEF l
    <3>5. Fits(t, "snapshot", l, Len(tasks)) /\ "snapshot" \in Stages
      BY <3>1, <3>3 DEF Fits, Stages
    <3> QED
      BY <1>0, <1>1, <3>2, <3>4, <3>5, Moves DEF clusterVars
  <2> QED
    BY <2>1, <2>2
<1> QED
  BY <1>0, <1>1, <1>2, Walks DEF TypeInv, TypeOK

(* The results of a run, and the backup's own. *)
LEMMA ResultsOfType == ASSUME NEW run \in ActiveRun PROVE ResultsOf(run) \in SUBSET Result
BY DEF ActiveRun, ResultsOf

(* What the poll of a task that ended takes along. *)
OwnResult(t, ok) == [guest |-> loc[t].guest, ok |-> ok]
Polled(t, ok) ==
  [loc[t] EXCEPT !.run = active[loc[t].policy].run, !.ok = ok,
                 !.results = ResultsOf(active[loc[t].policy]) \cup {OwnResult(t, ok)}]

LEMMA SnapshotChoice ==
  ASSUME NEW t, Snapshot(t)
  PROVE  /\ pc[t] = "snapshot" /\ Ended(tasks[loc[t].task].state)
         /\ UNCHANGED <<clusterVars, due, log, lastRun, before, missed, errors>>
         /\ \/ active[loc[t].policy] = None /\ Freed(loc[t].guest) /\ Leave(t, "advance") /\ UNCHANGED active
            \/ \E ok \in BOOLEAN :
                 /\ active[loc[t].policy] # None /\ ok = (tasks[loc[t].task].state = "success")
                 /\ \/ ok /\ Retention > 0 /\ With(t, "prune", Polled(t, ok)) /\ UNCHANGED engineVars
                    \/ /\ ~(ok /\ Retention > 0)
                       /\ active' = Pushed(loc[t].policy, Polled(t, ok).run, OwnResult(t, ok))
                       /\ With(t, "update", Polled(t, ok)) /\ UNCHANGED <<inFlight, backingUp>>
<1>1. /\ pc[t] = "snapshot" /\ Ended(tasks[loc[t].task].state)
      /\ UNCHANGED <<clusterVars, due, log, lastRun, before, missed, errors>>
  BY Zenon DEF Snapshot
<1>2. CASE active[loc[t].policy] = None
  BY <1>1, <1>2, Zenon DEF Snapshot
<1>3. CASE active[loc[t].policy] # None
  <2> DEFINE ok == tasks[loc[t].task].state = "success"
  <2>1. IF ok /\ Retention > 0
          THEN With(t, "prune", Polled(t, ok)) /\ UNCHANGED engineVars
          ELSE /\ active' = Pushed(loc[t].policy, Polled(t, ok).run, OwnResult(t, ok))
               /\ With(t, "update", Polled(t, ok)) /\ UNCHANGED <<inFlight, backingUp>>
    BY <1>3, Zenon DEF Snapshot, Polled, OwnResult
  <2>2. ok \in BOOLEAN
    OBVIOUS
  <2> QED
    BY <1>1, <1>3, <2>1, <2>2, Zenon
<1> QED
  BY <1>2, <1>3

LEMMA PolledLocals ==
  ASSUME TypeInv, NEW t \in Ticks, pc[t] \in Polling
  PROVE  /\ t \in Actors /\ loc[t] \in Locals
         /\ loc[t].policy \in Policies /\ loc[t].guest \in Guests /\ loc[t].task \in 1..Len(tasks)
         /\ tasks[loc[t].task] \in Task
<1>1. t \in Actors
  BY DEF Actors
<1>2. loc[t] \in Locals /\ Fits(t, pc[t], loc[t], Len(tasks)) /\ tasks \in Seq(Task)
  BY <1>1 DEF TypeInv, TypeOK, LocalsOK
<1>3. loc[t].policy \in Policies /\ loc[t].guest \in Guests /\ loc[t].task \in 1..Len(tasks)
  BY <1>2 DEF Fits
<1> QED
  BY <1>1, <1>2, <1>3

LEMMA SnapshotLocals ==
  ASSUME TypeInv, NEW t \in Ticks, pc[t] \in Polling, active[loc[t].policy] # None, NEW ok \in BOOLEAN
  PROVE  LET l == Polled(t, ok) IN
         /\ l \in Locals /\ l.policy = loc[t].policy /\ l.guest = loc[t].guest /\ l.task = loc[t].task
         /\ l.run = active[loc[t].policy].run /\ l.ok = ok
         /\ l.results = ResultsOf(active[loc[t].policy]) \cup {OwnResult(t, ok)}
         /\ OwnResult(t, ok) \in Result
<1>1. active[loc[t].policy] \in ActiveRun /\ active[loc[t].policy].run \in Runs
  BY PolledLocals DEF TypeInv, TypeOK, ActivePolicies
<1>2. OwnResult(t, ok) \in Result
  BY PolledLocals DEF Result, OwnResult
<1> DEFINE res == ResultsOf(active[loc[t].policy]) \cup {OwnResult(t, ok)}
           run == active[loc[t].policy].run
<1>3. res \in SUBSET Result
  BY <1>1, <1>2, ResultsOfType
<1>4. Polled(t, ok) = [loc[t] EXCEPT !.run = run, !.ok = ok, !.results = res]
  BY DEF Polled
<1>5. run \in Runs
  BY <1>1
<1> HIDE DEF run, res
<1>6. LET l == Polled(t, ok) IN
      /\ l \in Locals /\ l.run = run /\ l.ok = ok /\ l.results = res
      /\ l.policy = loc[t].policy /\ l.guest = loc[t].guest /\ l.task = loc[t].task
  BY <1>3, <1>4, <1>5, PolledLocals DEF Locals
<1> QED
  BY <1>2, <1>6 DEF run, res

(* A step that leaves the cluster alone, but not the engine. *)
LEMMA Works ==
  ASSUME TypeInv, LocalsOK', pc' \in [Actors -> Stages], errors' \in 0..MaxErrors,
         UNCHANGED <<tasks, log, lastRun, before, missed>>, archives' \in [Guests -> Nat],
         due' \subseteq Policies,
         active' \in [Policies -> ActiveRun \cup {None}],
         \A p \in Policies : active'[p] # None =>
           active[p] # None /\ active'[p].run = active[p].run /\ active'[p].pending = active[p].pending,
         \/ inFlight' = None /\ backingUp' \subseteq Guests
         \/ UNCHANGED <<inFlight, backingUp>>
  PROVE  TypeInv'
<1>1. Runs' = Runs /\ Record' = Record /\ Task' = Task
  BY SameRuns
<1>2. \A p \in ActivePolicies' : p \in ActivePolicies /\ active'[p].run = active[p].run
                                 /\ active'[p].pending = active[p].pending
  BY DEF ActivePolicies
<1> HIDE DEF Runs, Record, Task
<1>3. inFlight' \in Slot \cup {None} /\ backingUp' \subseteq Guests
      /\ (inFlight' # None => inFlight'.task \in 1..Len(tasks') /\ inFlight'.guest \in backingUp')
  BY DEF TypeInv, TypeOK
<1>4. TypeOK'
  BY <1>1, <1>2, <1>3 DEF TypeInv, TypeOK
<1> QED
  BY <1>2, <1>4 DEF TypeInv

LEMMA SnapshotType == ASSUME TypeInv, NEW t \in Ticks, Snapshot(t) PROVE TypeInv'
<1>1. /\ pc[t] = "snapshot" /\ pc[t] \in Polling /\ t \in Actors
      /\ UNCHANGED <<clusterVars, due, log, lastRun, before, missed, errors>>
  BY SnapshotChoice DEF Polling, Actors
<1>2. CASE Freed(loc[t].guest) /\ Leave(t, "advance") /\ UNCHANGED active
  <2>1. LocalsOK' /\ pc' \in [Actors -> Stages]
    BY <1>1, <1>2, Leaves DEF Resting, clusterVars
  <2> QED
    BY <1>1, <1>2, <2>1, Works DEF TypeInv, TypeOK, clusterVars, Freed
<1>3. ASSUME NEW ok \in BOOLEAN, active[loc[t].policy] # None,
             \/ With(t, "prune", Polled(t, ok)) /\ UNCHANGED engineVars
             \/ /\ active' = Pushed(loc[t].policy, Polled(t, ok).run, OwnResult(t, ok))
                /\ With(t, "update", Polled(t, ok)) /\ UNCHANGED <<inFlight, backingUp>>
      PROVE  TypeInv'
  <2> DEFINE l == Polled(t, ok)
  <2>1. /\ l \in Locals /\ l.policy = loc[t].policy /\ l.guest = loc[t].guest /\ l.task = loc[t].task
        /\ OwnResult(t, ok) \in Result
    BY <1>1, <1>3, SnapshotLocals
  <2> HIDE DEF l
  <2>2. /\ Fits(t, "prune", l, Len(tasks)) /\ Fits(t, "update", l, Len(tasks))
        /\ "prune" \in Stages /\ "update" \in Stages
    BY <1>1, <2>1, PolledLocals DEF Fits, Stages, Polling, Ending
  <2>3. CASE With(t, "prune", l) /\ UNCHANGED engineVars
    <3>1. LocalsOK' /\ pc' \in [Actors -> Stages]
      BY <1>1, <2>1, <2>2, <2>3, Moves DEF clusterVars
    <3> QED
      BY <1>1, <2>3, <3>1, Walks DEF TypeInv, TypeOK
  <2>4. CASE /\ active' = Pushed(loc[t].policy, l.run, OwnResult(t, ok))
             /\ With(t, "update", l) /\ UNCHANGED <<inFlight, backingUp>>
    <3>1. LocalsOK' /\ pc' \in [Actors -> Stages]
      BY <1>1, <2>1, <2>2, <2>4, Moves DEF clusterVars
    <3>2. /\ active' \in [Policies -> ActiveRun \cup {None}]
          /\ \A p \in Policies : active'[p] # None =>
               active[p] # None /\ active'[p].run = active[p].run /\ active'[p].pending = active[p].pending
      BY <1>1, <2>1, <2>4, PolledLocals, PushedRuns DEF TypeInv, TypeOK
    <3> QED
      BY <1>1, <2>4, <3>1, <3>2, Works DEF TypeInv, TypeOK, clusterVars
  <2> QED
    BY <1>3, <2>3, <2>4 DEF l
<1> QED
  BY <1>1, <1>2, <1>3, SnapshotChoice

(* The other ways to change what an actor has. *)
Copied(a, c) == [loc[a] EXCEPT !.copy = c]
Numbered(a, run) == [loc[a] EXCEPT !.run = run]
Chosen(t, p, c) == [NoLocals EXCEPT !.policy = p, !.copy = c, !.left = loc[t].left \ {p}]
OnlyLeft(left) == [NoLocals EXCEPT !.left = left]
OnlyPolicy(p) == [NoLocals EXCEPT !.policy = p]

LEMMA CopiedLocals ==
  ASSUME TypeInv, NEW a \in Actors, NEW c \in SUBSET Record
  PROVE  LET l == Copied(a, c) IN
         /\ l \in Locals /\ l.copy = c
         /\ l.policy = loc[a].policy /\ l.guest = loc[a].guest /\ l.task = loc[a].task /\ l.run = loc[a].run
         /\ l.ok = loc[a].ok /\ l.results = loc[a].results /\ l.left = loc[a].left
<1>1. loc[a] \in Locals
  BY DEF TypeInv, LocalsOK
<1> QED
  BY <1>1 DEF Copied, Locals

LEMMA NumberedLocals ==
  ASSUME TypeInv, NEW a \in Actors, NEW run
  PROVE  LET l == Numbered(a, run) IN
         /\ run \in Runs => l \in Locals
         /\ l = [policy |-> loc[a].policy, run |-> run, guest |-> loc[a].guest, task |-> loc[a].task,
                 ok |-> loc[a].ok, results |-> loc[a].results, copy |-> loc[a].copy, left |-> loc[a].left]
<1>1. loc[a] \in Locals
  BY DEF TypeInv, LocalsOK
<1> QED
  BY <1>1 DEF Numbered, Locals

LEMMA ChosenLocals ==
  ASSUME TypeInv, NEW t \in Ticks, NEW p \in Policies, NEW c \in SUBSET Record
  PROVE  LET l == Chosen(t, p, c) IN
         l \in Locals /\ l.policy = p /\ l.copy = c /\ l.left = loc[t].left \ {p}
<1>1. loc[t].left \subseteq Policies /\ NoLocals \in Locals
  BY NoLocalsType DEF TypeInv, TypeOK, LocalsOK, Actors, Locals
<1> QED
  BY <1>1 DEF Locals, Chosen

LEMMA OnlyLeftLocals ==
  ASSUME TypeInv, NEW left \in SUBSET Policies
  PROVE  OnlyLeft(left) \in Locals /\ OnlyLeft(left).left = left
BY LeftType DEF OnlyLeft, NoLocals, TypeInv, TypeOK

LEMMA OnlyPolicyLocals ==
  ASSUME TypeInv, NEW p \in Policies
  PROVE  OnlyPolicy(p) \in Locals /\ OnlyPolicy(p).policy = p
BY ManualType DEF OnlyPolicy, NoLocals, TypeInv, TypeOK

LEMMA TickLocals ==
  ASSUME TypeInv, NEW a \in Actors
  PROVE  /\ loc[a] \in Locals /\ loc[a].left \subseteq Policies /\ loc[a].copy \subseteq Record
         /\ loc[a].run \in Runs
         /\ pc[a] \in Polling \cup Ending \cup {"trigger", "create", "endEmpty"} => loc[a].policy \in Policies
         /\ pc[a] \in Polling \cup {"trigger"} => loc[a].guest \in Guests
         /\ pc[a] \in Polling => loc[a].task \in 1..Len(tasks)
<1>1. loc[a] \in Locals /\ Fits(a, pc[a], loc[a], Len(tasks))
  BY DEF TypeInv, LocalsOK
<1>2. loc[a].left \subseteq Policies /\ loc[a].copy \subseteq Record /\ loc[a].run \in Runs
  BY <1>1 DEF Locals
<1> QED
  BY <1>1, <1>2 DEF Fits

LEMMA SnapshotIdleType == ASSUME TypeInv, NEW t \in Ticks, SnapshotIdle(t) PROVE TypeInv'
<1>1. /\ t \in Actors /\ errors' \in 0..MaxErrors /\ Leave(t, "advance")
      /\ UNCHANGED <<engineVars, clusterVars, due, log, lastRun, before, missed>>
  BY ErrType DEF SnapshotIdle, Actors
<1>2. LocalsOK' /\ pc' \in [Actors -> Stages]
  BY <1>1, Leaves DEF Resting, clusterVars
<1> QED
  BY <1>1, <1>2, Walks DEF TypeInv, TypeOK

LEMMA PruneType == ASSUME TypeInv, NEW t \in Ticks, Prune(t) PROVE TypeInv'
<1> DEFINE g == loc[t].guest
           r == [guest |-> g, ok |-> TRUE]
<1>1. /\ pc[t] = "prune" /\ pc[t] \in Polling /\ t \in Actors /\ errors' \in 0..MaxErrors
      /\ active' = Pushed(loc[t].policy, loc[t].run, r)
      /\ To(t, "update")
      /\ UNCHANGED <<inFlight, backingUp, tasks, due, log, lastRun, before, missed>>
  BY ErrType DEF Prune, Actors, Polling
<1>2. archives' \in [Guests -> Nat]
  <2>1. g \in Guests /\ Kept \in Nat /\ archives \in [Guests -> Nat]
    BY <1>1, PolledLocals, BackupAssumption DEF Kept, TypeInv, TypeOK
  <2>2. \E n \in Nat : archives' = [archives EXCEPT ![g] = n]
    BY <2>1 DEF Prune
  <2> QED
    BY <2>1, <2>2
<1>3. r \in Result /\ loc[t].policy \in Policies
  BY <1>1, PolledLocals DEF Result
<1>4. LocalsOK' /\ pc' \in [Actors -> Stages]
  <2>1. Fits(t, "update", loc[t], Len(tasks)) /\ "update" \in Stages
    BY <1>1, PolledLocals DEF Fits, Stages, Polling, Ending
  <2> QED
    BY <1>1, <2>1, MovesTo
<1> HIDE DEF r
<1>5. /\ active' \in [Policies -> ActiveRun \cup {None}]
      /\ \A p \in Policies : active'[p] # None =>
           active[p] # None /\ active'[p].run = active[p].run /\ active'[p].pending = active[p].pending
  BY <1>1, <1>3, PushedRuns DEF TypeInv, TypeOK
<1> QED
  BY <1>1, <1>2, <1>4, <1>5, Works DEF TypeInv, TypeOK

LEMMA HasRecordType ==
  ASSUME TypeInv, NEW a \in Actors, Context(a) # "none"
  PROVE  log[Context(a)] \in SUBSET Record
BY InContext DEF TypeInv, TypeOK

LEMMA MissesType ==
  ASSUME TypeInv, NEW a \in Actors, Misses(a) PROVE missed' \subseteq Runs /\ errors' \in 0..MaxErrors
BY ErrType, TickLocals DEF Misses, TypeInv, TypeOK

LEMMA UpdateType == ASSUME TypeInv, NEW t \in Ticks, Update(t) PROVE TypeInv'
<1>1. /\ pc[t] = "update" /\ pc[t] \in Polling /\ t \in Actors
      /\ UNCHANGED <<engineVars, clusterVars, due, log, lastRun, before>>
  BY DEF Update, Polling, Actors
<1>2. LocalsOK' /\ pc' \in [Actors -> Stages]
  <2>1. CASE HasRecord(t, loc[t].run) /\ With(t, "updateWrite", Copied(t, Logged(log[Context(t)], loc[t])))
    <3> DEFINE c == Logged(log[Context(t)], loc[t])
    <3>1. With(t, "updateWrite", Copied(t, c))
      BY <2>1
    <3>2. c \in SUBSET Record
      BY <1>1, <2>1, HasRecordType, PolledLocals, LoggedType DEF HasRecord, TypeInv, TypeOK
    <3> HIDE DEF c
    <3>3. Copied(t, c) \in Locals /\ Fits(t, "updateWrite", Copied(t, c), Len(tasks))
      BY <1>1, <3>2, CopiedLocals, PolledLocals DEF Fits, Polling, Ending
    <3> QED
      BY <1>1, <3>1, <3>3, Moves DEF clusterVars, Stages
  <2>2. CASE To(t, "clear")
    <3>1. Fits(t, "clear", loc[t], Len(tasks)) /\ "clear" \in Stages
      BY <1>1, PolledLocals DEF Fits, Polling, Ending, Stages
    <3> QED
      BY <1>1, <2>2, <3>1, MovesTo DEF clusterVars
  <2> QED
    BY <2>1, <2>2 DEF Update, Copied
<1>3. missed' \subseteq Runs /\ errors' \in 0..MaxErrors
  BY <1>1, MissesType DEF Update, NoFault, TypeInv, TypeOK
<1> QED
  BY <1>1, <1>2, <1>3, Walks DEF TypeInv, TypeOK

LEMMA UpdateWriteType == ASSUME TypeInv, NEW t \in Ticks, UpdateWrite(t) PROVE TypeInv'
<1>1. /\ pc[t] = "updateWrite" /\ pc[t] \in Polling /\ t \in Actors /\ errors' \in 0..MaxErrors
      /\ UNCHANGED <<engineVars, clusterVars, due, lastRun, before>> /\ missed' \subseteq Runs
  BY ErrType DEF UpdateWrite, Polling, Actors, TypeInv, TypeOK
<1>2. CASE log' = [log EXCEPT ![Context(t)] = loc[t].copy] /\ To(t, "clear")
  <2>1. Fits(t, "clear", loc[t], Len(tasks)) /\ "clear" \in Stages
    BY <1>1, PolledLocals DEF UpdateWrite, Fits, Polling, Ending, Stages
  <2>2. LocalsOK' /\ pc' \in [Actors -> Stages]
    BY <1>1, <1>2, <2>1, MovesTo DEF clusterVars
  <2>3. log' \in [{"site", "env"} -> SUBSET Record]
    BY <1>1, <1>2, TickLocals DEF TypeInv, TypeOK
  <2> QED
    BY <1>1, <2>2, <2>3, Walks DEF TypeInv, TypeOK
<1>3. CASE Leave(t, "advance") /\ UNCHANGED log
  <2>1. LocalsOK' /\ pc' \in [Actors -> Stages]
    BY <1>1, <1>3, Leaves DEF clusterVars, Resting
  <2> QED
    BY <1>1, <1>3, <2>1, Walks DEF TypeInv, TypeOK
<1> QED
  BY <1>2, <1>3 DEF UpdateWrite

LEMMA ClearType == ASSUME TypeInv, NEW t \in Ticks, Clear(t) PROVE TypeInv'
<1>1. /\ t \in Actors /\ Freed(loc[t].guest) /\ Leave(t, "advance")
      /\ UNCHANGED <<active, clusterVars, due, log, lastRun, before, missed, errors>>
  BY DEF Clear, Actors
<1>2. LocalsOK' /\ pc' \in [Actors -> Stages]
  BY <1>1, Leaves DEF Resting, clusterVars
<1> QED
  BY <1>1, <1>2, Works DEF TypeInv, TypeOK, clusterVars, Freed

LEMMA AdvanceType == ASSUME TypeInv, NEW t \in Ticks, Advance(t) PROVE TypeInv'
<1>1. /\ t \in Actors /\ UNCHANGED <<engineVars, clusterVars, due, log, lastRun, before, missed, errors>>
  BY DEF Advance, Actors
<1>2. CASE Leave(t, "list")
  <2>1. LocalsOK' /\ pc' \in [Actors -> Stages]
    BY <1>1, <1>2, Leaves DEF Resting, clusterVars
  <2> QED
    BY <1>1, <2>1, Walks DEF TypeInv, TypeOK
<1>3. CASE Loop(t, ActivePolicies)
  <2>1. LocalsOK' /\ pc' \in [Actors -> Stages]
    BY <1>1, <1>3, LoopType DEF clusterVars, engineVars, TypeInv, TypeOK, ActivePolicies
  <2> QED
    BY <1>1, <2>1, Walks DEF TypeInv, TypeOK
<1> QED
  BY <1>2, <1>3 DEF Advance

LEMMA TriggerType == ASSUME TypeInv, NEW t \in Ticks, Trigger(t) PROVE TypeInv'
<1> DEFINE g == loc[t].guest
           n == Len(tasks)
           new == [run |-> loc[t].run, guest |-> g, state |-> "running"]
           slot == [policy |-> loc[t].policy, guest |-> g, task |-> n + 1]
<1>1. /\ pc[t] = "trigger" /\ t \in Actors /\ Leave(t, "list")
      /\ UNCHANGED <<active, archives, due, log, lastRun, before, missed, errors>>
      /\ tasks' = Append(tasks, new) /\ backingUp' = backingUp \cup {g}
      /\ inFlight' = [policy |-> loc[t].policy, guest |-> g, task |-> Len(tasks')]
  BY DEF Trigger, Actors, Marked
<1>2. g \in Guests /\ loc[t].policy \in Policies /\ loc[t].run \in Runs
  BY <1>1, TickLocals
<1>3. new \in Task /\ tasks \in Seq(Task) /\ n \in Nat
  BY <1>2 DEF Task, TypeInv, TypeOK
<1>4. tasks' \in Seq(Task) /\ Len(tasks') = n + 1
  BY <1>1, <1>3
<1>5. inFlight' = slot /\ slot \in Slot /\ slot.guest = g /\ slot.task = n + 1
  BY <1>1, <1>2, <1>3, <1>4 DEF Slot
<1>6. /\ Runs' = Runs /\ Record' = Record /\ Task' = Task /\ Locals' = Locals
      /\ ActivePolicies' = ActivePolicies
  BY <1>1, SameRuns DEF ActivePolicies
<1>7. LocalsOK' /\ pc' \in [Actors -> Stages]
  <2>1. pc' = [pc EXCEPT ![t] = "list"] /\ loc' = [loc EXCEPT ![t] = NoLocals]
    BY <1>1 DEF Leave
  <2>2. /\ pc \in [Actors -> Stages] /\ loc \in [Actors -> Locals] /\ NoLocals \in Locals
        /\ "list" \in Stages
    BY NoLocalsType DEF TypeInv, TypeOK, LocalsOK, Stages
  <2>3. pc' \in [Actors -> Stages] /\ loc' \in [Actors -> Locals']
    BY <2>1, <2>2, <1>6
  <2>4. ASSUME NEW b \in Actors PROVE Fits(b, pc'[b], loc'[b], Len(tasks'))
    <3>1. CASE b = t
      BY <2>1, <2>2, <3>1 DEF Fits, Polling, Ending
    <3>2. CASE b # t
      BY <1>3, <1>4, <2>1, <2>2, <3>2 DEF Fits, TypeInv, LocalsOK
    <3> QED
      BY <3>1, <3>2
  <2> QED
    BY <2>3, <2>4 DEF LocalsOK
<1> HIDE DEF new, slot, n
<1>8. TypeOK'
  <2>1. /\ inFlight' \in Slot \cup {None} /\ backingUp' \subseteq Guests
        /\ (inFlight' # None => inFlight'.task \in 1..Len(tasks') /\ inFlight'.guest \in backingUp')
    BY <1>1, <1>2, <1>3, <1>4, <1>5 DEF TypeInv, TypeOK
  <2> QED
    BY <1>1, <1>4, <1>6, <1>7, <2>1 DEF TypeInv, TypeOK
<1> QED
  BY <1>1, <1>6, <1>7, <1>8 DEF TypeInv

LEMMA TriggerFailsType == ASSUME TypeInv, NEW t \in Ticks, TriggerFails(t) PROVE TypeInv'
<1> DEFINE r == [guest |-> loc[t].guest, ok |-> FALSE]
<1>1. /\ pc[t] = "trigger" /\ t \in Actors /\ errors' \in 0..MaxErrors /\ Leave(t, "list")
      /\ active' = Pushed(loc[t].policy, loc[t].run, r)
      /\ UNCHANGED <<inFlight, backingUp, clusterVars, due, log, lastRun, before, missed>>
  BY ErrType DEF TriggerFails, Actors
<1>2. r \in Result /\ loc[t].policy \in Policies
  BY <1>1, TickLocals DEF Result
<1>3. LocalsOK' /\ pc' \in [Actors -> Stages]
  BY <1>1, Leaves DEF Resting, clusterVars
<1> HIDE DEF r
<1>4. /\ active' \in [Policies -> ActiveRun \cup {None}]
      /\ \A p \in Policies : active'[p] # None =>
           active[p] # None /\ active'[p].run = active[p].run /\ active'[p].pending = active[p].pending
  BY <1>1, <1>2, PushedRuns DEF TypeInv, TypeOK
<1> QED
  BY <1>1, <1>3, <1>4, Works DEF TypeInv, TypeOK, clusterVars

LEMMA FinalizeType == ASSUME TypeInv, NEW t \in Ticks, Finalize(t) PROVE TypeInv'
<1>1. /\ pc[t] = "finalize" /\ pc[t] \in Ending /\ t \in Actors /\ loc[t].policy \in Policies
      /\ UNCHANGED <<engineVars, clusterVars, due, log, lastRun, before>>
  BY TickLocals DEF Finalize, Ending, Actors
<1>2. LocalsOK' /\ pc' \in [Actors -> Stages]
  <2>1. CASE HasRecord(t, loc[t].run) /\ With(t, "finalizeWrite", Copied(t, log[Context(t)]))
    <3> DEFINE c == log[Context(t)]
    <3>1. With(t, "finalizeWrite", Copied(t, c))
      BY <2>1
    <3>2. c \in SUBSET Record
      BY <1>1, <2>1, HasRecordType DEF HasRecord
    <3> HIDE DEF c
    <3>3. Copied(t, c) \in Locals /\ Fits(t, "finalizeWrite", Copied(t, c), Len(tasks))
      BY <1>1, <3>2, CopiedLocals DEF Fits, Polling, Ending
    <3> QED
      BY <1>1, <3>1, <3>3, Moves DEF clusterVars, Stages
  <2>2. CASE To(t, "mark")
    <3>1. Fits(t, "mark", loc[t], Len(tasks)) /\ "mark" \in Stages
      BY <1>1 DEF Fits, Polling, Ending, Stages
    <3> QED
      BY <1>1, <2>2, <3>1, MovesTo DEF clusterVars
  <2> QED
    BY <2>1, <2>2 DEF Finalize, Copied
<1>3. missed' \subseteq Runs /\ errors' \in 0..MaxErrors
  BY <1>1, MissesType DEF Finalize, NoFault, TypeInv, TypeOK
<1> QED
  BY <1>1, <1>2, <1>3, Walks DEF TypeInv, TypeOK

LEMMA FinalizeWriteType == ASSUME TypeInv, NEW t \in Ticks, FinalizeWrite(t) PROVE TypeInv'
<1>1. /\ pc[t] = "finalizeWrite" /\ pc[t] \in Ending /\ t \in Actors /\ errors' \in 0..MaxErrors
      /\ loc[t].policy \in Policies /\ loc[t].copy \in SUBSET Record
      /\ UNCHANGED <<engineVars, clusterVars, due, lastRun, before, missed>>
  BY ErrType, TickLocals DEF FinalizeWrite, Ending, Actors
<1>2. CASE log' = [log EXCEPT ![Context(t)] = EndedIn(loc[t].copy, loc[t].run)] /\ To(t, "mark")
  <2>1. Fits(t, "mark", loc[t], Len(tasks)) /\ "mark" \in Stages
    BY <1>1 DEF Fits, Polling, Ending, Stages
  <2>2. LocalsOK' /\ pc' \in [Actors -> Stages]
    BY <1>1, <1>2, <2>1, MovesTo DEF clusterVars
  <2>3. EndedIn(loc[t].copy, loc[t].run) \in SUBSET Record
    BY <1>1, EndedInType DEF TypeInv, TypeOK
  <2>4. log' \in [{"site", "env"} -> SUBSET Record]
    BY <1>2, <2>3 DEF TypeInv, TypeOK
  <2> QED
    BY <1>1, <2>2, <2>4, Walks DEF TypeInv, TypeOK
<1>3. CASE Leave(t, "idle") /\ UNCHANGED log
  <2>1. LocalsOK' /\ pc' \in [Actors -> Stages]
    BY <1>1, <1>3, Leaves DEF clusterVars, Resting
  <2> QED
    BY <1>1, <1>3, <2>1, Walks DEF TypeInv, TypeOK
<1> QED
  BY <1>2, <1>3 DEF FinalizeWrite

LEMMA MarkType == ASSUME TypeInv, NEW t \in Ticks, Mark(t) PROVE TypeInv'
<1>1. /\ pc[t] = "mark" /\ t \in Actors /\ errors' \in 0..MaxErrors /\ loc[t].policy \in Policies
      /\ due' \subseteq Policies
      /\ UNCHANGED <<engineVars, clusterVars, log, lastRun, before, missed>>
  BY ErrType, TickLocals DEF Mark, Ending, Actors, TypeInv, TypeOK
<1>2. LocalsOK' /\ pc' \in [Actors -> Stages]
  <2>1. CASE To(t, "delete")
    <3>1. Fits(t, "delete", loc[t], Len(tasks)) /\ "delete" \in Stages
      BY <1>1 DEF Fits, Polling, Ending, Stages
    <3> QED
      BY <1>1, <2>1, <3>1, MovesTo DEF clusterVars
  <2>2. CASE Leave(t, "idle")
    BY <1>1, <2>2, Leaves DEF clusterVars, Resting
  <2> QED
    BY <2>1, <2>2 DEF Mark
<1> QED
  BY <1>1, <1>2, Walks DEF TypeInv, TypeOK

LEMMA DeleteType == ASSUME TypeInv, NEW t \in Ticks, Delete(t) PROVE TypeInv'
<1>1. /\ pc[t] = "delete" /\ t \in Actors /\ loc[t].left \subseteq Policies
      /\ active' = [active EXCEPT ![loc[t].policy] = None] /\ Loop(t, loc[t].left)
      /\ UNCHANGED <<inFlight, backingUp, clusterVars, due, log, lastRun, before, missed, errors>>
  BY TickLocals DEF Delete, Actors
<1>2. /\ active' \in [Policies -> ActiveRun \cup {None}]
      /\ \A p \in Policies : active'[p] # None => active'[p] = active[p]
  BY <1>1 DEF TypeInv, TypeOK
<1>3. LocalsOK' /\ pc' \in [Actors -> Stages]
  BY <1>1, <1>2, LoopType DEF clusterVars
<1> QED
  BY <1>1, <1>2, <1>3, Works DEF TypeInv, TypeOK, clusterVars

LEMMA ListType == ASSUME TypeInv, NEW t \in Ticks, List(t) PROVE TypeInv'
<1>0. t \notin Manuals
  BY BackupAssumption
<1>1. /\ t \in Actors /\ errors' \in 0..MaxErrors
      /\ UNCHANGED <<engineVars, clusterVars, due, log, lastRun, before, missed>>
  BY ErrType DEF List, Actors
<1>2. LocalsOK' /\ pc' \in [Actors -> Stages]
  <2>1. CASE Leave(t, "idle")
    BY <1>1, <2>1, Leaves DEF clusterVars, Resting
  <2>2. CASE With(t, "start", OnlyLeft(DuePolicies(t)))
    <3>1. DuePolicies(t) \in SUBSET Policies
      BY DEF DuePolicies, PoliciesIn, Policies
    <3>2. OnlyLeft(DuePolicies(t)) \in Locals /\ "start" \in Stages
      BY <3>1, OnlyLeftLocals DEF Stages
    <3>3. Fits(t, "start", OnlyLeft(DuePolicies(t)), Len(tasks))
      <4>1. DuePolicies(t) # {} => EnvConfigured
        BY <1>0 DEF DuePolicies, PoliciesIn, Context
      <4> QED
        BY <1>0, <3>1, <4>1, OnlyLeftLocals DEF Fits, Polling, Ending
    <3> QED
      BY <1>1, <2>2, <3>2, <3>3, Moves DEF clusterVars
  <2> QED
    BY <2>1, <2>2 DEF List, OnlyLeft
<1> QED
  BY <1>1, <1>2, Walks DEF TypeInv, TypeOK

LEMMA StartType == ASSUME TypeInv, NEW t \in Ticks, Start(t) PROVE TypeInv'
<1>1. /\ pc[t] = "start" /\ t \in Actors /\ errors' \in 0..MaxErrors /\ loc[t].left \subseteq Policies
      /\ UNCHANGED <<engineVars, clusterVars, due, log, lastRun, before, missed>>
  BY ErrType, TickLocals DEF Start, ReadsLog, Actors
<1>2. LocalsOK' /\ pc' \in [Actors -> Stages]
  <2>1. CASE Leave(t, "idle")
    BY <1>1, <2>1, Leaves DEF clusterVars, Resting
  <2>2. ASSUME NEW p \in loc[t].left, NEW c \in {log[Context(t)], {}},
               \/ With(t, "create", Chosen(t, p, c))
               \/ With(t, "start", OnlyLeft(loc[t].left \ {p}))
        PROVE  LocalsOK' /\ pc' \in [Actors -> Stages]
    <3> DEFINE l == Chosen(t, p, c)
               k == OnlyLeft(loc[t].left \ {p})
    <3>1. t \notin Manuals /\ EnvConfigured /\ Context(t) = "env"
      BY <1>1, BackupAssumption DEF TypeInv, LocalsOK, Fits, Context
    <3>2. c \in SUBSET Record
      BY <1>1, <3>1, HasRecordType
    <3>3. l \in Locals /\ l.policy = p /\ l.left = loc[t].left \ {p} /\ p \in Policies
      BY <1>1, <3>2, ChosenLocals
    <3>4. k \in Locals /\ k.left = loc[t].left \ {p}
      BY <1>1, OnlyLeftLocals
    <3> HIDE DEF l, k
    <3>5. Fits(t, "create", l, Len(tasks)) /\ Fits(t, "start", k, Len(tasks)) /\ {"create", "start"} \subseteq Stages
      BY <3>1, <3>3 DEF Fits, Polling, Ending, Stages
    <3> QED
      BY <1>1, <2>2, <3>3, <3>4, <3>5, Moves DEF clusterVars, l, k
  <2>3. \/ Leave(t, "idle")
        \/ \E p \in loc[t].left : \E c \in {log[Context(t)], {}} :
             With(t, "create", Chosen(t, p, c)) \/ With(t, "start", OnlyLeft(loc[t].left \ {p}))
    BY Zenon DEF Start, Chosen, OnlyLeft
  <2> QED
    BY <2>1, <2>2, <2>3
<1> QED
  BY <1>1, <1>2, Walks DEF TypeInv, TypeOK

(* After a run was created, or not: a tick goes on with its other policies. *)
LEMMA GoesOn ==
  ASSUME TypeInv, NEW a \in Actors, pc[a] \in {"create", "endEmpty"}, Goes(a)
  PROVE  \E stage \in {"start", "done"}, l \in Locals :
           With(a, stage, l) /\ Fits(a, stage, l, Len(tasks))
<1>1. NoLocals \in Locals /\ NoLocals.left = {}
  BY NoLocalsType DEF TypeInv, TypeOK, NoLocals
<1>2. CASE a \in Manuals
  <2>1. With(a, "done", NoLocals) /\ Fits(a, "done", NoLocals, Len(tasks))
    BY <1>2 DEF Goes, Leave, With, Fits, Polling, Ending
  <2> QED
    BY <1>1, <2>1
<1>3. CASE a \notin Manuals
  <2>1. With(a, "start", OnlyLeft(loc[a].left)) /\ loc[a].left \in SUBSET Policies
    BY <1>3, TickLocals DEF Goes, OnlyLeft
  <2>2. OnlyLeft(loc[a].left) \in Locals /\ OnlyLeft(loc[a].left).left = loc[a].left
    BY <2>1, OnlyLeftLocals
  <2>3. loc[a].left # {} => EnvConfigured
    BY DEF TypeInv, LocalsOK, Fits
  <2>4. Fits(a, "start", OnlyLeft(loc[a].left), Len(tasks))
    BY <1>3, <2>2, <2>3 DEF Fits, Polling, Ending
  <2> QED
    BY <2>1, <2>2, <2>4
<1> QED
  BY <1>2, <1>3

(* A run is created: more runs are known. *)
LEMMA MoreRuns ==
  ASSUME lastRun \in Nat, lastRun' = lastRun + 1
  PROVE  Runs \subseteq Runs' /\ Record \subseteq Record' /\ Task \subseteq Task' /\ Locals \subseteq Locals'
<1>1. Runs \subseteq Runs'
  BY DEF Runs
<1> HIDE DEF Runs
<1>2. Record \subseteq Record' /\ Task \subseteq Task'
  BY <1>1 DEF Record, Task
<1> HIDE DEF Record
<1>3. Locals \subseteq Locals'
  <2> SUFFICES ASSUME NEW l \in Locals PROVE l \in Locals'
    OBVIOUS
  <2>1. l.run \in Runs' /\ l.copy \in SUBSET Record'
    BY <1>1, <1>2 DEF Locals
  <2>2. l = [policy |-> l.policy, run |-> l.run, guest |-> l.guest, task |-> l.task,
             ok |-> l.ok, results |-> l.results, copy |-> l.copy, left |-> l.left]
    BY DEF Locals
  <2>3. /\ l.policy \in Policies \cup {None} /\ l.guest \in Guests \cup {None} /\ l.task \in Nat
        /\ l.ok \in BOOLEAN /\ l.results \in SUBSET Result /\ l.left \in SUBSET Policies
    BY DEF Locals
  <2> QED
    BY <2>1, <2>2, <2>3 DEF Locals
<1> QED
  BY <1>1, <1>2, <1>3

LEMMA CreateType == ASSUME TypeInv, NEW a \in Actors, Create(a) PROVE TypeInv'
<1> DEFINE p == loc[a].policy
           run == lastRun + 1
           new == [run |-> run, ended |-> FALSE, results |-> {}]
<1>1. /\ pc[a] = "create" /\ lastRun' = run /\ lastRun \in Nat
      /\ log' = [log EXCEPT ![Context(a)] = loc[a].copy \cup {new}]
      /\ UNCHANGED <<inFlight, backingUp, clusterVars, due, before, missed, errors>>
  BY DEF Create, TypeInv, TypeOK
<1>2. p \in Policies /\ loc[a].copy \subseteq Record /\ loc \in [Actors -> Locals] /\ pc \in [Actors -> Stages]
  BY <1>1, TickLocals DEF TypeInv, TypeOK, LocalsOK
<1>3. Runs \subseteq Runs' /\ Record \subseteq Record' /\ Task \subseteq Task' /\ Locals \subseteq Locals'
      /\ run \in Runs' /\ run > before
  BY <1>1, MoreRuns DEF Runs, TypeInv, TypeOK
<1>4. new \in Record'
  BY <1>3 DEF Record
<1>5. log' \in [{"site", "env"} -> SUBSET Record']
  <2>1. loc[a].copy \cup {new} \in SUBSET Record'
    BY <1>2, <1>3, <1>4
  <2>2. log \in [{"site", "env"} -> SUBSET Record']
    BY <1>3 DEF TypeInv, TypeOK
  <2> HIDE DEF new
  <2> QED
    BY <1>1, <2>1, <2>2
<1>6. tasks' \in Seq(Task') /\ Len(tasks') = Len(tasks)
  BY <1>1, <1>3 DEF TypeInv, TypeOK, clusterVars
<1>7. /\ active' \in [Policies -> ActiveRun \cup {None}]
      /\ \A q \in Policies : active'[q] # None =>
           \/ active[q] # None /\ active'[q] = active[q]
           \/ active'[q].run = run /\ active'[q].pending \in Scopes[q]
  <2>1. CASE UNCHANGED active
    BY <2>1 DEF TypeInv, TypeOK
  <2>2. ASSUME NEW scope \in Scopes[p],
               active' = [active EXCEPT ![p] = [run |-> run, pending |-> scope, completed |-> <<>>]]
        PROVE  <1>7!:
    <3> DEFINE fresh == [run |-> run, pending |-> scope, completed |-> <<>>]
    <3>1. scope \in SUBSET Guests
      BY <1>2, BackupAssumption
    <3>2. fresh \in ActiveRun /\ fresh.run = run /\ fresh.pending = scope
      BY <1>1, <3>1 DEF ActiveRun
    <3>3. active' = [active EXCEPT ![p] = fresh]
      BY <2>2
    <3> HIDE DEF fresh
    <3> QED
      BY <1>2, <3>2, <3>3 DEF TypeInv, TypeOK
  <2> QED
    BY <2>1, <2>2 DEF Create
<1>8. \E stage \in Stages, l \in Locals' : With(a, stage, l) /\ Fits(a, stage, l, Len(tasks))
  <2>1. CASE Goes(a)
    BY <1>1, <1>3, <2>1, GoesOn DEF Stages
  <2>2. CASE With(a, "endEmpty", Numbered(a, run))
    <3>1. loc[a].task \in Nat /\ Numbered(a, run) \in Locals'
      <4>1. Numbered(a, run) =
             [policy |-> loc[a].policy, run |-> run, guest |-> loc[a].guest, task |-> loc[a].task,
              ok |-> loc[a].ok, results |-> loc[a].results, copy |-> loc[a].copy, left |-> loc[a].left]
        BY NumberedLocals
      <4>2. /\ loc[a].policy \in Policies \cup {None} /\ loc[a].guest \in Guests \cup {None}
            /\ loc[a].task \in Nat /\ loc[a].ok \in BOOLEAN /\ loc[a].results \in SUBSET Result
            /\ loc[a].left \in SUBSET Policies /\ loc[a].copy \in SUBSET Record'
        BY <1>2, <1>3 DEF Locals
      <4> HIDE DEF run
      <4> QED
        BY <1>3, <4>1, <4>2 DEF Locals
    <3>2. Numbered(a, run).policy = p /\ Numbered(a, run).left = loc[a].left
      BY NumberedLocals
    <3>3. Fits(a, "endEmpty", Numbered(a, run), Len(tasks))
      BY <1>1, <1>2, <3>2 DEF Fits, Polling, Ending, TypeInv, LocalsOK
    <3> QED
      BY <2>2, <3>1, <3>3 DEF Stages
  <2> QED
    BY <2>1, <2>2 DEF Create, Numbered
<1>9. LocalsOK' /\ pc' \in [Actors -> Stages]
  <2>1. PICK stage \in Stages, l \in Locals' : With(a, stage, l) /\ Fits(a, stage, l, Len(tasks))
    BY <1>8
  <2>2. pc' = [pc EXCEPT ![a] = stage] /\ loc' = [loc EXCEPT ![a] = l]
    BY <2>1 DEF With
  <2>3. pc' \in [Actors -> Stages] /\ loc' \in [Actors -> Locals']
    BY <1>2, <1>3, <2>2
  <2>4. ASSUME NEW b \in Actors PROVE Fits(b, pc'[b], loc'[b], Len(tasks'))
    <3>1. CASE b = a
      BY <1>2, <1>6, <2>1, <2>2, <3>1
    <3>2. CASE b # a
      BY <1>2, <1>6, <2>2, <3>2 DEF TypeInv, LocalsOK
    <3> QED
      BY <3>1, <3>2
  <2> QED
    BY <2>3, <2>4 DEF LocalsOK
<1> HIDE DEF run
<1>10. TypeOK'
  <2>1. \A q \in ActivePolicies' : active'[q].run \in Runs' /\ active'[q].pending \in Scopes[q]
    BY <1>3, <1>7 DEF TypeInv, TypeOK, ActivePolicies
  <2>2. before \in Runs /\ missed \subseteq Runs /\ errors \in 0..MaxErrors
    BY DEF TypeInv, TypeOK
  <2>3. lastRun' \in Nat
    BY <1>1 DEF run
  <2>4. lastRun' \in Nat /\ before' \in Runs' /\ missed' \subseteq Runs' /\ errors' \in 0..MaxErrors
    BY <1>1, <1>3, <2>2, <2>3
  <2> QED
    BY <1>1, <1>5, <1>6, <1>7, <1>9, <2>1, <2>4 DEF TypeInv, TypeOK, clusterVars
<1> QED
  BY <1>1, <1>3, <1>7, <1>9, <1>10 DEF TypeInv, ActivePolicies

LEMMA GoesType ==
  ASSUME TypeInv, NEW a \in Actors, pc[a] \in {"create", "endEmpty"}, Goes(a), UNCHANGED <<tasks, lastRun>>
  PROVE  LocalsOK' /\ pc' \in [Actors -> Stages]
<1>1. PICK stage \in {"start", "done"}, l \in Locals : With(a, stage, l) /\ Fits(a, stage, l, Len(tasks))
  BY GoesOn
<1> QED
  BY <1>1, Moves DEF Stages

LEMMA CreateFailsType == ASSUME TypeInv, NEW a \in Actors, CreateFails(a) PROVE TypeInv'
<1>1. /\ errors' \in 0..MaxErrors /\ pc[a] = "create" /\ Goes(a)
      /\ UNCHANGED <<engineVars, clusterVars, due, log, lastRun, before, missed>>
  BY ErrType DEF CreateFails
<1>2. LocalsOK' /\ pc' \in [Actors -> Stages]
  BY <1>1, GoesType DEF clusterVars
<1> QED
  BY <1>1, <1>2, Walks DEF TypeInv, TypeOK

LEMMA EndEmptyType == ASSUME TypeInv, NEW a \in Actors, EndEmpty(a) PROVE TypeInv'
<1>1. /\ pc[a] = "endEmpty" /\ Goes(a) /\ errors' \in 0..MaxErrors /\ missed' \subseteq Runs
      /\ UNCHANGED log \/ log' = [log EXCEPT ![Context(a)] = EndedIn(@, loc[a].run)]
      /\ UNCHANGED due \/ due' = due \ {loc[a].policy}
      /\ UNCHANGED <<engineVars, clusterVars, lastRun, before>>
  BY ErrType, TickLocals, MissesType DEF EndEmpty, TypeInv, TypeOK
<1>2. LocalsOK' /\ pc' \in [Actors -> Stages]
  BY <1>1, GoesType DEF clusterVars
<1>3. log' \in [{"site", "env"} -> SUBSET Record]
  <2>1. \A c \in {"site", "env"} : EndedIn(log[c], loc[a].run) \in SUBSET Record
    BY EndedInType DEF TypeInv, TypeOK
  <2>2. \/ UNCHANGED log
        \/ log' = [c \in {"site", "env"} |-> IF c = Context(a) THEN EndedIn(log[c], loc[a].run) ELSE log[c]]
    BY <1>1 DEF TypeInv, TypeOK
  <2> QED
    BY <2>1, <2>2 DEF TypeInv, TypeOK
<1> QED
  BY <1>1, <1>2, <1>3, Walks DEF TypeInv, TypeOK

LEMMA ManualStepType == ASSUME TypeInv, NEW m \in Manuals, Manual(m) \/ ManualStart(m) PROVE TypeInv'
<1>0. m \in Actors /\ Context(m) = "site"
  BY DEF Actors, Context
<1>1. CASE Manual(m)
  <2>1. UNCHANGED <<engineVars, clusterVars, due, log, lastRun, before, missed, errors>>
    BY <1>1 DEF Manual
  <2>2. PICK p \in SitePolicies : With(m, "start", OnlyPolicy(p)) \/ Leave(m, "done")
    BY <1>1 DEF Manual, OnlyPolicy
  <2>3. /\ OnlyPolicy(p) \in Locals /\ OnlyPolicy(p).policy = p /\ OnlyPolicy(p).left = {}
        /\ "start" \in Stages
    BY OnlyPolicyLocals DEF Policies, Stages, OnlyPolicy, NoLocals
  <2>4. Fits(m, "start", OnlyPolicy(p), Len(tasks))
    BY <2>3 DEF Fits, Polling, Ending
  <2>5. LocalsOK' /\ pc' \in [Actors -> Stages]
    BY <1>0, <2>1, <2>2, <2>3, <2>4, Moves, Leaves DEF Resting, clusterVars
  <2> QED
    BY <2>1, <2>5, Walks DEF TypeInv, TypeOK
<1>2. CASE ManualStart(m)
  <2>1. /\ pc[m] = "start" /\ errors' \in 0..MaxErrors
        /\ UNCHANGED <<engineVars, clusterVars, due, log, lastRun, before, missed>>
    BY <1>2, ErrType DEF ManualStart, ReadsLog
  <2>2. CASE Leave(m, "done")
    BY <1>0, <2>1, <2>2, Leaves, Walks DEF Resting, clusterVars, TypeInv, TypeOK
  <2>3. ASSUME NEW c \in {log["site"], {}}, With(m, "create", Copied(m, c)) PROVE TypeInv'
    <3>1. c \in SUBSET Record
      BY DEF TypeInv, TypeOK
    <3>2. LET l == Copied(m, c) IN
          l \in Locals /\ l.policy = loc[m].policy /\ l.left = loc[m].left
      BY <1>0, <3>1, CopiedLocals
    <3>3. loc[m].policy \in Policies \cap SitePolicies /\ (loc[m].left # {} => EnvConfigured)
      BY <1>0, <2>1 DEF TypeInv, LocalsOK, Fits, Policies
    <3>4. Fits(m, "create", Copied(m, c), Len(tasks)) /\ "create" \in Stages
      BY <3>2, <3>3 DEF Fits, Polling, Ending, Stages
    <3>5. LocalsOK' /\ pc' \in [Actors -> Stages]
      BY <1>0, <2>1, <2>3, <3>2, <3>4, Moves DEF clusterVars
    <3> QED
      BY <2>1, <3>5, Walks DEF TypeInv, TypeOK
  <2> QED
    BY <1>2, <2>2, <2>3 DEF ManualStart, Copied
<1> QED
  BY <1>1, <1>2

(* A task that ended keeps its run and its guest, and the others are as they were. *)
LEMMA TaskEnded ==
  ASSUME TypeInv, NEW i \in 1..Len(tasks), TaskEnds(i)
  PROVE  /\ tasks[i].state = "running" /\ tasks[i] \in Task
         /\ \E s \in {"success", "error"} :
              /\ tasks' = [tasks EXCEPT ![i] = [run |-> tasks[i].run, guest |-> tasks[i].guest, state |-> s]]
              /\ archives' = IF s = "success" THEN [archives EXCEPT ![tasks[i].guest] = @ + 1]
                                              ELSE archives
         /\ tasks' \in Seq(Task) /\ Len(tasks') = Len(tasks)
         /\ \A j \in 1..Len(tasks) : tasks[j] \in Task /\ (j # i => tasks'[j] = tasks[j])
         /\ tasks'[i].run = tasks[i].run /\ tasks'[i].guest = tasks[i].guest /\ Ended(tasks'[i].state)
         /\ UNCHANGED <<engineVars, due, log, pc, loc, lastRun, before, missed, errors>>
<1>1. /\ tasks \in Seq(Task) /\ tasks[i] \in Task /\ tasks[i].state = "running"
      /\ UNCHANGED <<engineVars, due, log, pc, loc, lastRun, before, missed, errors>>
  BY DEF TaskEnds, TypeInv, TypeOK
<1>2. PICK s \in {"success", "error"} :
        /\ tasks' = [tasks EXCEPT ![i].state = s]
        /\ archives' = IF s = "success" THEN [archives EXCEPT ![tasks[i].guest] = @ + 1] ELSE archives
  BY DEF TaskEnds
<1> DEFINE new == [run |-> tasks[i].run, guest |-> tasks[i].guest, state |-> s]
<1>3. [tasks[i] EXCEPT !.state = s] = new /\ new \in Task
  BY <1>1 DEF Task
<1>4. tasks' = [tasks EXCEPT ![i] = new]
  BY <1>2, <1>3
<1>5. new.run = tasks[i].run /\ new.guest = tasks[i].guest /\ Ended(new.state)
  BY DEF Ended
<1> HIDE DEF new
<1>6. /\ tasks' \in Seq(Task) /\ Len(tasks') = Len(tasks) /\ tasks'[i] = new
      /\ \A j \in 1..Len(tasks) : tasks[j] \in Task /\ (j # i => tasks'[j] = tasks[j])
  BY <1>1, <1>3, <1>4
<1> QED
  BY <1>1, <1>2, <1>4, <1>5, <1>6 DEF new

LEMMA TaskEndsType == ASSUME TypeInv, NEW i \in 1..Len(tasks), TaskEnds(i) PROVE TypeInv'
<1>1. /\ tasks[i] \in Task /\ tasks' \in Seq(Task) /\ Len(tasks') = Len(tasks)
      /\ UNCHANGED <<engineVars, due, log, pc, loc, lastRun, before, missed, errors>>
  BY TaskEnded
<1>2. archives' \in [Guests -> Nat]
  <2>1. tasks[i].guest \in Guests /\ archives \in [Guests -> Nat]
    BY <1>1 DEF Task, TypeInv, TypeOK
  <2> QED
    BY <2>1, TaskEnded
<1>3. /\ Runs' = Runs /\ Record' = Record /\ Task' = Task /\ Locals' = Locals
      /\ ActivePolicies' = ActivePolicies
  BY <1>1, SameRuns DEF ActivePolicies, engineVars
<1>4. LocalsOK'
  BY <1>1, <1>3 DEF TypeInv, LocalsOK, Fits
<1>5. TypeOK'
  BY <1>1, <1>2, <1>3 DEF TypeInv, TypeOK, engineVars
<1> QED
  BY <1>1, <1>3, <1>4, <1>5 DEF TypeInv, engineVars

LEMMA ComesDueType == ASSUME TypeInv, NEW p \in Scheduled, ComesDue(p) PROVE TypeInv'
<1>1. /\ due' \subseteq Policies /\ UNCHANGED <<engineVars, clusterVars, log, pc, loc, lastRun, before, missed, errors>>
  BY BackupAssumption DEF ComesDue, TypeInv, TypeOK
<1>2. LocalsOK'
  BY <1>1, SameRuns DEF TypeInv, LocalsOK, Fits, clusterVars
<1> QED
  BY <1>1, <1>2, Walks DEF TypeInv, TypeOK

LEMMA RestartType == ASSUME TypeInv, Restart PROVE TypeInv'
<1>1. /\ errors' \in 0..MaxErrors /\ active' = [p \in Policies |-> None]
      /\ inFlight' = None /\ backingUp' = {} /\ before' = lastRun
      /\ pc' = [a \in Actors |-> IF a \in Manuals /\ pc[a] # "idle" THEN "done" ELSE "idle"]
      /\ loc' = [a \in Actors |-> NoLocals]
      /\ UNCHANGED <<clusterVars, due, log, lastRun, missed>>
  BY ErrType DEF Restart
<1>2. /\ Runs' = Runs /\ Record' = Record /\ Task' = Task /\ Locals' = Locals
      /\ ActivePolicies' = {} /\ before' \in Runs
  BY <1>1, SameRuns DEF ActivePolicies, Runs, TypeInv, TypeOK
<1>3. LocalsOK' /\ pc' \in [Actors -> Stages]
  <2>1. NoLocals \in Locals
    BY NoLocalsType DEF TypeInv, TypeOK
  <2> QED
    BY <1>1, <1>2, <2>1 DEF LocalsOK, Fits, Polling, Ending, Stages
<1>4. TypeOK'
  BY <1>1, <1>2, <1>3 DEF TypeInv, TypeOK, clusterVars
<1> QED
  BY <1>2, <1>3, <1>4 DEF TypeInv

LEMMA TypeStep == TypeInv /\ [Next]_vars => TypeInv'
<1> SUFFICES ASSUME TypeInv, [Next]_vars PROVE TypeInv'
  OBVIOUS
<1>1. ASSUME NEW t \in Ticks, TickStart(t) \/ TickGoesOn(t) PROVE TypeInv'
  <2>1. t \in Actors
    BY DEF Actors
  <2> QED
    BY <1>1, <2>1, TickStartType, SnapshotType, SnapshotIdleType, PruneType, UpdateType,
       UpdateWriteType, ClearType, AdvanceType, TriggerType, TriggerFailsType, FinalizeType,
       FinalizeWriteType, MarkType, DeleteType, ListType, StartType, CreateType,
       CreateFailsType, EndEmptyType DEF TickGoesOn
<1>2. ASSUME NEW m \in Manuals, Manual(m) \/ ManualStart(m) \/ Create(m) \/ CreateFails(m) \/ EndEmpty(m)
      PROVE  TypeInv'
  <2>1. m \in Actors
    BY DEF Actors
  <2> QED
    BY <1>2, <2>1, ManualStepType, CreateType, CreateFailsType, EndEmptyType
<1>3. ASSUME NEW i \in 1..Len(tasks), TaskEnds(i) PROVE TypeInv'
  BY <1>3, TaskEndsType
<1>4. ASSUME NEW p \in Scheduled, ComesDue(p) PROVE TypeInv'
  BY <1>4, ComesDueType
<1>5. CASE Restart
  BY <1>5, RestartType
<1>6. CASE UNCHANGED vars
  <2>1. LocalsOK'
    BY <1>6, SameRuns DEF vars, TypeInv, LocalsOK, Fits
  <2> QED
    BY <1>6, <2>1, Walks DEF TypeInv, TypeOK, vars, engineVars, clusterVars
<1> QED
  BY <1>1, <1>2, <1>3, <1>4, <1>5, <1>6 DEF Next

LEMMA Typed == Spec => []TypeInv
BY InitType, TypeStep, PTL DEF Spec

(* The state has its type, and the guest in flight is marked as being backed up: for any
   number of ticks and manual runs at once, and under every fault. *)
THEOREM TypeCorrect == Spec => []TypeOK
<1>1. TypeInv => TypeOK
  BY DEF TypeInv
<1> QED
  BY <1>1, Typed, PTL

-----------------------------------------------------------------------------
(* What the steps of an actor do, field by field *)

Others(a) == \A b \in Actors : b # a => pc'[b] = pc[b] /\ loc'[b] = loc[b]

(* The actor keeps what it has, but for the copy of the log. *)
Keeps(a) ==
  /\ loc'[a].policy = loc[a].policy /\ loc'[a].run = loc[a].run
  /\ loc'[a].guest = loc[a].guest /\ loc'[a].task = loc[a].task /\ loc'[a].ok = loc[a].ok
  /\ loc'[a].results = loc[a].results /\ loc'[a].left = loc[a].left

LEMMA WithDoes ==
  ASSUME TypeInv, NEW a \in Actors, NEW stage, NEW l, With(a, stage, l)
  PROVE  pc'[a] = stage /\ loc'[a] = l /\ Others(a)
BY DEF With, Others, TypeInv, TypeOK, LocalsOK

LEMMA LeaveDoes ==
  ASSUME TypeInv, NEW a \in Actors, NEW stage, Leave(a, stage)
  PROVE  pc'[a] = stage /\ Others(a)
BY DEF Leave, Others, TypeInv, TypeOK, LocalsOK

LEMMA ToDoes ==
  ASSUME TypeInv, NEW a \in Actors, NEW stage, To(a, stage)
  PROVE  pc'[a] = stage /\ loc' = loc /\ Keeps(a) /\ Others(a)
BY DEF To, Others, Keeps, TypeInv, TypeOK, LocalsOK

(* A result pushed to a run, if it is the active one of its policy. *)
PushedTo(p, run, r) ==
  \A q \in Policies :
    /\ active'[q] # None <=> active[q] # None
    /\ active[q] # None =>
         /\ active'[q].run = active[q].run /\ active'[q].pending = active[q].pending
         /\ active'[q].completed = IF q = p /\ active[q].run = run
                                    THEN Append(active[q].completed, r)
                                    ELSE active[q].completed

LEMMA PushDoes ==
  ASSUME TypeInv, NEW p \in Policies, NEW run, NEW g \in Guests, NEW ok \in BOOLEAN,
         active' = Pushed(p, run, [guest |-> g, ok |-> ok])
  PROVE  \E r \in Result : /\ r = [guest |-> g, ok |-> ok] /\ r.guest = g /\ (r.ok <=> ok)
                           /\ PushedTo(p, run, r)
<1> DEFINE r == [guest |-> g, ok |-> ok]
<1>1. r \in Result /\ r.guest = g /\ (r.ok <=> ok)
  BY DEF Result
<1>2. active' = Pushed(p, run, r) /\ r = [guest |-> g, ok |-> ok]
  OBVIOUS
<1> HIDE DEF r
<1>3. PushedTo(p, run, r)
  BY <1>1, <1>2, PushedRuns DEF TypeInv, TypeOK, PushedTo
<1> QED
  BY <1>1, <1>2, <1>3

LEMMA TickStartDoes ==
  ASSUME TypeInv, NEW t \in Ticks, TickStart(t)
  PROVE  /\ pc[t] = "idle" /\ Others(t)
         /\ UNCHANGED <<engineVars, clusterVars, due, log, lastRun, before, missed, errors>>
         /\ \/ pc'[t] = "advance"
            \/ /\ pc'[t] = "snapshot" /\ inFlight # None /\ loc'[t].policy = inFlight.policy
               /\ loc'[t].guest = inFlight.guest /\ loc'[t].task = inFlight.task
<1>1. t \in Actors /\ pc[t] = "idle" /\ UNCHANGED <<engineVars, clusterVars, due, log, lastRun, before, missed, errors>>
  BY DEF TickStart, Actors
<1>2. CASE Leave(t, "advance")
  BY <1>1, <1>2, LeaveDoes
<1>3. ASSUME inFlight # None,
             With(t, "snapshot", [NoLocals EXCEPT !.policy = inFlight.policy,
                                    !.guest = inFlight.guest, !.task = inFlight.task])
      PROVE  /\ pc'[t] = "snapshot" /\ Others(t) /\ loc'[t].policy = inFlight.policy
             /\ loc'[t].guest = inFlight.guest /\ loc'[t].task = inFlight.task
  <2> DEFINE l == [NoLocals EXCEPT !.policy = inFlight.policy, !.guest = inFlight.guest, !.task = inFlight.task]
  <2>1. l.policy = inFlight.policy /\ l.guest = inFlight.guest /\ l.task = inFlight.task
    BY DEF NoLocals
  <2> HIDE DEF l
  <2>2. pc'[t] = "snapshot" /\ Others(t) /\ loc'[t] = l
    BY <1>1, <1>3, WithDoes DEF l
  <2> QED
    BY <2>1, <2>2
<1> QED
  BY <1>1, <1>2, <1>3, LeaveDoes DEF TickStart

LEMMA SnapshotDoes ==
  ASSUME TypeInv, NEW t \in Ticks, Snapshot(t)
  PROVE  LET p == loc[t].policy
             i == loc[t].task
         IN
         /\ pc[t] = "snapshot" /\ Ended(tasks[i].state) /\ Others(t)
         /\ UNCHANGED <<clusterVars, due, log, lastRun, before, missed, errors>>
         /\ \/ /\ active[p] = None /\ UNCHANGED active /\ pc'[t] = "advance"
               /\ inFlight' = None /\ backingUp' = backingUp \ {loc[t].guest}
            \/ /\ active[p] # None /\ UNCHANGED <<inFlight, backingUp>>
               /\ loc'[t].policy = p /\ loc'[t].guest = loc[t].guest /\ loc'[t].task = i
               /\ loc'[t].run = active[p].run
               /\ \E r \in Result :
                    /\ r.guest = loc[t].guest /\ (r.ok <=> tasks[i].state = "success")
                    /\ loc'[t].results = ResultsOf(active[p]) \cup {r}
                    /\ \/ r.ok /\ Retention > 0 /\ pc'[t] = "prune" /\ UNCHANGED active
                       \/ pc'[t] = "update" /\ PushedTo(p, active[p].run, r)
<1> DEFINE p == loc[t].policy
<1>1. /\ t \in Actors /\ pc[t] = "snapshot" /\ pc[t] \in Polling /\ Ended(tasks[loc[t].task].state)
      /\ UNCHANGED <<clusterVars, due, log, lastRun, before, missed, errors>>
  BY SnapshotChoice DEF Actors, Polling
<1>2. CASE active[p] = None /\ Freed(loc[t].guest) /\ Leave(t, "advance") /\ UNCHANGED active
  BY <1>1, <1>2, LeaveDoes DEF Freed
<1>3. ASSUME NEW ok \in BOOLEAN, active[p] # None, ok = (tasks[loc[t].task].state = "success"),
             \/ ok /\ Retention > 0 /\ With(t, "prune", Polled(t, ok)) /\ UNCHANGED engineVars
             \/ /\ ~(ok /\ Retention > 0)
                /\ active' = Pushed(p, Polled(t, ok).run, OwnResult(t, ok))
                /\ With(t, "update", Polled(t, ok)) /\ UNCHANGED <<inFlight, backingUp>>
      PROVE  /\ Others(t) /\ UNCHANGED <<inFlight, backingUp>>
             /\ loc'[t].policy = p /\ loc'[t].guest = loc[t].guest /\ loc'[t].task = loc[t].task
             /\ loc'[t].run = active[p].run
             /\ \E r \in Result :
                    /\ r.guest = loc[t].guest /\ (r.ok <=> tasks[loc[t].task].state = "success")
                    /\ loc'[t].results = ResultsOf(active[p]) \cup {r}
                    /\ \/ r.ok /\ Retention > 0 /\ pc'[t] = "prune" /\ UNCHANGED active
                       \/ pc'[t] = "update" /\ PushedTo(p, active[p].run, r)
  <2> DEFINE l == Polled(t, ok)
             r == OwnResult(t, ok)
  <2>1. /\ l.policy = p /\ l.guest = loc[t].guest /\ l.task = loc[t].task /\ l.run = active[p].run
        /\ l.results = ResultsOf(active[p]) \cup {r} /\ r \in Result
    BY <1>1, <1>3, SnapshotLocals
  <2>2. r.guest = loc[t].guest /\ (r.ok <=> tasks[loc[t].task].state = "success")
    BY <1>3 DEF OwnResult
  <2>3. \/ r.ok /\ Retention > 0 /\ With(t, "prune", l) /\ UNCHANGED engineVars
        \/ active' = Pushed(p, l.run, r) /\ With(t, "update", l) /\ UNCHANGED <<inFlight, backingUp>>
    BY <1>3 DEF OwnResult
  <2> HIDE DEF l, r
  <2>4. CASE r.ok /\ Retention > 0 /\ With(t, "prune", l) /\ UNCHANGED engineVars
    <3>1. pc'[t] = "prune" /\ loc'[t] = l /\ Others(t)
      BY <1>1, <2>4, WithDoes
    <3> QED
      BY <2>1, <2>2, <2>4, <3>1 DEF engineVars
  <2>5. CASE active' = Pushed(p, l.run, r) /\ With(t, "update", l) /\ UNCHANGED <<inFlight, backingUp>>
    <3>1. pc'[t] = "update" /\ loc'[t] = l /\ Others(t)
      BY <1>1, <2>5, WithDoes
    <3>2. PushedTo(p, active[p].run, r)
      <4>1. p \in Policies /\ active \in [Policies -> ActiveRun \cup {None}]
        BY <1>1, PolledLocals DEF TypeInv, TypeOK
      <4>2. active' = Pushed(p, active[p].run, r)
        BY <2>1, <2>5
      <4> HIDE DEF p
      <4> QED
        BY <2>1, <4>1, <4>2, PushedRuns DEF PushedTo
    <3> QED
      BY <2>1, <2>2, <2>5, <3>1, <3>2
  <2> QED
    BY <2>3, <2>4, <2>5
<1> QED
  BY <1>1, <1>2, <1>3, SnapshotChoice

LEMMA SnapshotIdleDoes ==
  ASSUME TypeInv, NEW t \in Ticks, SnapshotIdle(t)
  PROVE  /\ pc[t] = "snapshot" /\ pc'[t] = "advance" /\ Others(t)
         /\ UNCHANGED <<engineVars, clusterVars, due, log, lastRun, before, missed>>
BY LeaveDoes DEF SnapshotIdle, Actors

(* Pruning leaves an archive where there was one. *)
LEMMA PruneDoes ==
  ASSUME TypeInv, NEW t \in Ticks, Prune(t)
  PROVE  /\ pc[t] = "prune" /\ pc'[t] = "update" /\ loc' = loc /\ Others(t)
         /\ \E r \in Result : r.guest = loc[t].guest /\ r.ok /\ PushedTo(loc[t].policy, loc[t].run, r)
         /\ UNCHANGED <<inFlight, backingUp, tasks, due, log, lastRun, before, missed>>
         /\ Retention > 0 => \A g \in Guests : archives[g] > 0 => archives'[g] > 0
<1>1. /\ pc[t] = "prune" /\ pc[t] \in Polling /\ t \in Actors /\ To(t, "update")
      /\ active' = Pushed(loc[t].policy, loc[t].run, [guest |-> loc[t].guest, ok |-> TRUE])
      /\ UNCHANGED <<inFlight, backingUp, tasks, due, log, lastRun, before, missed>>
  BY DEF Prune, Actors, Polling
<1>2. /\ loc[t].guest \in Guests /\ loc[t].policy \in Policies
      /\ \E r \in Result : r.guest = loc[t].guest /\ r.ok /\ PushedTo(loc[t].policy, loc[t].run, r)
  BY <1>1, PolledLocals, PushDoes
<1>3. Retention > 0 => \A g \in Guests : archives[g] > 0 => archives'[g] > 0
  <2> DEFINE g == loc[t].guest
             least == IF archives[g] > Kept THEN Kept ELSE archives[g]
  <2>1. archives \in [Guests -> Nat] /\ Retention \in Nat
    BY BackupAssumption DEF TypeInv, TypeOK
  <2>2. archives' = [archives EXCEPT ![g] = least] \/ archives' = [archives EXCEPT ![g] = least + 1]
    BY DEF Prune
  <2>3. least \in Nat /\ (Retention > 0 /\ archives[g] > 0 => least > 0)
    BY <1>2, <2>1 DEF Kept
  <2> HIDE DEF least
  <2> QED
    BY <1>2, <2>1, <2>2, <2>3
<1> QED
  BY <1>1, <1>2, <1>3, ToDoes

LEMMA UpdateDoes ==
  ASSUME TypeInv, NEW t \in Ticks, Update(t)
  PROVE  /\ pc[t] = "update" /\ Others(t) /\ Keeps(t)
         /\ UNCHANGED <<engineVars, clusterVars, due, log, lastRun, before>>
         /\ \/ /\ HasRecord(t, loc[t].run) /\ pc'[t] = "updateWrite" /\ UNCHANGED missed
               /\ loc'[t].copy = Logged(log[Context(t)], loc[t])
            \/ ~HasRecord(t, loc[t].run) /\ pc'[t] = "clear" /\ UNCHANGED missed
            \/ pc'[t] = "clear" /\ missed' = missed \cup {loc[t].run}
<1>1. /\ t \in Actors /\ pc[t] = "update" /\ pc[t] \in Polling
      /\ UNCHANGED <<engineVars, clusterVars, due, log, lastRun, before>>
  BY DEF Update, Actors, Polling
<1>2. CASE /\ HasRecord(t, loc[t].run) /\ UNCHANGED missed
           /\ With(t, "updateWrite", Copied(t, Logged(log[Context(t)], loc[t])))
  <2> DEFINE c == Logged(log[Context(t)], loc[t])
  <2>1. With(t, "updateWrite", Copied(t, c))
    BY <1>2
  <2>2. c \in SUBSET Record
    BY <1>1, <1>2, HasRecordType, PolledLocals, LoggedType DEF HasRecord, TypeInv, TypeOK
  <2> HIDE DEF c
  <2>3. pc'[t] = "updateWrite" /\ loc'[t] = Copied(t, c) /\ Others(t)
    BY <1>1, <2>1, WithDoes
  <2>4. Keeps(t) /\ loc'[t].copy = c
    BY <1>1, <2>2, <2>3, CopiedLocals DEF Keeps
  <2> QED
    BY <1>1, <1>2, <2>3, <2>4 DEF c
<1>3. CASE ~HasRecord(t, loc[t].run) /\ To(t, "clear") /\ UNCHANGED missed
  BY <1>1, <1>3, ToDoes
<1>4. CASE Misses(t) /\ To(t, "clear")
  BY <1>1, <1>4, ToDoes DEF Misses
<1> QED
  BY <1>2, <1>3, <1>4 DEF Update, Copied

LEMMA UpdateWriteDoes ==
  ASSUME TypeInv, NEW t \in Ticks, UpdateWrite(t)
  PROVE  /\ pc[t] = "updateWrite" /\ Others(t)
         /\ UNCHANGED <<engineVars, clusterVars, due, lastRun, before>>
         /\ \/ /\ log' = [log EXCEPT ![Context(t)] = loc[t].copy]
               /\ missed' = missed \ {loc[t].run}
               /\ pc'[t] = "clear" /\ loc' = loc
            \/ pc'[t] = "advance" /\ UNCHANGED <<log, missed>>
BY ToDoes, LeaveDoes DEF UpdateWrite, Actors

LEMMA ClearDoes ==
  ASSUME TypeInv, NEW t \in Ticks, Clear(t)
  PROVE  /\ pc[t] = "clear" /\ pc'[t] = "advance" /\ Others(t)
         /\ inFlight' = None /\ backingUp' = backingUp \ {loc[t].guest}
         /\ UNCHANGED <<active, clusterVars, due, log, lastRun, before, missed, errors>>
BY LeaveDoes DEF Clear, Actors, Freed

(* A tick that goes on with the runs: it has a run that ends, or a guest to back up. *)
Looped(t, left) ==
  \/ pc'[t] = "list"
  \/ \E p \in left :
       /\ active'[p] # None /\ loc'[t].policy = p /\ loc'[t].run = active'[p].run
       /\ loc'[t].left = left \ {p}
       /\ \/ pc'[t] = "finalize" /\ Complete(active'[p])
          \/ pc'[t] = "trigger" /\ loc'[t].guest \in NextGuests(active'[p])

LEMMA LoopDoes ==
  ASSUME TypeInv, NEW t \in Ticks, NEW left \in SUBSET Policies, Loop(t, left),
         active' \in [Policies -> ActiveRun \cup {None}],
         \A p \in Policies : active'[p] # None => active'[p] = active[p]
  PROVE  Others(t) /\ Looped(t, left)
<1>0. t \in Actors
  BY DEF Actors
<1>1. CASE Leave(t, "list")
  BY <1>0, <1>1, LeaveDoes DEF Looped
<1>2. ASSUME NEW p \in left, active'[p] # None,
             \/ Complete(active'[p]) /\ With(t, "finalize", Picked(p, left))
             \/ \E g \in NextGuests(active'[p]) :
                  With(t, "trigger", PickedFor(p, left, g))
      PROVE  Others(t) /\ Looped(t, left)
  <2>1. active'[p] \in ActiveRun /\ active'[p].run \in Runs
    BY <1>2 DEF TypeInv, TypeOK, ActivePolicies
  <2>2. CASE Complete(active'[p]) /\ With(t, "finalize", Picked(p, left))
    <3>1. /\ Picked(p, left).policy = p /\ Picked(p, left).run = active'[p].run
          /\ Picked(p, left).left = left \ {p}
      BY <1>2, <2>1, PickedLocals
    <3>2. Others(t) /\ pc'[t] = "finalize" /\ loc'[t] = Picked(p, left)
      BY <1>0, <2>2, WithDoes
    <3> QED
      BY <1>2, <2>2, <3>1, <3>2 DEF Looped
  <2>3. ASSUME NEW g \in NextGuests(active'[p]), With(t, "trigger", PickedFor(p, left, g))
        PROVE  Others(t) /\ Looped(t, left)
    <3> DEFINE l == PickedFor(p, left, g)
    <3>1. g \in Guests
      BY <2>1 DEF NextGuests, ActiveRun
    <3>0. active'[p] # None
      BY <1>2
    <3>2. l.policy = p /\ l.guest = g /\ l.run = active'[p].run /\ l.left = left \ {p}
      BY <3>0, <2>1, <3>1, PickedGuest
    <3> HIDE DEF l
    <3>3. Others(t) /\ pc'[t] = "trigger" /\ loc'[t] = l
      BY <1>0, <2>3, WithDoes DEF l
    <3> QED
      BY <1>2, <2>3, <3>2, <3>3 DEF Looped
  <2> QED
    BY <1>2, <2>2, <2>3
<1> QED
  BY <1>1, <1>2, LoopChoice

LEMMA AdvanceDoes ==
  ASSUME TypeInv, NEW t \in Ticks, Advance(t)
  PROVE  /\ pc[t] = "advance" /\ Others(t)
         /\ UNCHANGED <<engineVars, clusterVars, due, log, lastRun, before, missed, errors>>
         /\ pc'[t] = "list" \/ (inFlight = None /\ Looped(t, ActivePolicies))
<1>1. /\ t \in Actors /\ pc[t] = "advance"
      /\ UNCHANGED <<engineVars, clusterVars, due, log, lastRun, before, missed, errors>>
  BY DEF Advance, Actors
<1>2. CASE Leave(t, "list")
  <2>1. pc'[t] = "list" /\ Others(t)
    BY <1>1, <1>2, LeaveDoes
  <2> QED
    BY <1>1, <2>1
<1>3. CASE inFlight = None /\ Loop(t, ActivePolicies)
  <2>1. active' = active /\ active \in [Policies -> ActiveRun \cup {None}]
    BY <1>1 DEF engineVars, TypeInv, TypeOK
  <2>2. ActivePolicies \in SUBSET Policies
    BY DEF ActivePolicies
  <2>3. Others(t) /\ Looped(t, ActivePolicies)
    BY <1>3, <2>1, <2>2, LoopDoes
  <2> QED
    BY <1>1, <1>3, <2>3
<1>4. Leave(t, "list") \/ (inFlight = None /\ Loop(t, ActivePolicies))
  BY Zenon DEF Advance, SlotFree
<1> QED
  BY <1>2, <1>3, <1>4

LEMMA TriggerDoes ==
  ASSUME TypeInv, NEW t \in Ticks, Trigger(t)
  PROVE  LET n == Len(tasks) + 1 IN
         /\ pc[t] = "trigger" /\ Context(t) # "none" /\ pc'[t] = "list" /\ Others(t)
         /\ UNCHANGED <<active, archives, due, log, lastRun, before, missed, errors>>
         /\ Len(tasks') = n /\ \A i \in 1..Len(tasks) : tasks'[i] = tasks[i]
         /\ tasks'[n].run = loc[t].run /\ tasks'[n].guest = loc[t].guest /\ tasks'[n].state = "running"
         /\ inFlight' # None /\ inFlight'.policy = loc[t].policy
         /\ inFlight'.guest = loc[t].guest /\ inFlight'.task = n
         /\ backingUp' = backingUp \cup {loc[t].guest}
<1> DEFINE new == [run |-> loc[t].run, guest |-> loc[t].guest, state |-> "running"]
           slot == [policy |-> loc[t].policy, guest |-> loc[t].guest, task |-> Len(tasks')]
<1>1. /\ t \in Actors /\ pc[t] = "trigger" /\ Context(t) # "none" /\ Leave(t, "list")
      /\ UNCHANGED <<active, archives, due, log, lastRun, before, missed, errors>>
      /\ tasks' = Append(tasks, new) /\ backingUp' = backingUp \cup {loc[t].guest}
      /\ inFlight' = slot
  BY DEF Trigger, Actors, Marked
<1>2. new \in Task /\ tasks \in Seq(Task) /\ Len(tasks) \in Nat
      /\ loc[t].guest \in Guests /\ loc[t].policy \in Policies
  BY <1>1, TickLocals DEF Task, TypeInv, TypeOK
<1>3. new.run = loc[t].run /\ new.guest = loc[t].guest /\ new.state = "running"
  OBVIOUS
<1>4. slot.policy = loc[t].policy /\ slot.guest = loc[t].guest /\ slot.task = Len(tasks')
  OBVIOUS
<1> HIDE DEF new
<1>5. /\ Len(tasks') = Len(tasks) + 1 /\ tasks'[Len(tasks) + 1] = new
      /\ \A i \in 1..Len(tasks) : tasks'[i] = tasks[i]
  BY <1>1, <1>2
<1>6. slot \in Slot
  BY <1>2, <1>5 DEF Slot
<1> HIDE DEF slot
<1>7. pc'[t] = "list" /\ Others(t)
  BY <1>1, LeaveDoes
<1> QED
  BY <1>1, <1>3, <1>4, <1>5, <1>6, <1>7, NoneApart

LEMMA TriggerFailsDoes ==
  ASSUME TypeInv, NEW t \in Ticks, TriggerFails(t)
  PROVE  /\ pc[t] = "trigger" /\ pc'[t] = "list" /\ Others(t)
         /\ \E r \in Result : r.guest = loc[t].guest /\ ~r.ok /\ PushedTo(loc[t].policy, loc[t].run, r)
         /\ UNCHANGED <<inFlight, backingUp, clusterVars, due, log, lastRun, before, missed>>
<1>1. /\ t \in Actors /\ pc[t] = "trigger" /\ Leave(t, "list")
      /\ active' = Pushed(loc[t].policy, loc[t].run, [guest |-> loc[t].guest, ok |-> FALSE])
      /\ UNCHANGED <<inFlight, backingUp, clusterVars, due, log, lastRun, before, missed>>
  BY DEF TriggerFails, Actors
<1>2. \E r \in Result : r.guest = loc[t].guest /\ ~r.ok /\ PushedTo(loc[t].policy, loc[t].run, r)
  BY <1>1, TickLocals, PushDoes
<1> QED
  BY <1>1, <1>2, LeaveDoes

LEMMA FinalizeDoes ==
  ASSUME TypeInv, NEW t \in Ticks, Finalize(t)
  PROVE  /\ pc[t] = "finalize" /\ Others(t) /\ Keeps(t)
         /\ UNCHANGED <<engineVars, clusterVars, due, log, lastRun, before>>
         /\ \/ /\ HasRecord(t, loc[t].run) /\ pc'[t] = "finalizeWrite" /\ UNCHANGED missed
               /\ loc'[t].copy = log[Context(t)]
            \/ ~HasRecord(t, loc[t].run) /\ pc'[t] = "mark" /\ UNCHANGED missed
            \/ pc'[t] = "mark" /\ missed' = missed \cup {loc[t].run}
<1>1. /\ t \in Actors /\ pc[t] = "finalize" /\ pc[t] \in Ending
      /\ UNCHANGED <<engineVars, clusterVars, due, log, lastRun, before>>
  BY DEF Finalize, Actors, Ending
<1>2. CASE /\ HasRecord(t, loc[t].run) /\ UNCHANGED missed
           /\ With(t, "finalizeWrite", Copied(t, log[Context(t)]))
  <2> DEFINE c == log[Context(t)]
  <2>1. With(t, "finalizeWrite", Copied(t, c))
    BY <1>2
  <2>2. c \in SUBSET Record
    BY <1>1, <1>2, HasRecordType DEF HasRecord
  <2> HIDE DEF c
  <2>3. pc'[t] = "finalizeWrite" /\ loc'[t] = Copied(t, c) /\ Others(t)
    BY <1>1, <2>1, WithDoes
  <2>4. Keeps(t) /\ loc'[t].copy = c
    BY <1>1, <2>2, <2>3, CopiedLocals DEF Keeps
  <2> QED
    BY <1>1, <1>2, <2>3, <2>4 DEF c
<1>3. CASE ~HasRecord(t, loc[t].run) /\ To(t, "mark") /\ UNCHANGED missed
  BY <1>1, <1>3, ToDoes
<1>4. CASE Misses(t) /\ To(t, "mark")
  BY <1>1, <1>4, ToDoes DEF Misses
<1> QED
  BY <1>2, <1>3, <1>4 DEF Finalize, Copied

LEMMA FinalizeWriteDoes ==
  ASSUME TypeInv, NEW t \in Ticks, FinalizeWrite(t)
  PROVE  /\ pc[t] = "finalizeWrite" /\ Others(t)
         /\ UNCHANGED <<engineVars, clusterVars, due, lastRun, before, missed>>
         /\ \/ /\ log' = [log EXCEPT ![Context(t)] = EndedIn(loc[t].copy, loc[t].run)]
               /\ pc'[t] = "mark" /\ loc' = loc
            \/ pc'[t] = "idle" /\ UNCHANGED log
BY ToDoes, LeaveDoes DEF FinalizeWrite, Actors

LEMMA MarkDoes ==
  ASSUME TypeInv, NEW t \in Ticks, Mark(t)
  PROVE  /\ pc[t] = "mark" /\ Others(t)
         /\ UNCHANGED <<engineVars, clusterVars, log, lastRun, before, missed>>
         /\ (pc'[t] = "delete" /\ loc' = loc) \/ pc'[t] = "idle"
BY ToDoes, LeaveDoes DEF Mark, Actors

LEMMA DeleteDoes ==
  ASSUME TypeInv, NEW t \in Ticks, Delete(t)
  PROVE  /\ pc[t] = "delete" /\ loc[t].policy \in Policies /\ loc[t].left \subseteq Policies
         /\ active' = [active EXCEPT ![loc[t].policy] = None]
         /\ Others(t) /\ Looped(t, loc[t].left)
         /\ UNCHANGED <<inFlight, backingUp, clusterVars, due, log, lastRun, before, missed, errors>>
<1>1. /\ t \in Actors /\ pc[t] = "delete" /\ pc[t] \in Ending
      /\ active' = [active EXCEPT ![loc[t].policy] = None] /\ Loop(t, loc[t].left)
      /\ UNCHANGED <<inFlight, backingUp, clusterVars, due, log, lastRun, before, missed, errors>>
  BY DEF Delete, Actors, Ending
<1>2. loc[t].policy \in Policies /\ loc[t].left \in SUBSET Policies
  BY <1>1, TickLocals
<1>3. /\ active' \in [Policies -> ActiveRun \cup {None}]
      /\ \A p \in Policies : active'[p] # None => active'[p] = active[p]
  BY <1>1 DEF TypeInv, TypeOK
<1> QED
  BY <1>1, <1>2, <1>3, LoopDoes

LEMMA ListDoes ==
  ASSUME TypeInv, NEW t \in Ticks, List(t)
  PROVE  /\ pc[t] = "list" /\ Others(t)
         /\ UNCHANGED <<engineVars, clusterVars, due, log, lastRun, before, missed>>
         /\ pc'[t] = "idle" \/ (pc'[t] = "start" /\ loc'[t].left = DuePolicies(t))
<1>1. /\ t \in Actors /\ pc[t] = "list"
      /\ UNCHANGED <<engineVars, clusterVars, due, log, lastRun, before, missed>>
  BY DEF List, Actors
<1>2. CASE Leave(t, "idle")
  <2>1. pc'[t] = "idle" /\ Others(t)
    BY <1>1, <1>2, LeaveDoes
  <2> QED
    BY <1>1, <2>1
<1>3. CASE With(t, "start", OnlyLeft(DuePolicies(t)))
  <2>1. DuePolicies(t) \in SUBSET Policies
    BY DEF DuePolicies, PoliciesIn, Policies
  <2>2. OnlyLeft(DuePolicies(t)).left = DuePolicies(t)
    BY <2>1, OnlyLeftLocals
  <2> QED
    BY <1>1, <1>3, <2>2, WithDoes
<1> QED
  BY <1>2, <1>3 DEF List, OnlyLeft

LEMMA StartDoes ==
  ASSUME TypeInv, NEW t \in Ticks, Start(t)
  PROVE  /\ pc[t] = "start" /\ Others(t)
         /\ UNCHANGED <<engineVars, clusterVars, due, log, lastRun, before, missed>>
         /\ \/ pc'[t] = "idle"
            \/ \E p \in loc[t].left :
                 /\ Context(t) = "env" /\ loc'[t].left = loc[t].left \ {p}
                 /\ \/ pc'[t] = "create" /\ loc'[t].policy = p /\ loc'[t].copy \in {log["env"], {}}
                    \/ pc'[t] = "start"
<1>1. /\ pc[t] = "start" /\ t \in Actors /\ loc[t].left \subseteq Policies
      /\ UNCHANGED <<engineVars, clusterVars, due, log, lastRun, before, missed>>
  BY TickLocals DEF Start, Actors
<1>2. CASE Leave(t, "idle")
  BY <1>1, <1>2, LeaveDoes
<1>3. ASSUME NEW p \in loc[t].left, NEW c \in {log[Context(t)], {}},
             With(t, "create", Chosen(t, p, c)) \/ With(t, "start", OnlyLeft(loc[t].left \ {p}))
      PROVE  /\ Others(t) /\ Context(t) = "env" /\ loc'[t].left = loc[t].left \ {p}
             /\ \/ pc'[t] = "create" /\ loc'[t].policy = p /\ loc'[t].copy \in {log["env"], {}}
                \/ pc'[t] = "start"
  <2> DEFINE l == Chosen(t, p, c)
             k == OnlyLeft(loc[t].left \ {p})
  <2>1. Context(t) = "env"
    BY <1>1, BackupAssumption DEF TypeInv, LocalsOK, Fits, Context
  <2>2. c \in SUBSET Record /\ c \in {log["env"], {}}
    BY <1>1, <2>1, HasRecordType
  <2>3. l.policy = p /\ l.left = loc[t].left \ {p} /\ l.copy = c
    BY <1>1, <2>2, ChosenLocals
  <2>4. k.left = loc[t].left \ {p}
    BY <1>1, OnlyLeftLocals
  <2> HIDE DEF l, k
  <2>5. Others(t) /\ ((pc'[t] = "create" /\ loc'[t] = l) \/ (pc'[t] = "start" /\ loc'[t] = k))
    <3>1. CASE With(t, "create", l)
      BY <1>1, <3>1, WithDoes
    <3>2. CASE With(t, "start", k)
      BY <1>1, <3>2, WithDoes
    <3> QED
      BY <1>3, <3>1, <3>2 DEF l, k
  <2> QED
    BY <2>1, <2>2, <2>3, <2>4, <2>5
<1>4. \/ Leave(t, "idle")
      \/ \E p \in loc[t].left : \E c \in {log[Context(t)], {}} :
           With(t, "create", Chosen(t, p, c)) \/ With(t, "start", OnlyLeft(loc[t].left \ {p}))
  BY Zenon DEF Start, Chosen, OnlyLeft
<1> QED
  BY <1>1, <1>2, <1>3, <1>4

(* Where an actor goes after the run of a policy. *)
Gone(a) ==
  \/ a \in Manuals /\ pc'[a] = "done"
  \/ a \notin Manuals /\ pc'[a] = "start" /\ loc'[a].left = loc[a].left

LEMMA GoesDoes ==
  ASSUME TypeInv, NEW a \in Actors, Goes(a)
  PROVE  Others(a) /\ Gone(a)
<1>1. CASE a \in Manuals
  BY <1>1, LeaveDoes DEF Goes, Gone
<1>2. CASE a \notin Manuals
  <2>1. With(a, "start", OnlyLeft(loc[a].left)) /\ loc[a].left \in SUBSET Policies
    BY <1>2, TickLocals DEF Goes, OnlyLeft
  <2>2. OnlyLeft(loc[a].left).left = loc[a].left
    BY <2>1, OnlyLeftLocals
  <2> QED
    BY <1>2, <2>1, <2>2, WithDoes DEF Gone
<1> QED
  BY <1>1, <1>2

LEMMA CreateDoes ==
  ASSUME TypeInv, NEW a \in Actors, Create(a)
  PROVE  /\ pc[a] = "create" /\ lastRun' = lastRun + 1 /\ Others(a) /\ loc[a].policy \in Policies
         /\ log' = [log EXCEPT ![Context(a)] =
                      loc[a].copy \cup {[run |-> lastRun + 1, ended |-> FALSE, results |-> {}]}]
         /\ UNCHANGED <<inFlight, backingUp, clusterVars, due, before, missed, errors>>
         /\ \/ /\ pc'[a] = "endEmpty" /\ loc'[a].run = lastRun + 1 /\ loc'[a].policy = loc[a].policy
               /\ loc'[a].left = loc[a].left /\ UNCHANGED active
            \/ /\ Gone(a) /\ active'[loc[a].policy] # None
               /\ active'[loc[a].policy].run = lastRun + 1
               /\ active'[loc[a].policy].completed = <<>>
               /\ active'[loc[a].policy].pending # {}
               /\ \A p \in Policies : p # loc[a].policy => active'[p] = active[p]
<1>1. /\ pc[a] = "create" /\ lastRun' = lastRun + 1
      /\ log' = [log EXCEPT ![Context(a)] =
                   loc[a].copy \cup {[run |-> lastRun + 1, ended |-> FALSE, results |-> {}]}]
      /\ UNCHANGED <<inFlight, backingUp, clusterVars, due, before, missed, errors>>
  BY Zenon DEF Create
<1>2. loc[a].policy \in Policies
  BY <1>1, TickLocals
<1>3. CASE With(a, "endEmpty", Numbered(a, lastRun + 1)) /\ UNCHANGED active
  BY <1>1, <1>2, <1>3, WithDoes, NumberedLocals
<1>4. ASSUME NEW scope \in Scopes[loc[a].policy], scope # {}, Goes(a),
             active' = [active EXCEPT ![loc[a].policy] = [run |-> lastRun + 1, pending |-> scope,
                                                          completed |-> <<>>]]
      PROVE  /\ Others(a) /\ Gone(a) /\ active'[loc[a].policy] # None
             /\ active'[loc[a].policy].run = lastRun + 1
             /\ active'[loc[a].policy].completed = <<>>
             /\ active'[loc[a].policy].pending # {}
             /\ \A p \in Policies : p # loc[a].policy => active'[p] = active[p]
  <2> DEFINE fresh == [run |-> lastRun + 1, pending |-> scope, completed |-> <<>>]
  <2>1. fresh \in ActiveRun
    BY <1>2, BackupAssumption DEF ActiveRun, TypeInv, TypeOK
  <2>2. fresh.run = lastRun + 1 /\ fresh.pending = scope /\ fresh.completed = <<>>
    OBVIOUS
  <2> HIDE DEF fresh
  <2>3. active'[loc[a].policy] = fresh /\ \A p \in Policies : p # loc[a].policy => active'[p] = active[p]
    BY <1>2, <1>4 DEF fresh, TypeInv, TypeOK
  <2> QED
    BY <1>4, <2>1, <2>2, <2>3, NoneApart, GoesDoes
<1>5. \/ With(a, "endEmpty", Numbered(a, lastRun + 1)) /\ UNCHANGED active
      \/ \E scope \in Scopes[loc[a].policy] :
           /\ scope # {} /\ Goes(a)
           /\ active' = [active EXCEPT ![loc[a].policy] = [run |-> lastRun + 1, pending |-> scope,
                                                           completed |-> <<>>]]
  BY Zenon DEF Create, Numbered
<1> QED
  BY <1>1, <1>2, <1>3, <1>4, <1>5

LEMMA CreateFailsDoes ==
  ASSUME TypeInv, NEW a \in Actors, CreateFails(a)
  PROVE  /\ pc[a] = "create" /\ Others(a) /\ Gone(a)
         /\ UNCHANGED <<engineVars, clusterVars, due, log, lastRun, before, missed>>
BY GoesDoes DEF CreateFails

LEMMA EndEmptyDoes ==
  ASSUME TypeInv, NEW a \in Actors, EndEmpty(a)
  PROVE  /\ pc[a] = "endEmpty" /\ Others(a) /\ Gone(a)
         /\ \/ log' = [log EXCEPT ![Context(a)] = EndedIn(@, loc[a].run)] /\ UNCHANGED missed
            \/ missed' = missed \cup {loc[a].run} /\ UNCHANGED log
         /\ UNCHANGED <<engineVars, clusterVars, lastRun, before>>
BY GoesDoes DEF EndEmpty, Misses

LEMMA ManualDoes ==
  ASSUME TypeInv, NEW m \in Manuals, Manual(m)
  PROVE  /\ pc[m] = "idle" /\ Others(m)
         /\ "race" \in Faults \/ \A n \in Manuals : pc[n] \in {"idle", "done"}
         /\ UNCHANGED <<engineVars, clusterVars, due, log, lastRun, before, missed, errors>>
         /\ \/ pc'[m] = "done"
            \/ \E p \in SitePolicies : active[p] = None /\ pc'[m] = "start" /\ loc'[m].policy = p
<1>1. /\ m \in Actors /\ pc[m] = "idle"
      /\ "race" \in Faults \/ \A n \in Manuals : pc[n] \in {"idle", "done"}
      /\ UNCHANGED <<engineVars, clusterVars, due, log, lastRun, before, missed, errors>>
  BY DEF Manual, Actors
<1>2. PICK p \in SitePolicies : (active[p] = None /\ With(m, "start", OnlyPolicy(p))) \/ Leave(m, "done")
  BY DEF Manual, OnlyPolicy
<1>3. OnlyPolicy(p).policy = p
  BY OnlyPolicyLocals DEF Policies
<1> QED
  BY <1>1, <1>2, <1>3, WithDoes, LeaveDoes

LEMMA ManualStartDoes ==
  ASSUME TypeInv, NEW m \in Manuals, ManualStart(m)
  PROVE  /\ pc[m] = "start" /\ Others(m)
         /\ UNCHANGED <<engineVars, clusterVars, due, log, lastRun, before, missed>>
         /\ pc'[m] = "done" \/ (pc'[m] = "create" /\ Keeps(m))
<1>1. /\ m \in Actors /\ pc[m] = "start"
      /\ UNCHANGED <<engineVars, clusterVars, due, log, lastRun, before, missed>>
  BY DEF ManualStart, Actors
<1>2. CASE Leave(m, "done")
  BY <1>1, <1>2, LeaveDoes
<1>3. ASSUME NEW c \in {log["site"], {}}, With(m, "create", Copied(m, c))
      PROVE  pc'[m] = "create" /\ Others(m) /\ Keeps(m)
  <2>1. c \in SUBSET Record
    BY DEF TypeInv, TypeOK
  <2> QED
    BY <1>1, <1>3, <2>1, WithDoes, CopiedLocals DEF Keeps
<1> QED
  BY <1>1, <1>2, <1>3 DEF ManualStart, Copied

-----------------------------------------------------------------------------
(* An archive for each success *)

(* A task that succeeded has its archive, and a poll that found one keeps the guest of
   its task: so has the result it is about to push. *)
TasksArchived ==
  \A i \in 1..Len(tasks) : tasks[i].state = "success" => archives[tasks[i].guest] > 0
SlotTask == inFlight # None => tasks[inFlight.task].guest = inFlight.guest
PollTask == \A t \in Ticks : pc[t] = "snapshot" => tasks[loc[t].task].guest = loc[t].guest
PruneArchived == \A t \in Ticks : pc[t] = "prune" => Retention > 0 /\ archives[loc[t].guest] > 0

ArchiveInv == TasksArchived /\ SlotTask /\ PollTask /\ PruneArchived /\ SuccessHasArchive

(* A step that takes no guest's last archive. *)
StillArchived == \A g \in Guests : archives[g] > 0 => archives'[g] > 0

LEMMA RunTypes ==
  ASSUME TypeInv, NEW p \in Policies, active[p] # None
  PROVE  /\ active[p].completed \in Seq(Result) /\ active[p].run \in Runs
         /\ active[p].pending \in SUBSET Guests /\ active[p].pending \in Scopes[p]
         /\ \A i \in 1..Len(active[p].completed) :
              active[p].completed[i] \in Result /\ active[p].completed[i].guest \in Guests
<1>1. active[p] \in ActiveRun /\ active[p].run \in Runs /\ active[p].pending \in Scopes[p]
  BY DEF TypeInv, TypeOK, ActivePolicies
<1> DEFINE done == active[p].completed
<1>2. done \in Seq(Result) /\ active[p].pending \in SUBSET Guests
  BY <1>1 DEF ActiveRun
<1> HIDE DEF done
<1>3. ASSUME NEW i \in 1..Len(done) PROVE done[i] \in Result /\ done[i].guest \in Guests
  <2>1. done[i] \in Result
    BY <1>2
  <2> QED
    BY <2>1 DEF Result
<1> QED
  BY <1>1, <1>2, <1>3 DEF done

LEMMA TaskTypes ==
  ASSUME TypeInv, NEW i \in 1..Len(tasks)
  PROVE  /\ tasks[i] \in Task /\ tasks[i].run \in Runs /\ tasks[i].guest \in Guests
         /\ tasks[i].state \in {"running", "success", "error"}
<1>1. tasks[i] \in Task
  BY DEF TypeInv, TypeOK
<1> QED
  BY <1>1 DEF Task

LEMMA RunArchived ==
  ASSUME TypeInv, TypeInv', SuccessHasArchive, StillArchived,
         \A p \in Policies : active'[p] # None =>
           \/ active[p] # None /\ active'[p].completed = active[p].completed
           \/ active'[p].completed = <<>>
           \/ \E r \in Result : /\ active[p] # None
                                /\ active'[p].completed = Append(active[p].completed, r)
                                /\ r.ok => archives'[r.guest] > 0
  PROVE  SuccessHasArchive'
<1> SUFFICES ASSUME NEW p \in Policies, active'[p] # None,
                    NEW i \in 1..Len(active'[p].completed), active'[p].completed[i].ok
             PROVE  archives'[active'[p].completed[i].guest] > 0
  BY DEF SuccessHasArchive, ActivePolicies
<1>1. ASSUME active[p] # None
      PROVE  /\ active[p].completed \in Seq(Result)
             /\ \A j \in 1..Len(active[p].completed) :
                  active[p].completed[j].ok => archives'[active[p].completed[j].guest] > 0
  BY <1>1, RunTypes DEF SuccessHasArchive, ActivePolicies, StillArchived
<1>2. CASE active[p] # None /\ active'[p].completed = active[p].completed
  BY <1>1, <1>2
<1>3. CASE active'[p].completed = <<>>
  BY <1>3
<1>4. ASSUME NEW r \in Result, active[p] # None, active'[p].completed = Append(active[p].completed, r),
             r.ok => archives'[r.guest] > 0
      PROVE  archives'[active'[p].completed[i].guest] > 0
  <2> DEFINE done == active[p].completed
  <2>1. done \in Seq(Result) /\ i \in 1..(Len(done) + 1)
    BY <1>1, <1>4
  <2>2. active'[p].completed[i] = IF i \in 1..Len(done) THEN done[i] ELSE r
    BY <1>4, <2>1
  <2> HIDE DEF done
  <2>3. CASE i \in 1..Len(done)
    BY <1>1, <1>4, <2>2, <2>3 DEF done
  <2>4. CASE i \notin 1..Len(done)
    BY <1>4, <2>2, <2>4
  <2> QED
    BY <2>3, <2>4
<1> QED
  BY <1>2, <1>3, <1>4

(* A step that starts and ends no task. *)
LEMMA ArchivesStay ==
  ASSUME TypeInv, TypeInv', ArchiveInv, StillArchived, UNCHANGED tasks,
         inFlight' = None \/ inFlight' = inFlight,
         \A t \in Ticks : pc'[t] = "snapshot" =>
           \/ pc[t] = "snapshot" /\ loc'[t] = loc[t]
           \/ tasks[loc'[t].task].guest = loc'[t].guest,
         \A t \in Ticks : pc'[t] = "prune" =>
           \/ pc[t] = "prune" /\ loc'[t] = loc[t]
           \/ Retention > 0 /\ loc'[t].guest \in Guests /\ archives[loc'[t].guest] > 0,
         SuccessHasArchive'
  PROVE  ArchiveInv'
<1>1. \A i \in 1..Len(tasks) : tasks[i].guest \in Guests
  BY TaskTypes
<1>2. TasksArchived'
  BY <1>1 DEF ArchiveInv, TasksArchived, StillArchived
<1>3. SlotTask' /\ PollTask'
  BY DEF ArchiveInv, SlotTask, PollTask
<1>4. PruneArchived'
  <2> SUFFICES ASSUME NEW t \in Ticks, pc'[t] = "prune"
               PROVE  Retention > 0 /\ archives'[loc'[t].guest] > 0
    BY DEF PruneArchived
  <2>1. t \in Actors /\ (pc[t] = "prune" => loc[t].guest \in Guests)
    BY PolledLocals DEF Actors, Polling
  <2> QED
    BY <2>1 DEF ArchiveInv, PruneArchived, StillArchived
<1> QED
  BY <1>2, <1>3, <1>4 DEF ArchiveInv

(* An actor that takes no step has what it had. *)
LEMMA OtherStays ==
  ASSUME NEW a \in Actors, Others(a), NEW t \in Ticks, t # a
  PROVE  pc'[t] = pc[t] /\ loc'[t] = loc[t]
BY DEF Others, Actors

LEMMA ArchiveQuiet ==
  ASSUME TypeInv, TypeInv', ArchiveInv, NEW a \in Actors, Others(a),
         UNCHANGED <<tasks, archives>>, inFlight' = None \/ inFlight' = inFlight,
         pc'[a] \notin {"snapshot", "prune"},
         \A p \in Policies : active'[p] # None =>
           (active[p] # None /\ active'[p].completed = active[p].completed) \/ active'[p].completed = <<>>
  PROVE  ArchiveInv'
<1>1. StillArchived
  BY DEF StillArchived
<1>2. SuccessHasArchive'
  BY <1>1, RunArchived DEF ArchiveInv
<1> QED
  BY <1>1, <1>2, ArchivesStay, OtherStays

LEMMA InitArchive == Init => ArchiveInv
BY DEF Init, ArchiveInv, TasksArchived, SlotTask, PollTask, PruneArchived, SuccessHasArchive,
       ActivePolicies, Actors

(* A result that is pushed has its archive. *)
LEMMA PushArchived ==
  ASSUME TypeInv, TypeInv', SuccessHasArchive, StillArchived, NEW p, NEW run, NEW r \in Result,
         PushedTo(p, run, r), r.ok => archives'[r.guest] > 0
  PROVE  SuccessHasArchive'
<1>1. \A q \in Policies : active'[q] # None =>
        active[q] # None /\ (active'[q].completed = active[q].completed
                              \/ active'[q].completed = Append(active[q].completed, r))
  BY DEF PushedTo
<1> QED
  BY <1>1, RunArchived

LEMMA SnapshotArchive ==
  ASSUME TypeInv, TypeInv', ArchiveInv, NEW t \in Ticks, Snapshot(t) PROVE ArchiveInv'
<1>0. t \in Actors
  BY DEF Actors
<1>1. /\ pc[t] = "snapshot" /\ pc[t] \in Polling /\ Others(t) /\ UNCHANGED <<tasks, archives>>
  BY SnapshotDoes DEF clusterVars, Polling
<1>2. CASE UNCHANGED active /\ inFlight' = None /\ pc'[t] = "advance"
  BY <1>0, <1>1, <1>2, ArchiveQuiet
<1>3. ASSUME UNCHANGED <<inFlight, backingUp>>, loc'[t].guest = loc[t].guest, NEW r \in Result,
             r.guest = loc[t].guest, r.ok <=> tasks[loc[t].task].state = "success",
             \/ r.ok /\ Retention > 0 /\ pc'[t] = "prune" /\ UNCHANGED active
             \/ pc'[t] = "update" /\ PushedTo(loc[t].policy, active[loc[t].policy].run, r)
      PROVE  ArchiveInv'
  <2>1. loc[t].task \in 1..Len(tasks) /\ loc[t].guest \in Guests /\ tasks[loc[t].task].guest = loc[t].guest
    BY <1>1, PolledLocals DEF ArchiveInv, PollTask
  <2>2. r.ok => archives[loc[t].guest] > 0
    BY <1>3, <2>1 DEF ArchiveInv, TasksArchived
  <2>3. StillArchived
    BY <1>1 DEF StillArchived
  <2>4. SuccessHasArchive'
    <3>1. CASE UNCHANGED active
      BY <2>3, <3>1, RunArchived DEF ArchiveInv
    <3>2. CASE PushedTo(loc[t].policy, active[loc[t].policy].run, r)
      BY <1>1, <1>3, <2>2, <2>3, <3>2, PushArchived DEF ArchiveInv
    <3> QED
      BY <1>3, <3>1, <3>2
  <2> QED
    BY <1>0, <1>1, <1>3, <2>1, <2>2, <2>3, <2>4, ArchivesStay, OtherStays
<1> QED
  BY <1>2, <1>3, SnapshotDoes

LEMMA PruneArchive ==
  ASSUME TypeInv, TypeInv', ArchiveInv, NEW t \in Ticks, Prune(t) PROVE ArchiveInv'
<1>0. t \in Actors /\ pc[t] = "prune" /\ pc[t] \in Polling
  BY PruneDoes DEF Actors, Polling
<1>1. /\ pc'[t] = "update" /\ Others(t) /\ UNCHANGED <<inFlight, tasks>>
      /\ Retention > 0 => \A g \in Guests : archives[g] > 0 => archives'[g] > 0
  BY PruneDoes
<1>2. loc[t].guest \in Guests /\ Retention > 0 /\ archives[loc[t].guest] > 0
  BY <1>0, PolledLocals DEF ArchiveInv, PruneArchived
<1>3. StillArchived /\ archives'[loc[t].guest] > 0
  BY <1>1, <1>2 DEF StillArchived
<1>4. PICK r \in Result : r.guest = loc[t].guest /\ PushedTo(loc[t].policy, loc[t].run, r)
  BY PruneDoes
<1>5. SuccessHasArchive'
  BY <1>3, <1>4, PushArchived DEF ArchiveInv
<1> QED
  BY <1>0, <1>1, <1>3, <1>5, ArchivesStay, OtherStays

LEMMA TriggerArchive ==
  ASSUME TypeInv, TypeInv', ArchiveInv, NEW t \in Ticks, Trigger(t) PROVE ArchiveInv'
<1> DEFINE n == Len(tasks) + 1
<1>0. t \in Actors /\ Len(tasks) \in Nat
  BY DEF Actors, TypeInv, TypeOK
<1>1. /\ pc'[t] = "list" /\ Others(t) /\ UNCHANGED <<active, archives>>
      /\ Len(tasks') = n /\ \A i \in 1..Len(tasks) : tasks'[i] = tasks[i]
      /\ tasks'[n].guest = loc[t].guest /\ tasks'[n].state = "running"
      /\ inFlight'.guest = loc[t].guest /\ inFlight'.task = n
  BY TriggerDoes
<1>2. TasksArchived'
  BY <1>0, <1>1 DEF ArchiveInv, TasksArchived
<1>3. SlotTask'
  BY <1>1 DEF SlotTask
<1>4. PollTask'
  <2> SUFFICES ASSUME NEW u \in Ticks, pc'[u] = "snapshot"
               PROVE  tasks'[loc'[u].task].guest = loc'[u].guest
    BY DEF PollTask
  <2>1. pc[u] = "snapshot" /\ loc'[u] = loc[u] /\ pc[u] \in Polling
    BY <1>0, <1>1, OtherStays DEF Polling
  <2> QED
    BY <1>1, <2>1, PolledLocals DEF ArchiveInv, PollTask
<1>5. PruneArchived'
  BY <1>0, <1>1, OtherStays DEF ArchiveInv, PruneArchived
<1>6. SuccessHasArchive'
  BY <1>1 DEF ArchiveInv, SuccessHasArchive, ActivePolicies
<1> QED
  BY <1>2, <1>3, <1>4, <1>5, <1>6 DEF ArchiveInv

LEMMA TaskEndsArchive ==
  ASSUME TypeInv, TypeInv', ArchiveInv, NEW i \in 1..Len(tasks), TaskEnds(i) PROVE ArchiveInv'
<1>1. /\ tasks[i] \in Task /\ Len(tasks') = Len(tasks)
      /\ \A j \in 1..Len(tasks) : tasks[j] \in Task /\ (j # i => tasks'[j] = tasks[j])
      /\ tasks'[i].guest = tasks[i].guest
      /\ UNCHANGED <<engineVars, pc, loc>>
  BY TaskEnded
<1>2. archives \in [Guests -> Nat] /\ tasks[i].guest \in Guests
  BY <1>1 DEF Task, TypeInv, TypeOK
<1>3. StillArchived /\ (tasks'[i].state = "success" => archives'[tasks[i].guest] > 0)
  <2>1. PICK s \in {"success", "error"} :
          /\ tasks' = [tasks EXCEPT ![i] = [run |-> tasks[i].run, guest |-> tasks[i].guest, state |-> s]]
          /\ archives' = IF s = "success" THEN [archives EXCEPT ![tasks[i].guest] = @ + 1] ELSE archives
    BY TaskEnded
  <2>2. tasks'[i].state = s
    BY <2>1 DEF TypeInv, TypeOK
  <2> QED
    BY <1>2, <2>1, <2>2 DEF StillArchived
<1>4. TasksArchived'
  BY <1>1, <1>3 DEF ArchiveInv, TasksArchived, StillArchived, Task
<1>5. SlotTask'
  BY <1>1 DEF ArchiveInv, SlotTask, engineVars, TypeInv, TypeOK
<1>6. PollTask'
  <2> SUFFICES ASSUME NEW t \in Ticks, pc[t] = "snapshot"
               PROVE  tasks'[loc[t].task].guest = loc[t].guest
    BY <1>1 DEF PollTask
  <2>1. loc[t].task \in 1..Len(tasks) /\ tasks[loc[t].task].guest = loc[t].guest
    BY PolledLocals DEF ArchiveInv, PollTask, Polling
  <2> QED
    BY <1>1, <2>1
<1>7. PruneArchived'
  <2> SUFFICES ASSUME NEW t \in Ticks, pc[t] = "prune"
               PROVE  Retention > 0 /\ archives'[loc[t].guest] > 0
    BY <1>1 DEF PruneArchived
  <2>1. loc[t].guest \in Guests
    BY PolledLocals DEF Polling
  <2> QED
    BY <1>3, <2>1 DEF ArchiveInv, PruneArchived, StillArchived
<1>8. SuccessHasArchive'
  BY <1>1, <1>3, RunArchived DEF ArchiveInv, engineVars
<1> QED
  BY <1>4, <1>5, <1>6, <1>7, <1>8 DEF ArchiveInv

LEMMA ArchiveStep == ArchiveInv /\ TypeInv /\ TypeInv' /\ [Next]_vars => ArchiveInv'
<1> SUFFICES ASSUME ArchiveInv, TypeInv, TypeInv', [Next]_vars PROVE ArchiveInv'
  OBVIOUS
<1>1. ASSUME NEW t \in Ticks, TickStart(t) \/ TickGoesOn(t) PROVE ArchiveInv'
  <2>0. t \in Actors
    BY DEF Actors
  <2>1. CASE TickStart(t)
    <3>1. /\ Others(t) /\ UNCHANGED <<tasks, archives, active, inFlight>>
          /\ pc'[t] # "prune"
          /\ pc'[t] = "snapshot" => inFlight # None /\ loc'[t].guest = inFlight.guest /\ loc'[t].task = inFlight.task
      BY <2>1, TickStartDoes DEF engineVars, clusterVars
    <3>2. StillArchived
      BY <3>1 DEF StillArchived
    <3>3. SuccessHasArchive'
      BY <3>1, <3>2, RunArchived DEF ArchiveInv
    <3>4. pc'[t] = "snapshot" => tasks[loc'[t].task].guest = loc'[t].guest
      BY <3>1 DEF ArchiveInv, SlotTask
    <3> QED
      BY <2>0, <3>1, <3>2, <3>3, <3>4, ArchivesStay, OtherStays
  <2>2. CASE Snapshot(t)
    BY <2>2, SnapshotArchive
  <2>3. CASE Prune(t)
    BY <2>3, PruneArchive
  <2>4. CASE Trigger(t)
    BY <2>4, TriggerArchive
  <2>5. CASE TriggerFails(t)
    <3>1. pc'[t] = "list" /\ Others(t) /\ UNCHANGED <<inFlight, tasks, archives>>
      BY <2>5, TriggerFailsDoes DEF clusterVars
    <3>2. StillArchived
      BY <3>1 DEF StillArchived
    <3>3. PICK r \in Result : ~r.ok /\ PushedTo(loc[t].policy, loc[t].run, r)
      BY <2>5, TriggerFailsDoes
    <3>4. SuccessHasArchive'
      BY <3>2, <3>3, PushArchived DEF ArchiveInv
    <3> QED
      BY <2>0, <3>1, <3>2, <3>4, ArchivesStay, OtherStays
  <2>6. CASE SnapshotIdle(t) \/ Update(t) \/ UpdateWrite(t) \/ Clear(t) \/ Advance(t)
    <3>1. /\ Others(t) /\ UNCHANGED <<tasks, archives, active>> /\ (inFlight' = None \/ inFlight' = inFlight)
          /\ pc'[t] \notin {"snapshot", "prune"}
      BY <2>6, SnapshotIdleDoes, UpdateDoes, UpdateWriteDoes, ClearDoes, AdvanceDoes
         DEF engineVars, clusterVars, Looped
    <3> QED
      BY <2>0, <3>1, ArchiveQuiet
  <2>7. CASE Finalize(t) \/ FinalizeWrite(t) \/ Mark(t) \/ List(t) \/ Start(t) \/ CreateFails(t) \/ EndEmpty(t)
    <3>1. /\ Others(t) /\ UNCHANGED <<tasks, archives, active, inFlight>>
          /\ pc'[t] \notin {"snapshot", "prune"}
      BY <2>0, <2>7, FinalizeDoes, FinalizeWriteDoes, MarkDoes, ListDoes, StartDoes, CreateFailsDoes, EndEmptyDoes
         DEF engineVars, clusterVars, Gone
    <3> QED
      BY <2>0, <3>1, ArchiveQuiet
  <2>8. CASE Delete(t)
    <3>1. /\ Others(t) /\ UNCHANGED <<tasks, archives, inFlight>> /\ pc'[t] \notin {"snapshot", "prune"}
          /\ active' = [active EXCEPT ![loc[t].policy] = None]
      BY <2>8, DeleteDoes DEF clusterVars, Looped
    <3>2. \A p \in Policies : active'[p] # None => active[p] # None /\ active'[p].completed = active[p].completed
      BY <3>1 DEF TypeInv, TypeOK
    <3> QED
      BY <2>0, <3>1, <3>2, ArchiveQuiet
  <2>9. CASE Create(t)
    <3>1. /\ Others(t) /\ UNCHANGED <<tasks, archives, inFlight>> /\ pc'[t] \notin {"snapshot", "prune"}
          /\ \A p \in Policies : active'[p] = active[p] \/ active'[p].completed = <<>>
      BY <2>0, <2>9, CreateDoes DEF clusterVars, Gone
    <3> QED
      BY <2>0, <3>1, ArchiveQuiet
  <2> QED
    BY <1>1, <2>1, <2>2, <2>3, <2>4, <2>5, <2>6, <2>7, <2>8, <2>9 DEF TickGoesOn
<1>2. ASSUME NEW m \in Manuals, Manual(m) \/ ManualStart(m) \/ Create(m) \/ CreateFails(m) \/ EndEmpty(m)
      PROVE  ArchiveInv'
  <2>0. m \in Actors
    BY DEF Actors
  <2>1. /\ Others(m) /\ UNCHANGED <<tasks, archives, inFlight>> /\ pc'[m] \notin {"snapshot", "prune"}
        /\ \A p \in Policies : active'[p] = active[p] \/ active'[p].completed = <<>>
    BY <1>2, <2>0, ManualDoes, ManualStartDoes, CreateDoes, CreateFailsDoes, EndEmptyDoes
       DEF engineVars, clusterVars, Gone
  <2> QED
    BY <2>0, <2>1, ArchiveQuiet
<1>3. ASSUME NEW i \in 1..Len(tasks), TaskEnds(i) PROVE ArchiveInv'
  BY <1>3, TaskEndsArchive
<1>4. CASE (\E p \in Scheduled : ComesDue(p)) \/ UNCHANGED vars
  <2>1. UNCHANGED <<tasks, archives, inFlight, active, pc, loc>>
    BY <1>4 DEF ComesDue, vars, engineVars, clusterVars
  <2> QED
    BY <2>1 DEF ArchiveInv, TasksArchived, SlotTask, PollTask, PruneArchived, SuccessHasArchive, ActivePolicies
<1>5. CASE Restart
  <2>1. /\ active' = [p \in Policies |-> None] /\ inFlight' = None /\ UNCHANGED <<tasks, archives>>
        /\ \A t \in Ticks : pc'[t] \in {"done", "idle"}
    BY <1>5 DEF Restart, clusterVars, Actors
  <2> QED
    BY <2>1 DEF ArchiveInv, TasksArchived, SlotTask, PollTask, PruneArchived, SuccessHasArchive, ActivePolicies
<1> QED
  BY <1>1, <1>2, <1>3, <1>4, <1>5 DEF Next

LEMMA Archived == Spec => []ArchiveInv
BY InitArchive, ArchiveStep, Typed, PTL DEF Spec

(* A guest that an active run reports as backed up has an archive: the retention that
   follows a backup never deletes it. *)
THEOREM SuccessesHaveArchives == Spec => []SuccessHasArchive
<1>1. ArchiveInv => SuccessHasArchive
  BY DEF ArchiveInv
<1> QED
  BY <1>1, Archived, PTL

-----------------------------------------------------------------------------
(* The slot *)

(* Ticks that overlap free each other's slot: what follows is about a tick that is alone,
   as it is while no tick takes longer than the interval. *)
OneTick == \A t, u \in Ticks : t = u

Holds(t) ==
  /\ inFlight # None /\ inFlight.policy = loc[t].policy
  /\ inFlight.guest = loc[t].guest /\ inFlight.task = loc[t].task
SlotOf(t) ==
  /\ pc[t] \in Ending \cup {"trigger"} => inFlight = None
  /\ pc[t] \in Polling => Holds(t)
  /\ pc[t] \in Polling \ {"snapshot"} => Ended(tasks[loc[t].task].state)

RunningInSlot ==
  \A i \in 1..Len(tasks) : tasks[i].state = "running" /\ tasks[i].run > before =>
    inFlight # None /\ inFlight.task = i
SlotMarked == backingUp = IF inFlight = None THEN {} ELSE {inFlight.guest}

(* A backup that runs is the one in the slot; a tick that polls works on the slot, and
   one that ends a run or starts a backup has found it free. *)
SlotInv == (\A t \in Ticks : SlotOf(t)) /\ RunningInSlot /\ SlotMarked

LEMMA SlotStays ==
  ASSUME SlotInv, UNCHANGED <<inFlight, backingUp, tasks, before>>,
         \A t \in Ticks :
           \/ pc'[t] = pc[t] /\ loc'[t] = loc[t]
           \/ pc'[t] \notin Polling \cup Ending \cup {"trigger"}
           \/ pc'[t] \in Ending \cup {"trigger"} /\ inFlight = None
           \/ /\ pc'[t] \in Polling /\ pc[t] \in Polling
              /\ loc'[t].policy = loc[t].policy /\ loc'[t].guest = loc[t].guest
              /\ loc'[t].task = loc[t].task /\ Ended(tasks[loc[t].task].state)
  PROVE  SlotInv'
<1>1. RunningInSlot' /\ SlotMarked'
  BY DEF SlotInv, RunningInSlot, SlotMarked
<1>2. ASSUME NEW t \in Ticks PROVE SlotOf(t)'
  <2>1. SlotOf(t)
    BY DEF SlotInv
  <2>2. CASE pc'[t] = pc[t] /\ loc'[t] = loc[t]
    BY <2>1, <2>2 DEF SlotOf, Holds
  <2>3. CASE pc'[t] \notin Polling \cup Ending \cup {"trigger"}
    BY <2>3 DEF SlotOf
  <2>4. CASE pc'[t] \in Ending \cup {"trigger"} /\ inFlight = None
    BY <2>4 DEF SlotOf, Polling, Ending
  <2>5. CASE /\ pc'[t] \in Polling /\ pc[t] \in Polling
             /\ loc'[t].policy = loc[t].policy /\ loc'[t].guest = loc[t].guest
             /\ loc'[t].task = loc[t].task /\ Ended(tasks[loc[t].task].state)
    BY <2>1, <2>5 DEF SlotOf, Holds, Polling, Ending
  <2> QED
    BY <2>2, <2>3, <2>4, <2>5
<1> QED
  BY <1>1, <1>2 DEF SlotInv

LEMMA InitSlot == Init => SlotInv
BY DEF Init, SlotInv, SlotOf, RunningInSlot, SlotMarked, Polling, Ending, Actors

(* The tick frees the slot, once its backup has ended. *)
LEMMA SlotFreed ==
  ASSUME TypeInv, SlotInv, OneTick, NEW t \in Ticks, pc[t] \in Polling,
         Ended(tasks[loc[t].task].state), pc'[t] = "advance",
         inFlight' = None, backingUp' = backingUp \ {loc[t].guest}, UNCHANGED <<tasks, before>>
  PROVE  SlotInv'
<1>1. Holds(t)
  BY DEF SlotInv, SlotOf
<1>2. RunningInSlot'
  BY <1>1 DEF SlotInv, RunningInSlot, Holds, Ended
<1>3. SlotMarked'
  BY <1>1 DEF SlotInv, SlotMarked, Holds
<1>4. \A u \in Ticks : SlotOf(u)'
  BY DEF OneTick, SlotOf, Polling, Ending
<1> QED
  BY <1>2, <1>3, <1>4 DEF SlotInv

LEMMA SlotStep == SlotInv /\ TypeInv /\ OneTick /\ [Next]_vars => SlotInv'
<1> SUFFICES ASSUME SlotInv, TypeInv, OneTick, [Next]_vars PROVE SlotInv'
  OBVIOUS
<1>1. ASSUME NEW t \in Ticks, TickStart(t) \/ TickGoesOn(t) PROVE SlotInv'
  <2>0. t \in Actors /\ (\A u \in Ticks : u = t) /\ SlotOf(t)
    BY DEF Actors, OneTick, SlotInv
  <2>1. CASE TickStart(t)
    <3>1. /\ UNCHANGED <<inFlight, backingUp, tasks, before>>
          /\ \/ pc'[t] = "advance"
             \/ /\ pc'[t] = "snapshot" /\ inFlight # None /\ loc'[t].policy = inFlight.policy
                /\ loc'[t].guest = inFlight.guest /\ loc'[t].task = inFlight.task
      BY <2>1, TickStartDoes DEF engineVars, clusterVars
    <3>2. SlotOf(t)'
      BY <3>1 DEF SlotOf, Holds, Polling, Ending
    <3> QED
      BY <2>0, <3>1, <3>2 DEF SlotInv, RunningInSlot, SlotMarked
  <2>2. CASE Snapshot(t)
    <3>1. /\ pc[t] = "snapshot" /\ Ended(tasks[loc[t].task].state) /\ UNCHANGED <<tasks, before>>
          /\ \/ /\ pc'[t] = "advance" /\ inFlight' = None
                /\ backingUp' = backingUp \ {loc[t].guest}
             \/ /\ pc'[t] \in {"prune", "update"} /\ UNCHANGED <<inFlight, backingUp>>
                /\ loc'[t].policy = loc[t].policy /\ loc'[t].guest = loc[t].guest /\ loc'[t].task = loc[t].task
      BY <2>2, SnapshotDoes DEF clusterVars
    <3> QED
      BY <2>0, <3>1, SlotFreed, SlotStays DEF Polling
  <2>3. CASE SnapshotIdle(t)
    <3>1. pc'[t] = "advance" /\ UNCHANGED <<inFlight, backingUp, tasks, before>>
      BY <2>3, SnapshotIdleDoes DEF engineVars, clusterVars
    <3> QED
      BY <2>0, <3>1, SlotStays DEF Polling, Ending
  <2>4. CASE Prune(t) \/ Update(t) \/ UpdateWrite(t)
    <3>1. /\ pc[t] \in Polling \ {"snapshot"} /\ UNCHANGED <<inFlight, backingUp, tasks, before>>
          /\ \/ pc'[t] = "advance"
             \/ /\ pc'[t] \in Polling /\ loc'[t].policy = loc[t].policy
                /\ loc'[t].guest = loc[t].guest /\ loc'[t].task = loc[t].task
      BY <2>4, PruneDoes, UpdateDoes, UpdateWriteDoes DEF engineVars, clusterVars, Keeps, Polling
    <3>2. Ended(tasks[loc[t].task].state)
      BY <2>0, <3>1 DEF SlotOf
    <3> QED
      BY <2>0, <3>1, <3>2, SlotStays DEF Polling, Ending
  <2>5. CASE Clear(t)
    <3>1. /\ pc[t] = "clear" /\ pc'[t] = "advance" /\ inFlight' = None
          /\ backingUp' = backingUp \ {loc[t].guest} /\ UNCHANGED <<tasks, before>>
      BY <2>5, ClearDoes DEF clusterVars
    <3> QED
      BY <2>0, <3>1, SlotFreed DEF SlotOf, Polling
  <2>6. CASE Advance(t)
    <3>1. /\ UNCHANGED <<inFlight, backingUp, tasks, before>>
          /\ pc'[t] = "list" \/ (inFlight = None /\ pc'[t] \in {"list", "finalize", "trigger"})
      BY <2>6, AdvanceDoes DEF engineVars, clusterVars, Looped
    <3> QED
      BY <2>0, <3>1, SlotStays DEF Polling, Ending
  <2>7. CASE Trigger(t)
    <3> DEFINE n == Len(tasks) + 1
    <3>1. /\ pc[t] = "trigger" /\ pc'[t] = "list" /\ UNCHANGED before
          /\ Len(tasks') = n /\ \A i \in 1..Len(tasks) : tasks'[i] = tasks[i]
          /\ inFlight' # None /\ inFlight'.guest = loc[t].guest /\ inFlight'.task = n
          /\ backingUp' = backingUp \cup {loc[t].guest} /\ Len(tasks) \in Nat
      BY <2>7, TriggerDoes DEF TypeInv, TypeOK
    <3>2. inFlight = None
      BY <2>0, <3>1 DEF SlotOf
    <3>3. RunningInSlot' /\ SlotMarked'
      BY <3>1, <3>2 DEF SlotInv, RunningInSlot, SlotMarked
    <3>4. SlotOf(t)'
      BY <3>1 DEF SlotOf, Polling, Ending
    <3> QED
      BY <2>0, <3>3, <3>4 DEF SlotInv
  <2>8. CASE TriggerFails(t) \/ List(t) \/ Start(t) \/ Create(t) \/ CreateFails(t) \/ EndEmpty(t)
    <3>1. /\ UNCHANGED <<inFlight, backingUp, tasks, before>>
          /\ pc'[t] \notin Polling \cup Ending \cup {"trigger"}
      BY <2>0, <2>8, TriggerFailsDoes, ListDoes, StartDoes, CreateDoes, CreateFailsDoes, EndEmptyDoes
         DEF engineVars, clusterVars, Gone, Polling, Ending
    <3> QED
      BY <2>0, <3>1, SlotStays
  <2>9. CASE Finalize(t) \/ FinalizeWrite(t) \/ Mark(t) \/ Delete(t)
    <3>1. /\ pc[t] \in Ending /\ UNCHANGED <<inFlight, backingUp, tasks, before>>
          /\ pc'[t] \in Ending \cup {"trigger", "idle", "list"}
      BY <2>9, FinalizeDoes, FinalizeWriteDoes, MarkDoes, DeleteDoes DEF engineVars, clusterVars, Looped, Ending
    <3>2. inFlight = None
      BY <2>0, <3>1 DEF SlotOf
    <3> QED
      BY <2>0, <3>1, <3>2, SlotStays DEF Polling, Ending
  <2> QED
    BY <1>1, <2>1, <2>2, <2>3, <2>4, <2>5, <2>6, <2>7, <2>8, <2>9 DEF TickGoesOn
<1>2. ASSUME NEW m \in Manuals, Manual(m) \/ ManualStart(m) \/ Create(m) \/ CreateFails(m) \/ EndEmpty(m)
      PROVE  SlotInv'
  <2>1. m \in Actors /\ m \notin Ticks
    BY BackupAssumption DEF Actors
  <2>2. Others(m) /\ UNCHANGED <<inFlight, backingUp, tasks, before>>
    BY <1>2, <2>1, ManualDoes, ManualStartDoes, CreateDoes, CreateFailsDoes, EndEmptyDoes
       DEF engineVars, clusterVars
  <2> QED
    BY <2>1, <2>2, OtherStays, SlotStays
<1>3. ASSUME NEW i \in 1..Len(tasks), TaskEnds(i) PROVE SlotInv'
  <2>1. /\ Len(tasks') = Len(tasks) /\ \A j \in 1..Len(tasks) : j # i => tasks'[j] = tasks[j]
        /\ Ended(tasks'[i].state) /\ UNCHANGED <<inFlight, backingUp, pc, loc, before>>
    BY <1>3, TaskEnded DEF engineVars
  <2>2. RunningInSlot' /\ SlotMarked'
    BY <2>1 DEF SlotInv, RunningInSlot, SlotMarked, Ended
  <2>3. ASSUME NEW t \in Ticks PROVE SlotOf(t)'
    <3>1. pc[t] \in Polling => loc[t].task \in 1..Len(tasks)
      BY PolledLocals
    <3>2. SlotOf(t)
      BY DEF SlotInv
    <3> QED
      BY <2>1, <3>1, <3>2 DEF SlotOf, Holds
  <2> QED
    BY <2>2, <2>3 DEF SlotInv
<1>4. CASE (\E p \in Scheduled : ComesDue(p)) \/ UNCHANGED vars
  <2>1. UNCHANGED <<inFlight, backingUp, tasks, before, pc, loc>>
    BY <1>4 DEF ComesDue, vars, engineVars, clusterVars
  <2> QED
    BY <2>1, SlotStays
<1>5. CASE Restart
  <2>1. /\ inFlight' = None /\ backingUp' = {} /\ before' = lastRun /\ UNCHANGED tasks
        /\ \A t \in Ticks : pc'[t] \in {"done", "idle"}
    BY <1>5 DEF Restart, clusterVars, Actors
  <2>2. \A i \in 1..Len(tasks) : tasks[i].run \in 0..lastRun /\ lastRun \in Nat
    BY TaskTypes DEF Runs, TypeInv, TypeOK
  <2>3. RunningInSlot'
    BY <2>1, <2>2 DEF RunningInSlot
  <2>4. SlotMarked' /\ \A t \in Ticks : SlotOf(t)'
    BY <2>1 DEF SlotMarked, SlotOf, Polling, Ending
  <2> QED
    BY <2>3, <2>4 DEF SlotInv
<1> QED
  BY <1>1, <1>2, <1>3, <1>4, <1>5 DEF Next

LEMMA OneSlot == ASSUME OneTick PROVE Spec => []SlotInv
BY InitSlot, SlotStep, Typed, PTL DEF Spec

(* While the ticks do not overlap, the engine runs one backup at a time. *)
THEOREM OneBackup == ASSUME OneTick PROVE Spec => []OneBackupAtATime
<1>1. SlotInv => OneBackupAtATime
  BY DEF SlotInv, RunningInSlot, OneBackupAtATime
<1> QED
  BY <1>1, OneSlot, PTL
=============================================================================
