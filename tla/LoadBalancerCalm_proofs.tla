----------------------- MODULE LoadBalancerCalm_proofs -----------------------
(***************************************************************************)
(* The balancer when nothing disturbs its ticks: no tick times out, the    *)
(* process does not restart, the site stays enabled, an active plan is not *)
(* cancelled, no reply is lost, no write fails, no migration outlasts an   *)
(* hour.  Then, for every number of guests, nodes, tasks and ticks: the    *)
(* concurrency cap holds, and the outcome of a move is final, also when    *)
(* guests are moved by others and migrations end with warnings; and if     *)
(* none ends with warnings, every move is reported as its migration ended, *)
(* and the stored plan and the tasks run for it are a behaviour of         *)
(* RebalancePlan.                                                          *)
(***************************************************************************)
EXTENDS LoadBalancer_proofs, LoadBalancerRefinement

-----------------------------------------------------------------------------
(* The disturbances the cap withstands. *)
Benign == {"warnings", "drift"}

Busy(t) == pc[t] # "idle"
Stepping(t) == pc[t] \in {"pollmoves", "save", "complete"}

Upids(ms) == {ms[i].upid : i \in Migrating(ms)}

(* Nothing disturbs the ticks, so they do not overlap, and all of them count in the same
   SiteState. *)
OneTick ==
  /\ Faults \subseteq Benign /\ enabled
  /\ \A t \in Ticks : Busy(t) => owner = t /\ present /\ site[t] = gen
  /\ ~present => Running = {} /\ \A s \in Gens : pending[s] = {}

(* A request on a plan waits only while no plan is active, and a plan that is not
   applied yet has no migrating move. *)
RequestsWait ==
  /\ request # NoRequest => ~PlanRuns(plan) /\ request.kind # "cancel"
  /\ plan.status = "draft" => Migrating(plan.moves) = {}

(* The plan does not change behind the tick that executes it: the tick's copy is the
   stored plan, but for the move it is about to save. *)
CopyCurrentAt(t) ==
  /\ pc[t] \in {"pollmoves", "complete"} => plan = copy[t] /\ PlanRuns(plan)
  /\ pc[t] = "complete" => Migrating(copy[t].moves) = {}
  /\ pc[t] = "save" =>
       /\ plan.id = copy[t].id /\ PlanRuns(plan) /\ PlanRuns(copy[t])
       /\ DOMAIN plan.moves = DOMAIN copy[t].moves
       /\ \A i \in DOMAIN copy[t].moves :
            copy[t].moves[i] = IF i = cur[t] THEN SavedMove(plan.moves[i], copy[t].moves[i])
                                             ELSE plan.moves[i]
CopyCurrent == \A t \in Ticks : CopyCurrentAt(t)

(* Every running migration is one that the tick counts, or the next tick will. *)
AllCounted ==
  /\ (\A t \in Ticks : ~Stepping(t)) => Running \subseteq pending[gen] \cup PlanUpids
  /\ \A t \in Ticks : Stepping(t) => Running \subseteq pending[gen] \cup Upids(copy[t].moves)

(* What a tick has counted bounds what runs, until it has fired its decisions. *)
CountsBoundAt(t) ==
  /\ Stepping(t) \/ pc[t] \in {"read", "decide"} => active[t] = Cardinality(pending[gen])
  /\ pc[t] = "complete" => moving[t] = 0
  /\ pc[t] = "save" => moving[t] = Cardinality(Migrating(copy[t].moves))
  /\ pc[t] = "decide" =>
       moving[t] >= IF PlanRuns(plan) THEN Cardinality(Migrating(plan.moves)) ELSE 0
  /\ pc[t] = "fire" => /\ IsFiniteSet(decisions[t])
                       /\ Cardinality(Running) + Cardinality(decisions[t]) <= MaxConcurrent
CountsBound == \A t \in Ticks : CountsBoundAt(t)

CapParts == OneTick /\ RequestsWait /\ CopyCurrent /\ AllCounted /\ CountsBound /\ Cap

CapInv == TypeInv /\ CapParts

-----------------------------------------------------------------------------
(* Counting *)

LEMMA UpidsCard ==
  ASSUME NEW ms \in Moves
  PROVE  IsFiniteSet(Upids(ms)) /\ Cardinality(Upids(ms)) <= Cardinality(Migrating(ms))
<1> DEFINE f == [i \in Migrating(ms) |-> ms[i].upid]
<1>1. f \in Surjection(Migrating(ms), Upids(ms))
  BY DEF Surjection, Upids
<1> QED
  BY <1>1, MigratingFinite, FS_Surjection

(* Tasks that are pending or named by a migrating move are no more than both together. *)
LEMMA CountedCard ==
  ASSUME NEW P \in SUBSET Tasks, NEW ms \in Moves, NEW R,
         R \subseteq P \cup Upids(ms)
  PROVE  /\ IsFiniteSet(R) /\ Cardinality(R) \in Nat
         /\ Cardinality(R) <= Cardinality(P) + Cardinality(Migrating(ms))
<1>1. IsFiniteSet(P) /\ Cardinality(P) \in Nat
  BY PendingCount
<1>2. /\ IsFiniteSet(Upids(ms)) /\ Cardinality(Upids(ms)) <= Cardinality(Migrating(ms))
      /\ Cardinality(Migrating(ms)) \in Nat /\ Cardinality(Upids(ms)) \in Nat
  BY UpidsCard, MigratingFinite, FS_CardinalityType
<1>3. IsFiniteSet(P \cap Upids(ms)) /\ Cardinality(P \cap Upids(ms)) \in Nat
  BY <1>1, FS_Subset, FS_CardinalityType
<1>4. IsFiniteSet(P \cup Upids(ms))
      /\ Cardinality(P \cup Upids(ms)) =
           Cardinality(P) + Cardinality(Upids(ms)) - Cardinality(P \cap Upids(ms))
  BY <1>1, <1>2, FS_Union
<1>5. IsFiniteSet(R) /\ Cardinality(R) <= Cardinality(P \cup Upids(ms))
  BY <1>4, FS_Subset
<1>6. Cardinality(R) \in Nat /\ Cardinality(P \cup Upids(ms)) \in Nat
  BY <1>4, <1>5, FS_CardinalityType
<1> QED
  BY <1>1, <1>2, <1>3, <1>4, <1>5, <1>6

LEMMA RunningCard == IsFiniteSet(Running) /\ Cardinality(Running) \in Nat
BY PendingCount DEF Running

(* Starting a task makes one more migration run. *)
LEMMA RunningStarts ==
  ASSUME task \in [Tasks -> TaskRec], NEW k \in Tasks, NEW g, NEW dst, NEW p,
         StartTask(k, g, dst, p)
  PROVE  Running' = Running \cup {k} /\ Cardinality(Running') = Cardinality(Running) + 1
<1>1. k \notin Running /\ Running' = Running \cup {k}
  BY DEF StartTask, Running
<1> QED
  BY <1>1, RunningCard, FS_AddElement

-----------------------------------------------------------------------------
(* The busy tick is alone: only its own part of the invariant can be disturbed. *)

LEMMA Alone ==
  ASSUME CapInv, NEW t \in Ticks, Busy(t)
  PROVE  /\ owner = t /\ present /\ enabled /\ site[t] = gen /\ gen \in Gens
         /\ pending[gen] \in SUBSET Tasks
         /\ \A s \in Ticks \ {t} : pc[s] = "idle"
         /\ \A f : f \notin Benign => ~Disturb(f)
BY DEF CapInv, CapParts, OneTick, Busy, TypeInv, TypeOK, Disturb

LEMMA CapLocal ==
  ASSUME CapInv, NEW t \in Ticks, Busy(t),
         \A s \in Ticks \ {t} : pc'[s] = pc[s],
         UNCHANGED <<enabled, present, gen>>,
         Busy(t)' => owner' = owner /\ site'[t] = site[t],
         RequestsWait', CopyCurrentAt(t)', CountsBoundAt(t)', Cap',
         Running' \subseteq pending'[gen] \cup
                              (IF Stepping(t)' THEN Upids(copy'[t].moves) ELSE PlanUpids')
  PROVE  CapParts'
<1>1. /\ owner = t /\ present /\ enabled /\ site[t] = gen
      /\ \A s \in Ticks \ {t} : pc'[s] = "idle"
      /\ Faults \subseteq Benign
  BY Alone DEF CapInv, CapParts, OneTick
<1>2. OneTick'
  BY <1>1 DEF OneTick, Busy
<1>3. CopyCurrent'
  <2>1. \A s \in Ticks \ {t} : CopyCurrentAt(s)'
    BY <1>1 DEF CopyCurrentAt
  <2> QED
    BY <2>1 DEF CopyCurrent
<1>4. CountsBound'
  <2>1. \A s \in Ticks \ {t} : CountsBoundAt(s)'
    BY <1>1 DEF CountsBoundAt, Stepping
  <2> QED
    BY <2>1 DEF CountsBound
<1>5. AllCounted'
  <2>1. \A s \in Ticks \ {t} : ~Stepping(s)'
    BY <1>1 DEF Stepping
  <2> QED
    BY <2>1 DEF AllCounted
<1> QED
  BY <1>2, <1>3, <1>4, <1>5 DEF CapParts

(* What the busy tick knows of the running migrations. *)
LEMMA TickCounts ==
  ASSUME CapInv, NEW t \in Ticks, Busy(t)
  PROVE  /\ ~Stepping(t) => Running \subseteq pending[gen] \cup PlanUpids
         /\ Stepping(t) => Running \subseteq pending[gen] \cup Upids(copy[t].moves)
         /\ CopyCurrentAt(t) /\ CountsBoundAt(t) /\ Cap /\ RequestsWait
<1>1. \A s \in Ticks \ {t} : ~Stepping(s)
  BY Alone DEF Stepping
<1> QED
  BY <1>1 DEF CapInv, CapParts, AllCounted, CopyCurrent, CountsBound

-----------------------------------------------------------------------------
LEMMA CapInit == Faults \subseteq Benign /\ Init => CapInv
<1> SUFFICES ASSUME Faults \subseteq Benign, Init PROVE CapInv
  OBVIOUS
<1>1. Running = {} /\ Cardinality(Running) = 0
  BY FS_EmptySet DEF Init, Running
<1>2. Cap
  BY <1>1, LBAssumption DEF Cap
<1>3. OneTick
  BY <1>1 DEF Init, OneTick, Busy
<1>4. RequestsWait /\ CopyCurrent
  BY DEF Init, RequestsWait, CopyCurrent, CopyCurrentAt, NoPlan
<1>5. AllCounted /\ CountsBound
  BY <1>1 DEF Init, AllCounted, CountsBound, CountsBoundAt, Stepping
<1> QED
  BY <1>2, <1>3, <1>4, <1>5, TypeInit DEF CapInv, CapParts

(* A tick begins when no other is busy. *)
LEMMA CapBegins ==
  ASSUME CapInv, NEW t \in Ticks, TickBegins(t)
  PROVE  CapParts'
<1> USE DEF proxmoxVars
<1>1. /\ \A s \in Ticks : pc[s] = "idle"
      /\ Faults \subseteq Benign /\ enabled /\ owner = NoTick
      /\ ~present => Running = {} /\ \A s \in Gens : pending[s] = {}
      /\ Running \subseteq pending[gen] \cup PlanUpids
  BY LBAssumption
  DEF TickBegins, CapInv, CapParts, OneTick, AllCounted, Busy, Stepping
<1>2. /\ pc' = [pc EXCEPT ![t] = "fetch"] /\ owner' = t /\ present' = TRUE
      /\ site' = [site EXCEPT ![t] = gen'] /\ gen' \in Gens
      /\ UNCHANGED <<task, plan, enabled, pending, request, copy>>
      /\ present => gen' = gen
  BY TypeNext DEF TickBegins, CapInv, TypeInv, TypeOK, Next
<1>3. pc \in [Ticks -> TickPc] /\ site \in [Ticks -> Gens]
  BY DEF CapInv, TypeInv, TypeOK
<1>4. OneTick'
  BY <1>1, <1>2, <1>3 DEF OneTick, Busy
<1>5. RequestsWait' /\ Cap'
  BY <1>2 DEF CapInv, CapParts, RequestsWait, Cap, Running, Migrating
<1>6. CopyCurrent' /\ CountsBound'
  BY <1>1, <1>2, <1>3 DEF CopyCurrent, CopyCurrentAt, CountsBound, CountsBoundAt, Stepping
<1>7. AllCounted'
  <2>1. Running' = Running /\ PlanUpids' = PlanUpids
    BY <1>2 DEF Running, PlanUpids
  <2>2. \A s \in Ticks : ~Stepping(s)'
    BY <1>1, <1>2, <1>3 DEF Stepping
  <2> QED
    BY <1>1, <1>2, <2>1, <2>2 DEF AllCounted
<1> QED
  BY <1>4, <1>5, <1>6, <1>7 DEF CapParts

(* A step that changes neither tasks, plan nor requests keeps what depends on them only. *)
LEMMA Same ==
  ASSUME CapInv, UNCHANGED <<task, plan, request>>
  PROVE  Running' = Running /\ PlanUpids' = PlanUpids /\ Cap' /\ RequestsWait'
<1>1. Running' = Running /\ PlanUpids' = PlanUpids
  BY DEF Running, PlanUpids
<1> QED
  BY <1>1 DEF CapInv, CapParts, Cap, RequestsWait

(* Up to its count of the pending migrations a tick only learns what ended. *)
LEMMA CapCounts ==
  ASSUME CapInv, NEW t \in Ticks,
         \/ Fetch(t) \/ FetchFails(t) \/ MetricsFail(t)
         \/ (\E k \in Tasks : PollPending(t, k)) \/ CountPending(t) \/ PlanRead(t)
  PROVE  CapParts'
<1> USE DEF proxmoxVars, siteVars, locals
<1>0. /\ pc \in [Ticks -> TickPc] /\ pending \in [Gens -> SUBSET Tasks]
      /\ active \in [Ticks -> Nat] /\ moving \in [Ticks -> Nat] /\ copy \in [Ticks -> Plan]
      /\ plan \in Plan
  BY DEF CapInv, TypeInv, TypeOK
<1>1. Busy(t) /\ ~Stepping(t)
  BY DEF Fetch, FetchFails, MetricsFail, PollPending, CountPending, PlanRead, Busy, Stepping
<1>2. /\ site[t] = gen /\ gen \in Gens /\ Running \subseteq pending[gen] \cup PlanUpids
  BY <1>1, Alone, TickCounts
<1>3. UNCHANGED <<task, plan, request, enabled, present, gen>>
  BY DEF Fetch, FetchFails, MetricsFail, PollPending, CountPending, PlanRead
<1>4. Running' = Running /\ PlanUpids' = PlanUpids /\ Cap' /\ RequestsWait'
  BY <1>3, Same
<1>5. CASE Fetch(t) \/ FetchFails(t)
  <2>1. /\ pc' = [pc EXCEPT ![t] = "poll"] /\ UNCHANGED <<owner, site, pending>>
    BY <1>5 DEF Fetch, FetchFails
  <2>2. pc'[t] = "poll" /\ \A s \in Ticks \ {t} : pc'[s] = pc[s]
    BY <1>0, <2>1
  <2>3. CopyCurrentAt(t)' /\ CountsBoundAt(t)' /\ ~Stepping(t)'
    BY <2>2 DEF CopyCurrentAt, CountsBoundAt, Stepping
  <2> QED
    BY <1>1, <1>2, <1>3, <1>4, <2>1, <2>2, <2>3, CapLocal
<1>6. CASE MetricsFail(t)
  <2>1. pc'[t] = "idle" /\ \A s \in Ticks \ {t} : pc'[s] = pc[s]
    BY <1>0, <1>6 DEF MetricsFail, Leave
  <2>2. CopyCurrentAt(t)' /\ CountsBoundAt(t)' /\ ~Stepping(t)' /\ ~Busy(t)'
    BY <2>1 DEF CopyCurrentAt, CountsBoundAt, Stepping, Busy
  <2> QED
    BY <1>1, <1>2, <1>3, <1>4, <1>6, <2>1, <2>2, CapLocal DEF MetricsFail
<1>7. CASE \E k \in Tasks : PollPending(t, k)
  <2>1. PICK k \in Tasks : PollPending(t, k)
    BY <1>7
  <2>2. pc[t] = "poll" /\ UNCHANGED <<owner, pc, site>> /\ k \notin Running
        /\ pending' = [pending EXCEPT ![gen] = @ \ {k}]
    BY <1>2, <2>1 DEF PollPending, Finished, Running
  <2>3. CopyCurrentAt(t)' /\ CountsBoundAt(t)' /\ ~Stepping(t)'
    BY <2>2 DEF CopyCurrentAt, CountsBoundAt, Stepping
  <2>4. Running' \subseteq pending'[gen] \cup PlanUpids'
    BY <1>0, <1>2, <1>4, <2>2
  <2> QED
    BY <1>1, <1>3, <1>4, <2>2, <2>3, <2>4, CapLocal
<1>8. CASE CountPending(t)
  <2>1. /\ active'[t] = Cardinality(pending[gen]) /\ pc'[t] \in {"end", "read"}
        /\ \A s \in Ticks \ {t} : pc'[s] = pc[s]
        /\ UNCHANGED <<owner, site, pending>>
    BY <1>0, <1>2, <1>8 DEF CountPending
  <2>2. CopyCurrentAt(t)' /\ ~Stepping(t)'
    BY <2>1 DEF CopyCurrentAt, Stepping
  <2>3. CountsBoundAt(t)'
    BY <1>3, <2>1 DEF CountsBoundAt, Stepping
  <2> QED
    BY <1>1, <1>2, <1>3, <1>4, <2>1, <2>2, <2>3, CapLocal
<1>9. CASE PlanRead(t)
  <2>1. /\ pc[t] = "read" /\ UNCHANGED <<owner, site, pending, active, moving>>
        /\ active[t] = Cardinality(pending[gen])
    BY <1>1, <1>9, TickCounts DEF PlanRead, CountsBoundAt
  <2>2. CASE PlanRuns(plan)
    <3>1. copy'[t] = plan /\ pc'[t] = "pollmoves" /\ \A s \in Ticks \ {t} : pc'[s] = pc[s]
      BY <1>0, <1>9, <2>2 DEF PlanRead
    <3>2. CopyCurrentAt(t)' /\ Stepping(t)'
      BY <1>3, <2>2, <3>1 DEF CopyCurrentAt, Stepping, PlanRuns
    <3>3. CountsBoundAt(t)'
      BY <1>3, <2>1, <3>1 DEF CountsBoundAt
    <3>4. PlanUpids = Upids(copy'[t].moves)
      BY <2>2, <3>1 DEF PlanUpids, Upids
    <3> QED
      BY <1>1, <1>2, <1>3, <1>4, <2>1, <3>1, <3>2, <3>3, <3>4, CapLocal
  <2>3. CASE ~PlanRuns(plan)
    <3>1. pc'[t] = "decide" /\ \A s \in Ticks \ {t} : pc'[s] = pc[s]
      BY <1>0, <1>9, <2>3 DEF PlanRead
    <3>2. CopyCurrentAt(t)' /\ ~Stepping(t)'
      BY <3>1 DEF CopyCurrentAt, Stepping
    <3>3. ~PlanRuns(plan')
      BY <1>3, <2>3
    <3>4. moving'[t] \in Nat /\ active'[t] = active[t] /\ pending'[gen'] = pending[gen]
      BY <1>0, <1>3, <2>1
    <3>5. CountsBoundAt(t)'
      BY <2>1, <3>1, <3>3, <3>4 DEF CountsBoundAt
    <3> QED
      BY <1>1, <1>2, <1>3, <1>4, <2>1, <3>1, <3>2, <3>5, CapLocal
  <2> QED
    BY <2>2, <2>3
<1> QED
  BY <1>5, <1>6, <1>7, <1>8, <1>9

(* A move is its fields. *)
LEMMA MoveExt ==
  ASSUME NEW a \in Move, NEW b \in Move, a.guest = b.guest, a.src = b.src, a.dst = b.dst,
         a.st = b.st, a.upid = b.upid
  PROVE  a = b
BY DEF Move

(* The loop over the migrating moves: the stored plan follows the tick's copy. *)
LEMMA CapPolls ==
  ASSUME CapInv, NEW t \in Ticks, NEW i \in DOMAIN copy[t].moves, PlanPoll(t, i)
  PROVE  CapParts'
<1> USE DEF proxmoxVars, siteVars
<1>0. /\ pc \in [Ticks -> TickPc] /\ copy \in [Ticks -> Plan] /\ TypeInv
      /\ copy[t] \in Plan /\ copy[t].moves \in Moves
  BY DEF CapInv, TypeInv, TypeOK, Plan
<1>1. Busy(t) /\ Stepping(t) /\ pc[t] = "pollmoves"
  BY DEF PlanPoll, Busy, Stepping
<1>2. /\ plan = copy[t] /\ PlanRuns(plan)
      /\ Running \subseteq pending[gen] \cup Upids(copy[t].moves)
      /\ CountsBoundAt(t) /\ Cap /\ RequestsWait
  BY <1>1, TickCounts DEF CopyCurrentAt
<1> DEFINE old == copy[t].moves[i]
           m   == PolledMove(old)
<1>3. /\ old \in Move /\ old.st = "migrating" /\ old.upid \notin Running
  BY <1>0, CopyFacts DEF PlanPoll, Migrating, Finished, Running
<1>4. /\ m \in Move /\ m.st \in {"done", "failed"} /\ m.guest = old.guest /\ m.src = old.src
      /\ m.dst = old.dst /\ m.upid = old.upid
  BY <1>3 DEF PolledMove, Move, MoveStatus
<1>5. SavedMove(old, m) = m
  <2>1. /\ SavedMove(old, m) \in Move /\ SavedMove(old, m).guest = old.guest
        /\ SavedMove(old, m).src = old.src /\ SavedMove(old, m).dst = old.dst
        /\ SavedMove(old, m).st = m.st /\ SavedMove(old, m).upid = old.upid
    BY <1>3, <1>4 DEF SavedMove, Move
  <2> HIDE DEF m, old
  <2> QED
    BY <1>4, <2>1, MoveExt
<1>6. /\ UNCHANGED <<task, enabled, owner, present, gen, pending, request, pc, site>>
      /\ copy'[t] = [copy[t] EXCEPT !.moves = [@ EXCEPT ![i] = m]]
      /\ UpdateMove(copy[t].id, i, m)
  <2>1. ~Disturb("write")
    BY <1>1, Alone DEF Benign
  <2> QED
    BY <1>0, <2>1 DEF PlanPoll
<1>7. plan' = [plan EXCEPT !.moves = [@ EXCEPT ![i] = SavedMove(plan.moves[i], m)]]
  BY <1>2, <1>6 DEF UpdateMove
<1>8. plan' = copy'[t]
  BY <1>2, <1>5, <1>6, <1>7
<1> HIDE DEF m, old
<1>9. /\ copy'[t].status = copy[t].status /\ copy'[t].id = copy[t].id
      /\ DOMAIN copy'[t].moves = DOMAIN copy[t].moves
      /\ \A j \in DOMAIN copy[t].moves :
           copy'[t].moves[j] = IF j = i THEN m ELSE copy[t].moves[j]
  <2>1. copy'[t].moves = [copy[t].moves EXCEPT ![i] = m]
    BY <1>0, <1>6 DEF Plan
  <2> QED
    BY <1>0, <1>4, <1>6, <2>1, MovesExcept DEF Plan
<1>10. PlanRuns(plan)'
  BY <1>2, <1>8, <1>9 DEF PlanRuns
<1>11. Running' \subseteq pending'[gen] \cup Upids(copy'[t].moves)
  <2>1. ASSUME NEW k \in Upids(copy[t].moves), k \in Running PROVE k \in Upids(copy'[t].moves)
    <3>1. PICK j \in Migrating(copy[t].moves) : k = copy[t].moves[j].upid
      BY <2>1 DEF Upids
    <3>2. j # i
      BY <1>3, <2>1, <3>1 DEF old
    <3> QED
      BY <1>9, <3>1, <3>2 DEF Upids, Migrating
  <2> QED
    BY <1>2, <1>6, <2>1 DEF Running
<1>12. CopyCurrentAt(t)' /\ CountsBoundAt(t)' /\ Stepping(t)'
  <2>1. active' = active
    BY DEF PlanPoll
  <2> QED
    BY <1>1, <1>2, <1>6, <1>8, <1>10, <2>1 DEF CopyCurrentAt, CountsBoundAt, Stepping
<1>13. RequestsWait' /\ Cap'
  <2>1. plan'.status # "draft"
    BY <1>10 DEF PlanRuns
  <2> QED
    BY <1>2, <1>6, <2>1 DEF RequestsWait, Cap, Running
<1> QED
  BY <1>1, <1>6, <1>11, <1>12, <1>13, CapLocal

(* The plan step that starts nothing. *)
LEMMA CapIdles ==
  ASSUME CapInv, NEW t \in Ticks, PlanIdles(t)
  PROVE  CapParts'
<1> USE DEF proxmoxVars, siteVars
<1>0. /\ pc \in [Ticks -> TickPc] /\ moving \in [Ticks -> Nat] /\ copy[t].moves \in Moves
  BY DEF CapInv, TypeInv, TypeOK, Plan
<1>1. Busy(t) /\ Stepping(t) /\ pc[t] = "pollmoves"
  BY DEF PlanIdles, Busy, Stepping
<1>2. /\ plan = copy[t] /\ PlanRuns(plan)
      /\ Running \subseteq pending[gen] \cup Upids(copy[t].moves)
      /\ CountsBoundAt(t) /\ Cap /\ RequestsWait
  BY <1>1, TickCounts DEF CopyCurrentAt
<1>3. /\ UNCHANGED <<task, plan, enabled, owner, present, gen, pending, request, site, copy,
                     active>>
      /\ moving'[t] = Cardinality(Migrating(copy[t].moves))
      /\ pc'[t] = AfterStep(copy[t].moves) /\ \A s \in Ticks \ {t} : pc'[s] = pc[s]
  BY <1>0 DEF PlanIdles
<1>4. Running' = Running /\ PlanUpids' = PlanUpids /\ Cap' /\ RequestsWait'
  BY <1>3, Same
<1>5. PlanUpids = Upids(copy[t].moves)
  BY <1>2 DEF PlanUpids, Upids
<1>6. CASE Unresolved(copy[t].moves)
  <2>1. pc'[t] = "decide"
    BY <1>3, <1>6 DEF AfterStep
  <2>2. Cardinality(Migrating(copy[t].moves)) \in Nat
    BY <1>0, MigratingFinite
  <2>3. CopyCurrentAt(t)' /\ ~Stepping(t)'
    BY <2>1 DEF CopyCurrentAt, Stepping
  <2>4. CountsBoundAt(t)'
    BY <1>1, <1>2, <1>3, <2>1, <2>2 DEF CountsBoundAt
  <2> QED
    BY <1>1, <1>2, <1>3, <1>4, <1>5, <2>3, <2>4, CapLocal
<1>7. CASE ~Unresolved(copy[t].moves)
  <2>1. pc'[t] = "complete" /\ Migrating(copy[t].moves) = {}
    BY <1>3, <1>7 DEF AfterStep, Unresolved
  <2>2. moving'[t] = 0
    BY <1>3, <2>1, FS_EmptySet
  <2>3. CopyCurrentAt(t)' /\ Stepping(t)'
    BY <1>2, <1>3, <2>1 DEF CopyCurrentAt, Stepping, PlanRuns
  <2>4. CountsBoundAt(t)'
    BY <1>1, <1>2, <1>3, <2>1, <2>2 DEF CountsBoundAt
  <2> QED
    BY <1>1, <1>2, <1>3, <1>4, <2>3, <2>4, CapLocal
<1> QED
  BY <1>6, <1>7

(* The plan step that handles a queued move i: it becomes m, and is saved next. *)
LEMMA CapStepMove ==
  ASSUME CapInv, NEW t \in Ticks, MayStep(t), NEW i \in NextQueued(copy[t].moves),
         NEW m \in Move, NEW started \in BOOLEAN, StepMove(t, i, m, started),
         m.guest = copy[t].moves[i].guest, m.src = copy[t].moves[i].src,
         m.dst = copy[t].moves[i].dst,
         started => m.st = "migrating",
         ~started => m.st \in {"skipped", "failed"} /\ m.upid = copy[t].moves[i].upid,
         Running' = Running \cup (IF started THEN {m.upid} ELSE {}),
         Cap'
  PROVE  CapParts'
<1> USE DEF siteVars
<1> DEFINE ms == copy[t].moves
           ns == [ms EXCEPT ![i] = m]
<1>0. /\ pc \in [Ticks -> TickPc] /\ moving \in [Ticks -> Nat] /\ cur \in [Ticks -> Nat]
      /\ copy \in [Ticks -> Plan] /\ ms \in Moves /\ TypeInv
  BY DEF CapInv, TypeInv, TypeOK, Plan
<1>1. Busy(t) /\ Stepping(t) /\ pc[t] = "pollmoves"
  BY DEF MayStep, Busy, Stepping
<1>2. /\ plan = copy[t] /\ PlanRuns(plan)
      /\ Running \subseteq pending[gen] \cup Upids(ms)
      /\ CountsBoundAt(t) /\ RequestsWait
  BY <1>1, TickCounts DEF CopyCurrentAt
<1>3. i \in DOMAIN ms /\ ms[i] \in Move /\ ms[i].st = "queued"
  <2>1. i \in DOMAIN ms /\ ms[i].st = "queued"
    BY DEF NextQueued, Queued
  <2> QED
    BY <1>0, <2>1, CopyFacts
<1>4. SavedMove(ms[i], m) = m
  <2>1. /\ SavedMove(ms[i], m) \in Move /\ SavedMove(ms[i], m).guest = ms[i].guest
        /\ SavedMove(ms[i], m).src = ms[i].src /\ SavedMove(ms[i], m).dst = ms[i].dst
        /\ SavedMove(ms[i], m).st = m.st
        /\ SavedMove(ms[i], m).upid = IF m.st = "migrating" THEN m.upid ELSE ms[i].upid
    BY <1>3 DEF SavedMove, Move
  <2>2. SavedMove(ms[i], m).upid = m.upid
    BY <2>1
  <2> QED
    BY <2>1, <2>2, MoveExt
<1>5. /\ UNCHANGED <<plan, enabled, owner, present, gen, pending, request, site, active>>
      /\ pc'[t] = "save" /\ \A s \in Ticks \ {t} : pc'[s] = pc[s]
      /\ cur'[t] = i
      /\ moving'[t] = Cardinality(Migrating(ms)) + (IF started THEN 1 ELSE 0)
      /\ copy'[t] = [copy[t] EXCEPT !.moves = ns]
  BY <1>0 DEF StepMove
<1>6. /\ DOMAIN ns = DOMAIN ms
      /\ \A j \in DOMAIN ms : ns[j] = IF j = i THEN m ELSE ms[j]
  BY <1>0, <1>3, MovesExcept
<1>7. copy'[t].id = copy[t].id /\ copy'[t].status = copy[t].status /\ copy'[t].moves = ns
  BY <1>0, <1>5 DEF Plan
<1> HIDE DEF ns
<1>8. Migrating(ns) = Migrating(ms) \cup (IF started THEN {i} ELSE {})
  BY <1>3, <1>6 DEF Migrating
<1>9. Cardinality(Migrating(ns)) = Cardinality(Migrating(ms)) + (IF started THEN 1 ELSE 0)
  <2>1. IsFiniteSet(Migrating(ms)) /\ Cardinality(Migrating(ms)) \in Nat
    BY <1>0, MigratingFinite
  <2>2. i \notin Migrating(ms)
    BY <1>3 DEF Migrating
  <2>3. CASE started
    BY <1>8, <2>1, <2>2, <2>3, FS_AddElement
  <2>4. CASE ~started
    BY <1>8, <2>1, <2>4
  <2> QED
    BY <2>3, <2>4
<1>10. Upids(ms) \subseteq Upids(ns) /\ (started => m.upid \in Upids(ns))
  <2>1. \A j \in Migrating(ms) : j \in Migrating(ns) /\ ns[j] = ms[j]
    BY <1>3, <1>6, <1>8 DEF Migrating
  <2>2. started => i \in Migrating(ns) /\ ns[i] = m
    BY <1>3, <1>6, <1>8
  <2> QED
    BY <2>1, <2>2 DEF Upids
<1>11. CopyCurrentAt(t)' /\ Stepping(t)'
  <2>1. \A j \in DOMAIN ms : ns[j] = IF j = i THEN SavedMove(plan.moves[j], ns[j])
                                              ELSE plan.moves[j]
    BY <1>2, <1>3, <1>4, <1>6
  <2> QED
    BY <1>2, <1>5, <1>6, <1>7, <2>1 DEF CopyCurrentAt, Stepping, PlanRuns
<1>12. CountsBoundAt(t)'
  BY <1>1, <1>2, <1>5, <1>7, <1>9 DEF CountsBoundAt
<1>13. RequestsWait'
  BY <1>2, <1>5 DEF RequestsWait, PlanRuns
<1>14. Running' \subseteq pending'[gen] \cup Upids(copy'[t].moves)
  BY <1>2, <1>5, <1>7, <1>10
<1> QED
  BY <1>1, <1>5, <1>11, <1>12, <1>13, <1>14, CapLocal

(* A plan move is started only into a free slot. *)
LEMMA CapSteps ==
  ASSUME CapInv, NEW t \in Ticks,
         PlanSkips(t) \/ PlanFireRefused(t) \/ \E k \in Tasks : PlanFires(t, k)
  PROVE  CapParts'
<1>0. /\ task \in [Tasks -> TaskRec] /\ copy[t].moves \in Moves /\ TypeInv /\ Cap
  BY DEF CapInv, CapParts, TypeInv, TypeOK, Plan
<1>1. MayStep(t) /\ Busy(t) /\ Stepping(t)
  BY DEF PlanSkips, PlanFireRefused, PlanFires, MayStep, Busy, Stepping
<1>2. CASE PlanSkips(t) \/ PlanFireRefused(t)
  <2>1. PICK i \in NextQueued(copy[t].moves), st \in {"skipped", "failed"} :
          StepMove(t, i, [copy[t].moves[i] EXCEPT !.st = st], FALSE)
    BY <1>2 DEF PlanSkips, PlanFireRefused
  <2> DEFINE m == [copy[t].moves[i] EXCEPT !.st = st]
  <2>2. copy[t].moves[i] \in Move
    BY <1>0, CopyFacts
  <2>3. /\ m \in Move /\ m.guest = copy[t].moves[i].guest /\ m.src = copy[t].moves[i].src
        /\ m.dst = copy[t].moves[i].dst /\ m.upid = copy[t].moves[i].upid
        /\ m.st \in {"skipped", "failed"}
    BY <2>2 DEF Move, MoveStatus
  <2>4. UNCHANGED task
    BY <1>2 DEF PlanSkips, PlanFireRefused
  <2>5. Running' = Running \cup {} /\ Cap'
    BY <1>0, <2>4 DEF Running, Cap
  <2>6. StepMove(t, i, m, FALSE)
    BY <2>1
  <2> HIDE DEF m
  <2> QED
    BY <1>1, <2>3, <2>5, <2>6, CapStepMove
<1>3. CASE \E k \in Tasks : PlanFires(t, k)
  <2>1. PICK k \in Tasks : PlanFires(t, k)
    BY <1>3
  <2>2. ~Disturb("lostReply")
    BY <1>1, Alone DEF Benign
  <2>3. PICK i \in NextQueued(copy[t].moves) :
          /\ StartTask(k, copy[t].moves[i].guest, copy[t].moves[i].dst, copy[t].id)
          /\ StepMove(t, i, [copy[t].moves[i] EXCEPT !.st = "migrating", !.upid = k], TRUE)
    BY <2>1, <2>2 DEF PlanFires
  <2> DEFINE m == [copy[t].moves[i] EXCEPT !.st = "migrating", !.upid = k]
  <2>4. copy[t].moves[i] \in Move
    BY <1>0, CopyFacts
  <2>5. /\ m \in Move /\ m.guest = copy[t].moves[i].guest /\ m.src = copy[t].moves[i].src
        /\ m.dst = copy[t].moves[i].dst /\ m.upid = k /\ m.st = "migrating"
    BY <2>4 DEF Move, MoveStatus
  <2>6. Running' = Running \cup {k} /\ Cardinality(Running') = Cardinality(Running) + 1
    BY <1>0, <2>3, RunningStarts
  <2>7. Cardinality(Running) < MaxConcurrent
    <3>1. /\ active[t] = Cardinality(pending[gen]) /\ pending[gen] \in SUBSET Tasks
          /\ Running \subseteq pending[gen] \cup Upids(copy[t].moves)
      BY <1>1, Alone, TickCounts DEF CountsBoundAt
    <3>2. active[t] + Cardinality(Migrating(copy[t].moves)) < MaxConcurrent
      BY <1>1 DEF MayStep, HasSlot
    <3>3. /\ Cardinality(Running) \in Nat
          /\ Cardinality(Running) <= Cardinality(pending[gen])
                                       + Cardinality(Migrating(copy[t].moves))
      BY <1>0, <3>1, CountedCard
    <3>4. Cardinality(pending[gen]) \in Nat /\ Cardinality(Migrating(copy[t].moves)) \in Nat
      BY <1>0, <3>1, PendingCount, MigratingFinite
    <3> QED
      BY <3>1, <3>2, <3>3, <3>4, LBAssumption
  <2>8. Cap'
    BY <2>6, <2>7, RunningCard, LBAssumption DEF Cap
  <2>9. StepMove(t, i, m, TRUE)
    BY <2>3
  <2> HIDE DEF m
  <2> QED
    BY <1>1, <2>5, <2>6, <2>8, <2>9, CapStepMove
<1> QED
  BY <1>2, <1>3

(* The move is saved: the stored plan is the tick's copy again. *)
LEMMA SaveFacts ==
  ASSUME CapInv, NEW t \in Ticks, PlanSaves(t)
  PROVE  plan' = copy[t]
<1> USE DEF proxmoxVars, siteVars
<1> DEFINE ms == copy[t].moves
           m  == ms[cur[t]]
<1>0. /\ copy \in [Ticks -> Plan] /\ ms \in Moves /\ plan \in Plan /\ plan.moves \in Moves
      /\ copy[t] \in Plan /\ TypeInv
  BY DEF CapInv, TypeInv, TypeOK, Plan
<1>1. Busy(t) /\ pc[t] = "save" /\ cur[t] \in DOMAIN ms
  BY <1>0 DEF PlanSaves, Busy, TypeInv, CurInPlan
<1>2. /\ plan.id = copy[t].id /\ PlanRuns(plan) /\ PlanRuns(copy[t])
      /\ DOMAIN plan.moves = DOMAIN ms
      /\ \A i \in DOMAIN ms :
           ms[i] = IF i = cur[t] THEN SavedMove(plan.moves[i], ms[i]) ELSE plan.moves[i]
  BY <1>1, TickCounts DEF CopyCurrentAt
<1>3. plan' = [plan EXCEPT !.moves = [@ EXCEPT ![cur[t]] = SavedMove(plan.moves[cur[t]], m)]]
  BY <1>0, <1>2 DEF PlanSaves, UpdateMove
<1> DEFINE ns == [plan.moves EXCEPT ![cur[t]] = m]
<1>4. SavedMove(plan.moves[cur[t]], m) = m /\ m \in Move
  BY <1>0, <1>1, <1>2, MovesDomain
<1>5. /\ ns \in Moves /\ DOMAIN ns = DOMAIN ms
      /\ \A j \in DOMAIN ms : ns[j] = IF j = cur[t] THEN m ELSE plan.moves[j]
  <2> HIDE DEF m
  <2>1. /\ ns \in Moves /\ DOMAIN ns = DOMAIN plan.moves
        /\ \A j \in DOMAIN plan.moves : ns[j] = IF j = cur[t] THEN m ELSE plan.moves[j]
    BY <1>0, <1>4, MovesExcept
  <2> QED
    BY <1>2, <2>1
<1>6. ns = ms
  <2>1. \A j \in DOMAIN ms : ns[j] = ms[j]
    BY <1>2, <1>5
  <2>2. PICK n \in 0..Cardinality(Guests) : ns \in [1..n -> Move]
    BY <1>5 DEF Moves
  <2>3. PICK l \in 0..Cardinality(Guests) : ms \in [1..l -> Move]
    BY <1>0 DEF Moves
  <2> HIDE DEF ns
  <2>4. DOMAIN ns = 1..n /\ DOMAIN ms = 1..l
    BY <2>2, <2>3
  <2>5. ns \in [1..l -> Move]
    BY <1>5, <2>2, <2>4
  <2> QED
    BY <1>5, <2>1, <2>3, <2>4, <2>5
<1>7. plan'.id = copy[t].id /\ plan'.status = copy[t].status /\ plan'.moves = ms
      /\ plan' \in Plan
  BY <1>0, <1>2, <1>3, <1>4, <1>5, <1>6 DEF Plan, PlanRuns
<1> QED
  BY <1>0, <1>7 DEF Plan

LEMMA CapSaves ==
  ASSUME CapInv, NEW t \in Ticks, PlanSaves(t)
  PROVE  CapParts'
<1> USE DEF proxmoxVars, siteVars
<1> DEFINE ms == copy[t].moves
<1>0. /\ pc \in [Ticks -> TickPc] /\ moving \in [Ticks -> Nat]
      /\ copy \in [Ticks -> Plan] /\ ms \in Moves /\ plan \in Plan /\ plan.moves \in Moves
      /\ copy[t] \in Plan /\ TypeInv
  BY DEF CapInv, TypeInv, TypeOK, Plan
<1>1. Busy(t) /\ Stepping(t) /\ pc[t] = "save" /\ cur[t] \in DOMAIN ms
  BY <1>0 DEF PlanSaves, Busy, Stepping, TypeInv, CurInPlan
<1>2. /\ plan.id = copy[t].id /\ PlanRuns(plan) /\ PlanRuns(copy[t])
      /\ DOMAIN plan.moves = DOMAIN ms
      /\ \A i \in DOMAIN ms :
           ms[i] = IF i = cur[t] THEN SavedMove(plan.moves[i], ms[i]) ELSE plan.moves[i]
      /\ Running \subseteq pending[gen] \cup Upids(ms)
      /\ CountsBoundAt(t) /\ RequestsWait
  BY <1>1, TickCounts DEF CopyCurrentAt
<1>3. /\ UNCHANGED <<task, enabled, owner, present, gen, pending, request, site, copy, active,
                     moving>>
      /\ pc'[t] = AfterStep(ms) /\ \A s \in Ticks \ {t} : pc'[s] = pc[s]
  BY <1>0 DEF PlanSaves
<1>4. plan' = copy[t]
  BY SaveFacts
<1>5. PlanRuns(plan)' /\ PlanUpids' = Upids(ms)
  <2>1. PlanRuns(plan)'
    BY <1>2, <1>4 DEF PlanRuns
  <2>2. PlanUpids' = Upids(plan'.moves)
    BY <2>1 DEF PlanUpids, Upids
  <2> QED
    BY <1>4, <2>1, <2>2
<1>6. Running' = Running /\ Cap' /\ RequestsWait'
  <2>1. Running' = Running
    BY <1>3 DEF Running
  <2> QED
    BY <1>2, <1>3, <1>5, <2>1 DEF CapInv, CapParts, Cap, RequestsWait, PlanRuns
<1>7. Cardinality(Migrating(ms)) \in Nat /\ moving[t] = Cardinality(Migrating(ms))
  BY <1>0, <1>1, <1>2, MigratingFinite DEF CountsBoundAt
<1>8. CASE Unresolved(ms)
  <2>1. pc'[t] = "decide"
    BY <1>3, <1>8 DEF AfterStep
  <2>2. CopyCurrentAt(t)' /\ ~Stepping(t)'
    BY <2>1 DEF CopyCurrentAt, Stepping
  <2>3. CountsBoundAt(t)'
    <3>1. active'[t] = Cardinality(pending'[gen']) /\ moving'[t] = moving[t]
      BY <1>1, <1>2, <1>3 DEF CountsBoundAt
    <3>2. (moving[t] >= IF PlanRuns(plan) THEN Cardinality(Migrating(plan.moves)) ELSE 0)'
      BY <1>4, <1>5, <1>7, <3>1
    <3> QED
      BY <2>1, <3>1, <3>2 DEF CountsBoundAt
  <2> QED
    BY <1>1, <1>2, <1>3, <1>5, <1>6, <2>2, <2>3, CapLocal
<1>9. CASE ~Unresolved(ms)
  <2>1. pc'[t] = "complete" /\ Migrating(ms) = {}
    BY <1>3, <1>9 DEF AfterStep, Unresolved
  <2>2. moving'[t] = 0
    BY <1>3, <1>7, <2>1, FS_EmptySet
  <2>3. CopyCurrentAt(t)' /\ Stepping(t)'
    BY <1>3, <1>4, <1>5, <2>1 DEF CopyCurrentAt, Stepping
  <2>4. CountsBoundAt(t)'
    BY <1>1, <1>2, <1>3, <2>1, <2>2 DEF CountsBoundAt
  <2> QED
    BY <1>1, <1>2, <1>3, <1>6, <2>3, <2>4, CapLocal
<1> QED
  BY <1>8, <1>9

(* The plan whose moves are resolved has nothing running any more. *)
LEMMA CapCompletes ==
  ASSUME CapInv, NEW t \in Ticks, PlanCompletes(t)
  PROVE  CapParts'
<1> USE DEF proxmoxVars, siteVars
<1>0. /\ pc \in [Ticks -> TickPc] /\ plan \in Plan
  BY DEF CapInv, TypeInv, TypeOK
<1>1. Busy(t) /\ Stepping(t) /\ pc[t] = "complete"
  BY DEF PlanCompletes, Busy, Stepping
<1>2. /\ plan = copy[t] /\ PlanRuns(plan) /\ Migrating(copy[t].moves) = {}
      /\ Running \subseteq pending[gen] \cup Upids(copy[t].moves)
      /\ CountsBoundAt(t) /\ RequestsWait
  BY <1>1, TickCounts DEF CopyCurrentAt
<1>3. /\ UNCHANGED <<task, enabled, owner, present, gen, pending, request, site, active, moving>>
      /\ pc'[t] = "decide" /\ \A s \in Ticks \ {t} : pc'[s] = pc[s]
      /\ plan'.status = "completed"
  BY <1>0, <1>2 DEF PlanCompletes, Plan
<1>4. ~PlanRuns(plan)' /\ PlanUpids' = {}
  BY <1>3 DEF PlanRuns, PlanUpids
<1>5. Upids(copy[t].moves) = {}
  BY <1>2 DEF Upids
<1>6. Running' = Running /\ Cap' /\ RequestsWait'
  <2>1. Running' = Running
    BY <1>3 DEF Running
  <2>2. Cap'
    BY <2>1 DEF CapInv, CapParts, Cap
  <2> QED
    BY <1>2, <1>3, <1>4, <2>1, <2>2 DEF RequestsWait
<1>7. CopyCurrentAt(t)' /\ ~Stepping(t)'
  BY <1>3 DEF CopyCurrentAt, Stepping
<1>8. CountsBoundAt(t)'
  BY <1>1, <1>2, <1>3, <1>4 DEF CountsBoundAt
<1> QED
  BY <1>1, <1>2, <1>3, <1>4, <1>5, <1>6, <1>7, <1>8, CapLocal

(* The decisions fit in what is left of the budget. *)
LEMMA CapDecides ==
  ASSUME CapInv, NEW t \in Ticks, Decide(t)
  PROVE  CapParts'
<1> USE DEF proxmoxVars, siteVars
<1>0. /\ pc \in [Ticks -> TickPc] /\ plan \in Plan /\ plan.moves \in Moves
      /\ active[t] \in Nat /\ moving[t] \in Nat
      /\ decisions \in [Ticks -> SUBSET Decision]
  BY DEF CapInv, TypeInv, TypeOK, Plan
<1>1. Busy(t) /\ ~Stepping(t) /\ pc[t] = "decide"
  BY DEF Decide, Busy, Stepping
<1>2. /\ Running \subseteq pending[gen] \cup PlanUpids
      /\ CountsBoundAt(t) /\ Cap /\ pending[gen] \in SUBSET Tasks
  BY <1>1, TickCounts, Alone
<1>3. PICK D \in Decisions(t) :
        /\ decisions' = [decisions EXCEPT ![t] = D]
        /\ pc' = [pc EXCEPT ![t] = IF D = {} THEN "end" ELSE "fire"]
  BY DEF Decide
<1>4. /\ UNCHANGED <<task, plan, enabled, owner, present, gen, pending, request, site>>
      /\ decisions'[t] = D /\ pc'[t] \in {"end", "fire"}
      /\ \A s \in Ticks \ {t} : pc'[s] = pc[s]
      /\ pc'[t] = "fire" => D # {}
  BY <1>0, <1>3 DEF Decide
<1>5. Running' = Running /\ PlanUpids' = PlanUpids /\ Cap' /\ RequestsWait'
  BY <1>4, Same
<1>6. IsFiniteSet(D) /\ Cardinality(D) \in Nat /\ Cardinality(D) <= Budget(t)
  <2>1. IsFiniteSet((Guests \X Nodes) \X Nodes)
    BY LBAssumption, FS_Product
  <2> DEFINE f == [x \in (Guests \X Nodes) \X Nodes |->
                     [guest |-> x[1][1], src |-> x[1][2], dst |-> x[2]]]
  <2>2. f \in Surjection((Guests \X Nodes) \X Nodes, Decision)
    <3>1. f \in [(Guests \X Nodes) \X Nodes -> Decision]
      BY DEF Decision
    <3>2. ASSUME NEW d \in Decision PROVE \E x \in (Guests \X Nodes) \X Nodes : f[x] = d
      <4>1. d = [guest |-> d.guest, src |-> d.src, dst |-> d.dst]
            /\ <<<<d.guest, d.src>>, d.dst>> \in (Guests \X Nodes) \X Nodes
        BY DEF Decision
      <4>2. f[<<<<d.guest, d.src>>, d.dst>>] = d
        BY <4>1
      <4> QED
        BY <4>1, <4>2
    <3> QED
      BY <3>1, <3>2 DEF Surjection
  <2>3. IsFiniteSet(Decision)
    BY <2>1, <2>2, FS_Surjection
  <2>4. D \in SUBSET Decision /\ Cardinality(D) <= Budget(t)
    BY DEF Decisions
  <2> QED
    BY <2>3, <2>4, FS_Subset, FS_CardinalityType
<1>7. Cardinality(Running) <= active[t] + moving[t]
  <2>1. active[t] = Cardinality(pending[gen]) /\ Cardinality(pending[gen]) \in Nat
    BY <1>1, <1>2, PendingCount DEF CountsBoundAt
  <2>2. CASE PlanRuns(plan)
    <3>1. PlanUpids = Upids(plan.moves) /\ moving[t] >= Cardinality(Migrating(plan.moves))
      BY <1>1, <1>2, <2>2 DEF PlanUpids, Upids, CountsBoundAt
    <3>2. Cardinality(Running) <= Cardinality(pending[gen]) + Cardinality(Migrating(plan.moves))
          /\ Cardinality(Running) \in Nat
      BY <1>0, <1>2, <3>1, CountedCard
    <3>3. Cardinality(Migrating(plan.moves)) \in Nat
      BY <1>0, MigratingFinite
    <3> QED
      BY <1>0, <2>1, <3>1, <3>2, <3>3
  <2>3. CASE ~PlanRuns(plan)
    <3>1. Running \in SUBSET pending[gen]
      BY <1>2, <2>3 DEF PlanUpids
    <3>2. Cardinality(Running) <= Cardinality(pending[gen]) /\ Cardinality(Running) \in Nat
      BY <1>2, <3>1, PendingCount, FS_Subset, RunningCard
    <3> QED
      BY <1>0, <2>1, <3>2
  <2> QED
    BY <2>2, <2>3
<1>8. D # {} => Cardinality(Running) + Cardinality(D) <= MaxConcurrent
  <2> SUFFICES ASSUME D # {} PROVE Cardinality(Running) + Cardinality(D) <= MaxConcurrent
    OBVIOUS
  <2>1. Cardinality(D) > 0
    BY <1>6, FS_EmptySet
  <2>2. active[t] + moving[t] < MaxConcurrent
        /\ Budget(t) = MaxConcurrent - (active[t] + moving[t])
    BY <1>0, <1>6, <2>1 DEF Budget
  <2> QED
    BY <1>0, <1>6, <1>7, <2>2, RunningCard, LBAssumption
<1>9. CountsBoundAt(t)' /\ CopyCurrentAt(t)' /\ ~Stepping(t)'
  BY <1>4, <1>5, <1>6, <1>8 DEF CountsBoundAt, CopyCurrentAt, Stepping
<1> QED
  BY <1>1, <1>2, <1>4, <1>5, <1>9, CapLocal

(* Each decision that is fired uses up its own slot. *)
LEMMA CapFires ==
  ASSUME CapInv, NEW t \in Ticks,
         \/ (\E d \in decisions[t], k \in Tasks : Fire(t, d, k))
         \/ (\E d \in decisions[t] : FireRefused(t, d))
  PROVE  CapParts'
<1>0. /\ pc \in [Ticks -> TickPc] /\ task \in [Tasks -> TaskRec]
      /\ pending \in [Gens -> SUBSET Tasks] /\ decisions \in [Ticks -> SUBSET Decision]
  BY DEF CapInv, TypeInv, TypeOK
<1>1. Busy(t) /\ ~Stepping(t) /\ pc[t] = "fire"
  BY DEF Fire, FireRefused, Busy, Stepping
<1>2. /\ Running \subseteq pending[gen] \cup PlanUpids /\ Cap /\ RequestsWait
      /\ IsFiniteSet(decisions[t])
      /\ Cardinality(Running) + Cardinality(decisions[t]) <= MaxConcurrent
      /\ site[t] = gen /\ gen \in Gens /\ ~Disturb("lostReply")
  BY <1>1, TickCounts, Alone DEF CountsBoundAt, Benign
<1>3. PICK d \in decisions[t] :
        /\ NextDecision(t, d)
        /\ \/ UNCHANGED <<task, pending>>
           \/ \E k \in Tasks : /\ StartTask(k, d.guest, d.dst, 0)
                               /\ pending' = [pending EXCEPT ![gen] = @ \cup {k}]
  BY <1>2 DEF Fire, FireRefused
<1>4. /\ UNCHANGED <<plan, enabled, owner, present, gen, request, site>>
      /\ decisions'[t] = decisions[t] \ {d} /\ pc'[t] \in {"end", "fire"}
      /\ \A s \in Ticks \ {t} : pc'[s] = pc[s]
  BY <1>0, <1>3 DEF NextDecision
<1>5. /\ IsFiniteSet(decisions'[t])
      /\ Cardinality(decisions'[t]) = Cardinality(decisions[t]) - 1
      /\ Cardinality(decisions'[t]) \in Nat /\ Cardinality(decisions[t]) \in Nat
  BY <1>2, <1>3, <1>4, FS_RemoveElement, FS_CardinalityType
<1>6. /\ Running' \subseteq pending'[gen] \cup PlanUpids
      /\ Cardinality(Running') \in Nat
      /\ Cardinality(Running') <= Cardinality(Running) + 1
  <2>1. CASE UNCHANGED <<task, pending>>
    <3>1. Running' = Running
      BY <2>1 DEF Running
    <3> QED
      BY <1>2, <2>1, <3>1, RunningCard
  <2>2. CASE \E k \in Tasks : /\ StartTask(k, d.guest, d.dst, 0)
                              /\ pending' = [pending EXCEPT ![gen] = @ \cup {k}]
    <3>1. PICK k \in Tasks : /\ StartTask(k, d.guest, d.dst, 0)
                             /\ pending' = [pending EXCEPT ![gen] = @ \cup {k}]
      BY <2>2
    <3>2. Running' = Running \cup {k} /\ Cardinality(Running') = Cardinality(Running) + 1
      BY <1>0, <3>1, RunningStarts
    <3>3. pending'[gen] = pending[gen] \cup {k}
      BY <1>0, <1>2, <3>1
    <3> QED
      BY <1>2, <3>2, <3>3, RunningCard
  <2> QED
    BY <1>3, <2>1, <2>2
<1>7. PlanUpids' = PlanUpids /\ RequestsWait'
  BY <1>2, <1>4 DEF PlanUpids, RequestsWait
<1>8. Cardinality(Running') + Cardinality(decisions'[t]) <= MaxConcurrent /\ Cap'
  BY <1>2, <1>5, <1>6, RunningCard, LBAssumption DEF Cap
<1>9. CountsBoundAt(t)' /\ CopyCurrentAt(t)' /\ ~Stepping(t)'
  BY <1>4, <1>5, <1>8 DEF CountsBoundAt, CopyCurrentAt, Stepping
<1> QED
  BY <1>1, <1>4, <1>6, <1>7, <1>8, <1>9, CapLocal

LEMMA CapEnds ==
  ASSUME CapInv, NEW t \in Ticks, TickEnds(t)
  PROVE  CapParts'
<1> USE DEF proxmoxVars
<1>0. pc \in [Ticks -> TickPc]
  BY DEF CapInv, TypeInv, TypeOK
<1>1. Busy(t) /\ ~Stepping(t)
  BY DEF TickEnds, Busy, Stepping
<1>2. Running \subseteq pending[gen] \cup PlanUpids /\ ~Disturb("long")
  BY <1>1, TickCounts, Alone DEF Benign
<1>3. /\ UNCHANGED <<task, plan, enabled, present, gen, pending, request>>
      /\ pc'[t] = "idle" /\ \A s \in Ticks \ {t} : pc'[s] = pc[s]
  BY <1>0, <1>2 DEF TickEnds, Leave
<1>4. Running' = Running /\ PlanUpids' = PlanUpids /\ Cap' /\ RequestsWait'
  BY <1>3, Same
<1>5. CountsBoundAt(t)' /\ CopyCurrentAt(t)' /\ ~Stepping(t)' /\ ~Busy(t)'
  BY <1>3 DEF CountsBoundAt, CopyCurrentAt, Stepping, Busy
<1> QED
  BY <1>1, <1>2, <1>3, <1>4, <1>5, CapLocal

-----------------------------------------------------------------------------
(* The operator acts on plans that are not running, and ends of tasks only help. *)
LEMMA CapOutside ==
  ASSUME CapInv, OperatorStep \/ ProxmoxStep
  PROVE  CapParts'
<1> USE DEF proxmoxVars, siteVars, locals
<1>0. /\ plan \in Plan /\ task \in [Tasks -> TaskRec] /\ \A f : f \notin Benign => ~Disturb(f)
      /\ OneTick /\ RequestsWait /\ CopyCurrent /\ AllCounted /\ CountsBound /\ Cap
  BY DEF CapInv, CapParts, OneTick, TypeInv, TypeOK, Disturb
<1>a. ASSUME UNCHANGED <<enabled, owner, present, gen, pending,
                         pc, site, active, copy, cur, moving, decisions>>,
             Running' \subseteq Running,
             plan' = plan \/ (~PlanRuns(plan) /\ PlanUpids' = {}
                              /\ (PlanRuns(plan') => Migrating(plan'.moves) = {})),
             RequestsWait'
      PROVE  CapParts'
  <2>1. Cardinality(Running') \in Nat /\ Cardinality(Running') <= Cardinality(Running)
        /\ Cardinality(Running) \in Nat
    BY <1>a, RunningCard, FS_Subset, FS_CardinalityType
  <2>2. Cap'
    BY <1>0, <2>1, LBAssumption DEF Cap
  <2>3. OneTick'
    BY <1>0, <1>a DEF OneTick, Busy
  <2>4. CASE plan' = plan
    <3>1. CopyCurrent'
      BY <1>0, <1>a, <2>4 DEF CopyCurrent, CopyCurrentAt
    <3>2. AllCounted'
      BY <1>0, <1>a, <2>4 DEF AllCounted, Stepping, PlanUpids
    <3>3. ASSUME NEW t \in Ticks PROVE CountsBoundAt(t)'
      <4>1. CountsBoundAt(t)
        BY <1>0 DEF CountsBound
      <4>2. pc[t] = "fire" => /\ IsFiniteSet(decisions[t]) /\ Cardinality(decisions[t]) \in Nat
                              /\ Cardinality(Running') + Cardinality(decisions[t])
                                   <= MaxConcurrent
        BY <2>1, <4>1, FS_CardinalityType, LBAssumption DEF CountsBoundAt
      <4> QED
        BY <1>a, <2>4, <4>1, <4>2 DEF CountsBoundAt, Stepping
    <3> QED
      BY <1>a, <2>2, <2>3, <3>1, <3>2, <3>3 DEF CapParts, CountsBound
  <2>5. CASE ~PlanRuns(plan) /\ PlanUpids' = {} /\ (PlanRuns(plan') => Migrating(plan'.moves) = {})
    <3>1. \A t \in Ticks : ~Stepping(t)
      BY <1>0, <2>5 DEF CopyCurrent, CopyCurrentAt, Stepping
    <3>2. \A t \in Ticks : ~Stepping(t)'
      BY <1>a, <3>1 DEF Stepping
    <3>3. CopyCurrent'
      BY <3>2 DEF CopyCurrent, CopyCurrentAt, Stepping
    <3>4. PlanUpids = {}
      BY <2>5 DEF PlanUpids
    <3>5. AllCounted'
      BY <1>0, <1>a, <3>1, <3>2, <3>4 DEF AllCounted
    <3>6. ASSUME NEW t \in Ticks PROVE CountsBoundAt(t)'
      <4>1. CountsBoundAt(t) /\ moving[t] \in Nat
        BY <1>0 DEF CountsBound, CapInv, TypeInv, TypeOK
      <4>2. pc[t] = "fire" => /\ IsFiniteSet(decisions[t]) /\ Cardinality(decisions[t]) \in Nat
                              /\ Cardinality(Running') + Cardinality(decisions[t])
                                   <= MaxConcurrent
        BY <2>1, <4>1, FS_CardinalityType, LBAssumption DEF CountsBoundAt
      <4>3. (moving[t] >= IF PlanRuns(plan) THEN Cardinality(Migrating(plan.moves)) ELSE 0)'
        BY <1>a, <2>5, <4>1, FS_EmptySet
      <4>4. ~Stepping(t) /\ pc[t] \notin {"save", "complete"}
        BY <3>1 DEF Stepping
      <4> QED
        BY <1>a, <3>2, <4>1, <4>2, <4>3, <4>4 DEF CountsBoundAt
    <3> QED
      BY <1>a, <2>2, <2>3, <3>3, <3>5, <3>6 DEF CapParts, CountsBound
  <2> QED
    BY <1>a, <2>4, <2>5
<1>1. CASE ComputeReads \/ CancelReads \/ PageLoads
  <2>1. RequestsWait' /\ Running' = Running
    BY <1>0, <1>1 DEF ComputeReads, CancelReads, PageLoads, RequestsWait, PlanRuns, Running,
       Benign
  <2> QED
    BY <1>1, <1>a, <2>1 DEF ComputeReads, CancelReads, PageLoads
<1>2. CASE ComputeSaves
  <2>1. ~PlanRuns(plan)
    BY <1>0, <1>2 DEF ComputeSaves, RequestsWait, NoRequest
  <2>2. plan'.status \in {"none", "draft"} /\ Migrating(plan'.moves) = {}
    BY <1>2 DEF ComputeSaves, PlanMoves, NoPlan, Migrating
  <2>3. ~PlanRuns(plan') /\ PlanUpids' = {} /\ RequestsWait' /\ Running' = Running
    BY <1>2, <2>2 DEF ComputeSaves, PlanRuns, PlanUpids, RequestsWait, Running
  <2> QED
    BY <1>2, <1>a, <2>1, <2>3 DEF ComputeSaves
<1>3. CASE Apply
  <2>1. plan.status = "draft" /\ plan'.status = "active" /\ plan'.moves = plan.moves
        /\ request = NoRequest /\ request' = request
    BY <1>0, <1>3 DEF Apply, Applicable, Plan, Benign
  <2>2. ~PlanRuns(plan) /\ Migrating(plan'.moves) = {}
    BY <1>0, <2>1 DEF PlanRuns, RequestsWait
  <2>3. PlanUpids' = {}
    BY <2>2 DEF PlanUpids
  <2>4. RequestsWait' /\ Running' = Running
    BY <1>3, <2>1 DEF Apply, RequestsWait, Running
  <2> QED
    BY <1>3, <1>a, <2>2, <2>3, <2>4 DEF Apply
<1>4. CASE CancelWrites
  <2>1. plan' = NoPlan /\ ~PlanRuns(plan) /\ request' = NoRequest /\ UNCHANGED task
    BY <1>0, <1>4 DEF CancelWrites, RequestsWait, NoRequest
  <2>2. ~PlanRuns(plan') /\ plan'.status # "draft"
    BY <2>1 DEF PlanRuns, NoPlan
  <2>3. PlanUpids' = {} /\ RequestsWait' /\ Running' = Running
    BY <2>1, <2>2 DEF PlanUpids, RequestsWait, Running
  <2> QED
    BY <1>4, <1>a, <2>1, <2>2, <2>3 DEF CancelWrites
<1>5. ~Disable /\ ~Enable
  BY <1>0 DEF Disable, Enable, OneTick, Benign
<1>6. CASE \E k \in Tasks : TaskEnds(k)
  <2>1. PICK k \in Tasks : TaskEnds(k)
    BY <1>6
  <2>2. PICK st \in {"ok", "warnings", "error"} : task' = [task EXCEPT ![k].st = st]
    BY <2>1 DEF TaskEnds
  <2>3. task'[k].st # "running" /\ \A j \in Tasks : j # k => task'[j] = task[j]
    BY <1>0, <2>2 DEF TaskRec
  <2>4. Running' \subseteq Running
    BY <2>3 DEF Running
  <2>5. RequestsWait'
    BY <1>0, <2>1 DEF TaskEnds, RequestsWait
  <2> QED
    BY <1>a, <2>1, <2>4, <2>5 DEF TaskEnds
<1>7. CASE \E g \in Guests, n \in Nodes : Drift(g, n)
  <2>1. Running' = Running /\ RequestsWait'
    BY <1>0, <1>7 DEF Drift, Running, RequestsWait
  <2> QED
    BY <1>7, <1>a, <2>1 DEF Drift
<1> QED
  BY <1>1, <1>2, <1>3, <1>4, <1>5, <1>6, <1>7 DEF OperatorStep, ProxmoxStep

LEMMA CapNext == CapInv /\ [Next]_vars => CapInv'
<1> SUFFICES ASSUME CapInv, [Next]_vars PROVE CapInv'
  OBVIOUS
<1>1. TypeInv'
  BY TypeNext DEF CapInv
<1>2. \A f : f \notin Benign => ~Disturb(f)
  BY DEF CapInv, CapParts, OneTick, Disturb
<1>3. CASE UNCHANGED vars
  BY <1>1, <1>3
  DEF vars, CapInv, CapParts, OneTick, RequestsWait, CopyCurrent, CopyCurrentAt, AllCounted,
      CountsBound, CountsBoundAt, Cap, Busy, Stepping, Running, PlanUpids
<1>4. ASSUME NEW t \in Ticks, TickStep(t) PROVE CapParts'
  <2>1. ~PlanSaveFails(t)
    BY <1>2 DEF PlanSaveFails, Benign
  <2> QED
    BY <1>4, <2>1, CapCounts, CapPolls, CapIdles, CapSteps, CapSaves, CapCompletes, CapDecides,
       CapFires, CapEnds DEF TickStep
<1>5. ~TickFindsDisabled /\ ~TickTimesOut /\ ~Restart
  BY <1>2 DEF Benign, TickFindsDisabled, TickTimesOut, Restart, CapInv, CapParts, OneTick
<1>6. CASE Next
  BY <1>1, <1>4, <1>5, <1>6, CapBegins, CapOutside DEF Next, CapInv
<1> QED
  BY <1>1, <1>3, <1>6 DEF CapInv

LEMMA CapAlways == Faults \subseteq Benign => (Spec => []CapInv)
<1> SUFFICES ASSUME Faults \subseteq Benign PROVE Spec => []CapInv
  OBVIOUS
<1>1. Init => CapInv
  BY CapInit
<1> QED
  BY <1>1, CapNext, PTL DEF Spec

(* As long as nothing disturbs the ticks, the migrations in flight in the cluster never
   exceed settings.maxConcurrentMigrations, however plan and reactive balancing share the
   budget, however late the ends of tasks are noticed, and whoever else moves guests. *)
THEOREM CapHolds == Faults \subseteq Benign => (Spec => []Cap)
<1>1. CapInv => Cap
  BY DEF CapInv, CapParts
<1> QED
  BY <1>1, CapAlways, PTL

(* Then, too, every migration still running between two ticks is counted by the next. *)
THEOREM NothingForgotten == Faults \subseteq Benign => (Spec => []NoneForgotten)
<1>1. CapInv => NoneForgotten
  BY DEF CapInv, CapParts, AllCounted, NoneForgotten, Stepping
<1> QED
  BY <1>1, CapAlways, PTL

-----------------------------------------------------------------------------
(* How the plan changes *)

(* A plan moves a guest once, and no plan means no moves. *)
PlanShape ==
  /\ \A i, j \in DOMAIN plan.moves : plan.moves[i].guest = plan.moves[j].guest => i = j
  /\ plan.id = 0 => DOMAIN plan.moves = {}

(* A step saves a move that is queued in the store, and completes a plan that has none. *)
StepShapeAt(t) ==
  /\ pc[t] = "save" => /\ plan.moves[cur[t]].st = "queued"
                       /\ copy[t].moves[cur[t]].st \in {"skipped", "failed", "migrating"}
  /\ pc[t] = "complete" => Queued(copy[t].moves) = {}
StepShape == \A t \in Ticks : StepShapeAt(t)

ShapeInv == CapInv /\ AppliedInv /\ PlanShape /\ StepShape

(* Plan q is plan p with move i replaced by m. *)
Replaced(p, q, i, m) ==
  /\ q.id = p.id /\ q.status = p.status
  /\ i \in DOMAIN p.moves /\ DOMAIN q.moves = DOMAIN p.moves
  /\ \A j \in DOMAIN p.moves : q.moves[j] = IF j = i THEN m ELSE p.moves[j]

(* A poll that finds the end of a migration tells the stored plan and the copy alike. *)
LEMMA PollFacts ==
  ASSUME ShapeInv, CapInv', NEW t \in Ticks, NEW i \in DOMAIN copy[t].moves, PlanPoll(t, i)
  PROVE  /\ plan = copy[t] /\ plan' = copy'[t] /\ PlanRuns(plan) /\ PlanRuns(plan')
         /\ plan.moves[i] \in Move /\ plan.moves[i].st = "migrating"
         /\ Finished(plan.moves[i].upid)
         /\ Replaced(plan, plan', i, PolledMove(plan.moves[i]))
         /\ UNCHANGED <<task, pc, cur>>
<1> USE DEF proxmoxVars, siteVars
<1>0. /\ CapInv /\ TypeInv /\ copy \in [Ticks -> Plan]
      /\ copy[t] \in Plan /\ copy[t].moves \in Moves
  BY DEF ShapeInv, CapInv, TypeInv, TypeOK, Plan
<1>1. /\ pc[t] = "pollmoves" /\ UNCHANGED <<task, pc, cur>>
      /\ copy[t].moves[i].st = "migrating" /\ Finished(copy[t].moves[i].upid)
      /\ copy' = [copy EXCEPT ![t].moves[i] = PolledMove(copy[t].moves[i])]
  BY DEF PlanPoll, Migrating
<1>2. plan = copy[t] /\ PlanRuns(plan)
  BY <1>0, <1>1, TickCounts DEF CopyCurrentAt, Busy
<1>3. plan' = copy'[t] /\ PlanRuns(plan')
  BY <1>1 DEF CapInv, CapParts, CopyCurrent, CopyCurrentAt
<1>4. copy[t].moves[i] \in Move
  BY <1>0, CopyFacts
<1> DEFINE m == PolledMove(copy[t].moves[i])
<1>5. m \in Move
  BY <1>4 DEF PolledMove, Move, MoveStatus
<1> HIDE DEF m
<1>6. copy'[t] = [copy[t] EXCEPT !.moves = [copy[t].moves EXCEPT ![i] = m]]
  BY <1>0, <1>1 DEF m
<1>7. copy'[t].moves = [copy[t].moves EXCEPT ![i] = m] /\ copy'[t].id = copy[t].id
      /\ copy'[t].status = copy[t].status
  BY <1>0, <1>6 DEF Plan
<1>8. Replaced(copy[t], copy'[t], i, m)
  BY <1>0, <1>5, <1>7, MovesExcept DEF Replaced
<1> QED
  BY <1>1, <1>2, <1>3, <1>4, <1>8 DEF m

(* The step that handles queued move i: the copy has it as m, and the store not yet. *)
LEMMA StepFacts ==
  ASSUME ShapeInv, NEW t \in Ticks, MayStep(t), NEW i \in NextQueued(copy[t].moves),
         NEW m \in Move, NEW started, StepMove(t, i, m, started)
  PROVE  /\ plan = copy[t] /\ plan' = plan /\ PlanRuns(plan)
         /\ i \in DOMAIN plan.moves /\ plan.moves[i] \in Move /\ plan.moves[i].st = "queued"
         /\ Replaced(plan, copy'[t], i, m)
         /\ pc[t] = "pollmoves" /\ pc'[t] = "save" /\ cur'[t] = i
         /\ \A s \in Ticks \ {t} : pc'[s] = pc[s]
<1>0. /\ CapInv /\ TypeInv /\ copy \in [Ticks -> Plan] /\ copy[t] \in Plan
      /\ copy[t].moves \in Moves /\ pc \in [Ticks -> TickPc] /\ cur \in [Ticks -> Nat]
  BY DEF ShapeInv, CapInv, TypeInv, TypeOK, Plan
<1>1. pc[t] = "pollmoves"
  BY DEF MayStep
<1>2. plan = copy[t] /\ PlanRuns(plan)
  BY <1>0, <1>1, TickCounts DEF CopyCurrentAt, Busy
<1>3. i \in DOMAIN copy[t].moves /\ copy[t].moves[i] \in Move /\ copy[t].moves[i].st = "queued"
  BY <1>0, CopyFacts DEF NextQueued, Queued
<1>4. /\ plan' = plan /\ pc'[t] = "save" /\ cur'[t] = i
      /\ \A s \in Ticks \ {t} : pc'[s] = pc[s]
      /\ copy'[t] = [copy[t] EXCEPT !.moves = [copy[t].moves EXCEPT ![i] = m]]
  BY <1>0 DEF StepMove
<1>5. copy'[t].moves = [copy[t].moves EXCEPT ![i] = m] /\ copy'[t].id = copy[t].id
      /\ copy'[t].status = copy[t].status
  BY <1>0, <1>4 DEF Plan
<1>6. Replaced(copy[t], copy'[t], i, m)
  BY <1>0, <1>3, <1>5, MovesExcept DEF Replaced
<1> QED
  BY <1>1, <1>2, <1>3, <1>4, <1>6

(* Saving a move changes that move of the stored plan alone. *)
LEMMA SavedFacts ==
  ASSUME ShapeInv, NEW t \in Ticks, PlanSaves(t)
  PROVE  /\ plan' = copy[t] /\ PlanRuns(plan) /\ UNCHANGED <<task, copy>>
         /\ Replaced(plan, plan', cur[t], copy[t].moves[cur[t]])
         /\ plan.moves[cur[t]] \in Move /\ plan.moves[cur[t]].st = "queued"
         /\ copy[t].moves[cur[t]].guest = plan.moves[cur[t]].guest
         /\ copy[t].moves[cur[t]].st \in {"skipped", "failed", "migrating"}
         /\ pc[t] = "save" /\ pc'[t] = AfterStep(copy[t].moves)
         /\ \A s \in Ticks \ {t} : pc'[s] = pc[s]
<1>0. /\ CapInv /\ TypeInv /\ plan \in Plan /\ plan.moves \in Moves
      /\ pc \in [Ticks -> TickPc] /\ CurInPlan
  BY DEF ShapeInv, CapInv, TypeInv, TypeOK, Plan
<1>1. /\ pc[t] = "save" /\ UNCHANGED <<task, copy>>
      /\ pc'[t] = AfterStep(copy[t].moves) /\ \A s \in Ticks \ {t} : pc'[s] = pc[s]
  BY <1>0 DEF PlanSaves, proxmoxVars
<1>2. plan' = copy[t]
  BY <1>0, SaveFacts
<1>3. /\ plan.id = copy[t].id /\ PlanRuns(plan) /\ PlanRuns(copy[t])
      /\ DOMAIN plan.moves = DOMAIN copy[t].moves /\ cur[t] \in DOMAIN copy[t].moves
      /\ \A i \in DOMAIN copy[t].moves :
            copy[t].moves[i] = IF i = cur[t] THEN SavedMove(plan.moves[i], copy[t].moves[i])
                                             ELSE plan.moves[i]
  BY <1>0, <1>1, TickCounts DEF CopyCurrentAt, Busy, CurInPlan
<1>4. plan.moves[cur[t]] \in Move
  BY <1>0, <1>3, MovesDomain
<1>5. copy[t].moves[cur[t]].guest = plan.moves[cur[t]].guest
  <2>1. copy[t].moves[cur[t]] = SavedMove(plan.moves[cur[t]], copy[t].moves[cur[t]])
    BY <1>3
  <2>2. \A m : SavedMove(plan.moves[cur[t]], m).guest = plan.moves[cur[t]].guest
    BY <1>4 DEF SavedMove, Move
  <2> QED
    BY <2>1, <2>2
<1>6. StepShapeAt(t)
  BY DEF ShapeInv, StepShape
<1>7. Replaced(plan, plan', cur[t], copy[t].moves[cur[t]])
  BY <1>2, <1>3 DEF Replaced, PlanRuns
<1> QED
  BY <1>1, <1>2, <1>3, <1>4, <1>5, <1>6, <1>7 DEF StepShapeAt

(* Completing changes the status alone, of a plan whose moves are resolved. *)
LEMMA CompleteFacts ==
  ASSUME ShapeInv, NEW t \in Ticks, PlanCompletes(t)
  PROVE  /\ plan = copy[t] /\ PlanRuns(plan) /\ ~Unresolved(plan.moves)
         /\ plan'.status = "completed" /\ plan'.id = plan.id /\ plan'.moves = plan.moves
         /\ UNCHANGED task /\ pc[t] = "complete" /\ pc'[t] = "decide"
         /\ \A s \in Ticks \ {t} : pc'[s] = pc[s]
<1>0. /\ CapInv /\ plan \in Plan /\ pc \in [Ticks -> TickPc] /\ StepShapeAt(t)
  BY DEF ShapeInv, CapInv, TypeInv, TypeOK, StepShape
<1>1. /\ pc[t] = "complete" /\ UNCHANGED task
      /\ pc'[t] = "decide" /\ \A s \in Ticks \ {t} : pc'[s] = pc[s]
  BY <1>0 DEF PlanCompletes, proxmoxVars
<1>2. plan = copy[t] /\ PlanRuns(plan) /\ Migrating(copy[t].moves) = {}
  BY <1>0, <1>1, TickCounts DEF CopyCurrentAt, Busy
<1>3. Queued(copy[t].moves) = {}
  BY <1>0, <1>1 DEF StepShapeAt
<1>4. plan'.status = "completed" /\ plan'.id = plan.id /\ plan'.moves = plan.moves
  BY <1>0, <1>2 DEF PlanCompletes, Plan
<1> QED
  BY <1>1, <1>2, <1>3, <1>4 DEF Unresolved
(* The steps of a tick that leave the plan alone and are not part of a plan step. *)
Beside(t) ==
  \/ TickBegins(t) \/ Fetch(t) \/ FetchFails(t) \/ MetricsFail(t)
  \/ (\E k \in Tasks : PollPending(t, k)) \/ CountPending(t)
  \/ Decide(t)
  \/ (\E d \in decisions[t], k \in Tasks : Fire(t, d, k))
  \/ (\E d \in decisions[t] : FireRefused(t, d))
  \/ TickEnds(t)

LEMMA BesideFacts ==
  ASSUME TypeInv, NEW t \in Ticks, Beside(t)
  PROVE  /\ plan' = plan /\ ~Stepping(t) /\ ~Stepping(t)'
         /\ \A s \in Ticks \ {t} : pc'[s] = pc[s]
         /\ \A k \in Tasks : \/ task'[k] = task[k]
                             \/ task[k].st = "free" /\ task'[k].st = "running"
                                /\ task'[k].plan = 0
<1> USE DEF proxmoxVars, siteVars, locals
<1>0. pc \in [Ticks -> TickPc] /\ task \in [Tasks -> TaskRec]
  BY DEF TypeInv, TypeOK
<1>1. CASE \/ TickBegins(t) \/ Fetch(t) \/ FetchFails(t) \/ MetricsFail(t)
           \/ (\E k \in Tasks : PollPending(t, k)) \/ CountPending(t) \/ Decide(t) \/ TickEnds(t)
  <2>1. UNCHANGED <<plan, task>>
    BY <1>1 DEF TickBegins, Fetch, FetchFails, MetricsFail, PollPending, CountPending, Decide,
       TickEnds
  <2>2. /\ pc[t] \in {"idle", "fetch", "poll", "decide", "end"}
        /\ pc'[t] \in {"fetch", "poll", "idle", "end", "read", "fire"}
        /\ \A s \in Ticks \ {t} : pc'[s] = pc[s]
    BY <1>0, <1>1 DEF TickBegins, Fetch, FetchFails, MetricsFail, PollPending, CountPending,
       Decide, TickEnds, Leave
  <2> QED
    BY <2>1, <2>2 DEF Stepping
<1>2. CASE \/ (\E d \in decisions[t], k \in Tasks : Fire(t, d, k))
           \/ (\E d \in decisions[t] : FireRefused(t, d))
  <2>1. plan' = plan /\ pc[t] = "fire" /\ pc'[t] \in {"end", "fire"}
        /\ \A s \in Ticks \ {t} : pc'[s] = pc[s]
    BY <1>0, <1>2 DEF Fire, FireRefused, NextDecision
  <2>2. task' = task \/ \E k \in Tasks : \E g, dst : StartTask(k, g, dst, 0)
    BY <1>2 DEF Fire, FireRefused
  <2>3. \A k \in Tasks : \/ task'[k] = task[k]
                         \/ task[k].st = "free" /\ task'[k].st = "running"
                            /\ task'[k].plan = 0
    BY <1>0, <2>2 DEF StartTask
  <2> QED
    BY <2>1, <2>3 DEF Stepping
<1> QED
  BY <1>1, <1>2 DEF Beside

(* What the operator and Proxmox do to a plan that is not running, and to the tasks. *)
LEMMA OutsideFacts ==
  ASSUME ShapeInv, OperatorStep \/ ProxmoxStep
  PROVE  /\ UNCHANGED <<pc, copy, cur>>
         /\ \/ plan' = plan
            \/ /\ ~PlanRuns(plan) /\ UNCHANGED task
               /\ \/ plan' = NoPlan
                  \/ \E ms \in PlanMoves :
                       plan' = [id |-> plans + 1, status |-> "draft", moves |-> ms]
                  \/ /\ plan.status = "draft" /\ plan'.status = "active"
                     /\ plan'.id = plan.id /\ plan'.moves = plan.moves
         /\ \/ UNCHANGED task
            \/ \E k \in Tasks, st \in {"ok", "warnings", "error"} :
                 /\ task[k].st = "running" /\ task' = [task EXCEPT ![k].st = st]
                 /\ st = "warnings" => Disturb("warnings")
<1> USE DEF proxmoxVars, siteVars, locals
<1>0. plan \in Plan /\ RequestsWait /\ \A f : f \notin Benign => ~Disturb(f)
  BY DEF ShapeInv, CapInv, CapParts, OneTick, TypeInv, TypeOK, Disturb
<1>1. CASE ComputeReads \/ CancelReads \/ PageLoads \/ Disable \/ Enable
  BY <1>1 DEF ComputeReads, CancelReads, PageLoads, Disable, Enable
<1>2. CASE ComputeSaves
  <2>1. ~PlanRuns(plan)
    BY <1>0, <1>2 DEF ComputeSaves, RequestsWait, NoRequest
  <2> QED
    BY <1>2, <2>1 DEF ComputeSaves
<1>3. CASE Apply
  <2>1. plan.status = "draft" /\ plan'.status = "active" /\ plan'.id = plan.id
        /\ plan'.moves = plan.moves
    BY <1>0, <1>3 DEF Apply, Applicable, Plan
  <2> QED
    BY <1>3, <2>1 DEF Apply, PlanRuns
<1>4. CASE CancelWrites
  <2>1. plan' = NoPlan /\ ~PlanRuns(plan)
    BY <1>0, <1>4 DEF CancelWrites, RequestsWait, NoRequest
  <2> QED
    BY <1>4, <2>1 DEF CancelWrites
<1>5. CASE \E k \in Tasks : TaskEnds(k)
  BY <1>5 DEF TaskEnds
<1>6. CASE \E g \in Guests, n \in Nodes : Drift(g, n)
  BY <1>6 DEF Drift
<1> QED
  BY <1>1, <1>2, <1>3, <1>4, <1>5, <1>6 DEF OperatorStep, ProxmoxStep

(* Only these happen while nothing disturbs the ticks. *)
LEMMA CalmNext ==
  ASSUME ShapeInv, Next
  PROVE  \/ OperatorStep \/ ProxmoxStep
         \/ \E t \in Ticks :
              \/ Beside(t) \/ PlanRead(t) \/ PlanIdles(t)
              \/ (\E i \in DOMAIN copy[t].moves : PlanPoll(t, i))
              \/ PlanSkips(t) \/ PlanFireRefused(t) \/ (\E k \in Tasks : PlanFires(t, k))
              \/ PlanSaves(t) \/ PlanCompletes(t)
<1>1. (\A f : f \notin Benign => ~Disturb(f)) /\ enabled
  BY DEF ShapeInv, CapInv, CapParts, OneTick, Disturb
<1>2. ~TickFindsDisabled /\ ~TickTimesOut /\ ~Restart
  BY <1>1 DEF Benign, TickFindsDisabled, TickTimesOut, Restart
<1>3. \A t \in Ticks : ~PlanSaveFails(t)
  BY <1>1 DEF PlanSaveFails, Benign
<1> QED
  BY <1>2, <1>3 DEF Next, TickStep, Beside

-----------------------------------------------------------------------------
(* The shape of the plan is an invariant. *)

(* The plan step of a queued move, in its three outcomes. *)
LEMMA MayStepFacts ==
  ASSUME ShapeInv, NEW t \in Ticks,
         PlanSkips(t) \/ PlanFireRefused(t) \/ \E k \in Tasks : PlanFires(t, k)
  PROVE  \E i \in NextQueued(copy[t].moves), m \in Move, started \in BOOLEAN :
           /\ MayStep(t) /\ StepMove(t, i, m, started)
           /\ m.guest = copy[t].moves[i].guest
           /\ \/ m.st \in {"skipped", "failed"} /\ UNCHANGED task
              \/ /\ m.st = "migrating" /\ m.upid \in Tasks
                 /\ StartTask(m.upid, m.guest, copy[t].moves[i].dst, copy[t].id)
<1>0. \A i \in NextQueued(copy[t].moves) : copy[t].moves[i] \in Move
  BY CopyFacts DEF ShapeInv, CapInv
<1>1. CASE PlanSkips(t) \/ PlanFireRefused(t)
  <2>1. PICK i \in NextQueued(copy[t].moves), st \in {"skipped", "failed"} :
          StepMove(t, i, [copy[t].moves[i] EXCEPT !.st = st], FALSE)
    BY <1>1 DEF PlanSkips, PlanFireRefused
  <2> DEFINE m == [copy[t].moves[i] EXCEPT !.st = st]
  <2>2. m \in Move /\ m.guest = copy[t].moves[i].guest /\ m.st \in {"skipped", "failed"}
    BY <1>0 DEF Move, MoveStatus
  <2>3. MayStep(t) /\ UNCHANGED task /\ StepMove(t, i, m, FALSE)
    BY <1>1, <2>1 DEF PlanSkips, PlanFireRefused
  <2> HIDE DEF m
  <2> QED
    BY <2>2, <2>3
<1>2. CASE \E k \in Tasks : PlanFires(t, k)
  <2>1. PICK k \in Tasks : PlanFires(t, k)
    BY <1>2
  <2>2. ~Disturb("lostReply")
    BY DEF ShapeInv, CapInv, CapParts, OneTick, Disturb, Benign
  <2>3. PICK i \in NextQueued(copy[t].moves) :
          /\ StartTask(k, copy[t].moves[i].guest, copy[t].moves[i].dst, copy[t].id)
          /\ StepMove(t, i, [copy[t].moves[i] EXCEPT !.st = "migrating", !.upid = k], TRUE)
    BY <2>1, <2>2 DEF PlanFires
  <2> DEFINE m == [copy[t].moves[i] EXCEPT !.st = "migrating", !.upid = k]
  <2>4. m \in Move /\ m.guest = copy[t].moves[i].guest /\ m.st = "migrating" /\ m.upid = k
    BY <1>0 DEF Move, MoveStatus
  <2>5. MayStep(t) /\ StepMove(t, i, m, TRUE)
    BY <2>1, <2>3 DEF PlanFires
  <2> HIDE DEF m
  <2> QED
    BY <2>3, <2>4, <2>5
<1> QED
  BY <1>1, <1>2

LEMMA ShapeReplaced ==
  ASSUME PlanShape, NEW i, NEW m, Replaced(plan, plan', i, m), m.guest = plan.moves[i].guest
  PROVE  PlanShape'
BY DEF PlanShape, Replaced

LEMMA ShapeInit == Faults \subseteq Benign /\ Init => ShapeInv
BY CapInit, AppliedInit DEF Init, ShapeInv, PlanShape, StepShape, StepShapeAt, NoPlan

(* While a tick takes a step no other tick is stepping through the plan. *)
LEMMA OthersRest ==
  ASSUME CapInv, NEW t \in Ticks, TickBegins(t) \/ Busy(t)
  PROVE  \A s \in Ticks \ {t} : ~Stepping(s)
<1>1. CASE Busy(t)
  BY <1>1, Alone DEF Stepping
<1>2. CASE TickBegins(t)
  BY <1>2, LBAssumption DEF TickBegins, CapInv, CapParts, OneTick, Busy, Stepping
<1> QED
  BY <1>1, <1>2

LEMMA BesideAlone ==
  ASSUME CapInv, NEW t \in Ticks, Beside(t)
  PROVE  \A s \in Ticks : ~Stepping(s) /\ ~Stepping(s)'
<1>1. TickBegins(t) \/ Busy(t)
  BY DEF Beside, Fetch, FetchFails, MetricsFail, PollPending, CountPending, Decide, Fire,
     FireRefused, TickEnds, Busy
<1>2. ~Stepping(t) /\ ~Stepping(t)' /\ \A s \in Ticks \ {t} : pc'[s] = pc[s]
  BY BesideFacts DEF CapInv
<1> QED
  BY <1>1, <1>2, OthersRest DEF Stepping

LEMMA ShapeNext == ShapeInv /\ [Next]_vars => ShapeInv'
<1> SUFFICES ASSUME ShapeInv, [Next]_vars PROVE ShapeInv'
  OBVIOUS
<1> USE DEF proxmoxVars, siteVars
<1>0. /\ CapInv /\ CapInv' /\ AppliedInv' /\ TypeInv /\ PlanShape /\ StepShape
      /\ pc \in [Ticks -> TickPc] /\ plan \in Plan /\ PlanNumbered /\ plans \in Nat
  BY CapNext, AppliedNext, LBAssumption DEF ShapeInv, CapInv, TypeInv, TypeOK, AppliedInv
<1>a. ASSUME NEW t \in Ticks, Busy(t), \A s \in Ticks \ {t} : pc'[s] = pc[s], StepShapeAt(t)'
      PROVE  StepShape'
  <2>1. \A s \in Ticks \ {t} : ~Stepping(s)
    BY <1>0, <1>a, OthersRest
  <2>2. \A s \in Ticks \ {t} : StepShapeAt(s)'
    BY <1>a, <2>1 DEF Stepping, StepShapeAt
  <2> QED
    BY <1>a, <2>2 DEF StepShape
<1>b. ASSUME NEW ms \in Moves, AfterStep(ms) = "complete" PROVE Queued(ms) = {}
  BY <1>b DEF AfterStep, Unresolved
<1>1. CASE UNCHANGED vars
  BY <1>0, <1>1 DEF vars, ShapeInv, PlanShape, StepShape, StepShapeAt
<1>2. CASE OperatorStep \/ ProxmoxStep
  <2>1. UNCHANGED <<pc, copy, cur>>
    BY <1>2, OutsideFacts
  <2>2. CASE plan' = plan
    BY <1>0, <2>1, <2>2 DEF ShapeInv, PlanShape, StepShape, StepShapeAt
  <2>3. CASE ~PlanRuns(plan)
    <3>1. \A t \in Ticks : ~Stepping(t)
      BY <1>0, <2>3 DEF CapInv, CapParts, CopyCurrent, CopyCurrentAt, Stepping
    <3>2. StepShape'
      BY <2>1, <3>1 DEF Stepping, StepShape, StepShapeAt
    <3>3. CASE plan' = NoPlan
      BY <1>0, <3>2, <3>3 DEF ShapeInv, PlanShape, NoPlan
    <3>4. CASE \E ms \in PlanMoves :
                 plan' = [id |-> plans + 1, status |-> "draft", moves |-> ms]
      BY <1>0, <3>2, <3>4 DEF ShapeInv, PlanShape, PlanMoves
    <3>5. CASE plan'.id = plan.id /\ plan'.moves = plan.moves
      BY <1>0, <3>2, <3>5 DEF ShapeInv, PlanShape
    <3> QED
      BY <1>2, <2>2, <3>3, <3>4, <3>5, OutsideFacts
  <2> QED
    BY <1>2, <2>2, <2>3, OutsideFacts
<1>3. ASSUME NEW t \in Ticks, Beside(t) PROVE PlanShape' /\ StepShape'
  <2>1. plan' = plan
    BY <1>0, <1>3, BesideFacts
  <2>2. \A s \in Ticks : ~Stepping(s)'
    BY <1>0, <1>3, BesideAlone
  <2> QED
    BY <1>0, <2>1, <2>2 DEF PlanShape, StepShape, StepShapeAt, Stepping
<1>4. ASSUME NEW t \in Ticks, PlanRead(t) \/ PlanIdles(t) PROVE PlanShape' /\ StepShape'
  <2>1. /\ UNCHANGED <<plan, task>> /\ Busy(t)
        /\ \A s \in Ticks \ {t} : pc'[s] = pc[s]
    BY <1>0, <1>4 DEF PlanRead, PlanIdles, Busy
  <2>2. copy[t].moves \in Moves
    BY <1>0, CopyFacts
  <2>3. StepShapeAt(t)'
    <3>1. CASE PlanRead(t)
      BY <1>0, <3>1 DEF PlanRead, StepShapeAt
    <3>2. CASE PlanIdles(t)
      <4>1. pc'[t] = AfterStep(copy[t].moves) /\ copy' = copy
        BY <1>0, <3>2 DEF PlanIdles
      <4>2. AfterStep(copy[t].moves) # "save"
        BY DEF AfterStep
      <4> QED
        BY <1>b, <2>2, <4>1, <4>2 DEF StepShapeAt
    <3> QED
      BY <1>4, <3>1, <3>2
  <2> QED
    BY <1>0, <1>a, <2>1, <2>3 DEF PlanShape
<1>5. ASSUME NEW t \in Ticks, NEW i \in DOMAIN copy[t].moves, PlanPoll(t, i)
      PROVE  PlanShape' /\ StepShape'
  <2>1. /\ Replaced(plan, plan', i, PolledMove(plan.moves[i])) /\ plan.moves[i] \in Move
        /\ UNCHANGED pc
    BY <1>0, <1>5, PollFacts
  <2>2. PolledMove(plan.moves[i]).guest = plan.moves[i].guest
    BY <2>1 DEF PolledMove, Move
  <2>3. pc[t] = "pollmoves"
    BY <1>5 DEF PlanPoll
  <2>4. StepShapeAt(t)' /\ Busy(t)
    BY <2>1, <2>3 DEF StepShapeAt, Busy
  <2> QED
    BY <1>0, <1>a, <2>1, <2>2, <2>4, ShapeReplaced
<1>6. ASSUME NEW t \in Ticks,
             PlanSkips(t) \/ PlanFireRefused(t) \/ \E k \in Tasks : PlanFires(t, k)
      PROVE  PlanShape' /\ StepShape'
  <2>1. PICK i \in NextQueued(copy[t].moves), m \in Move, started \in BOOLEAN :
          MayStep(t) /\ StepMove(t, i, m, started) /\ m.st \in {"skipped", "failed", "migrating"}
    BY <1>6, MayStepFacts
  <2>2. /\ plan' = plan /\ plan.moves[i].st = "queued" /\ pc'[t] = "save" /\ cur'[t] = i
        /\ Replaced(plan, copy'[t], i, m) /\ pc[t] = "pollmoves"
        /\ \A s \in Ticks \ {t} : pc'[s] = pc[s]
    BY <2>1, StepFacts
  <2>3. copy'[t].moves[i] = m
    BY <2>2 DEF Replaced
  <2>4. StepShapeAt(t)' /\ Busy(t)
    BY <2>1, <2>2, <2>3 DEF StepShapeAt, Busy
  <2> QED
    BY <1>0, <1>a, <2>2, <2>4 DEF PlanShape
<1>7. ASSUME NEW t \in Ticks, PlanSaves(t) PROVE PlanShape' /\ StepShape'
  <2>1. /\ Replaced(plan, plan', cur[t], copy[t].moves[cur[t]])
        /\ copy[t].moves[cur[t]].guest = plan.moves[cur[t]].guest
        /\ copy' = copy /\ pc[t] = "save" /\ pc'[t] = AfterStep(copy[t].moves)
        /\ \A s \in Ticks \ {t} : pc'[s] = pc[s]
    BY <1>7, SavedFacts
  <2>2. copy[t].moves \in Moves
    BY <1>0, CopyFacts
  <2>3. AfterStep(copy[t].moves) # "save"
    BY DEF AfterStep
  <2>4. StepShapeAt(t)' /\ Busy(t)
    BY <1>b, <2>1, <2>2, <2>3 DEF StepShapeAt, Busy
  <2> QED
    BY <1>0, <1>a, <2>1, <2>4, ShapeReplaced
<1>8. ASSUME NEW t \in Ticks, PlanCompletes(t) PROVE PlanShape' /\ StepShape'
  <2>1. /\ plan'.id = plan.id /\ plan'.moves = plan.moves
        /\ pc[t] = "complete" /\ pc'[t] = "decide" /\ \A s \in Ticks \ {t} : pc'[s] = pc[s]
    BY <1>8, CompleteFacts
  <2>2. StepShapeAt(t)' /\ Busy(t)
    BY <2>1 DEF StepShapeAt, Busy
  <2> QED
    BY <1>0, <1>a, <2>1, <2>2 DEF PlanShape
<1>9. CASE Next
  <2>1. PlanShape' /\ StepShape'
    BY <1>2, <1>3, <1>4, <1>5, <1>6, <1>7, <1>8, <1>9, CalmNext DEF ShapeInv
  <2> QED
    BY <1>0, <2>1 DEF ShapeInv
<1> QED
  BY <1>1, <1>9

LEMMA ShapeAlways == Faults \subseteq Benign => (Spec => []ShapeInv)
<1> SUFFICES ASSUME Faults \subseteq Benign PROVE Spec => []ShapeInv
  OBVIOUS
<1>1. Init => ShapeInv
  BY ShapeInit
<1> QED
  BY <1>1, ShapeNext, PTL DEF Spec

(* While ticks do not overlap and nothing is lost, a move once reported as done or failed
   stays so: no save of a copy read earlier, and no request of the operator, undoes it. *)
THEOREM OutcomeStays == Faults \subseteq Benign => (Spec => OutcomeFinal)
<1> DEFINE Final == plan'.id = plan.id =>
              \A i \in DOMAIN plan.moves :
                plan.moves[i].st \in {"done", "failed"} => plan'.moves[i].st = plan.moves[i].st
<1>1. ASSUME ShapeInv, ShapeInv', [Next]_vars PROVE [Final]_vars
  <2>0. CapInv' /\ plan.id \in Nat /\ plans \in Nat /\ plan.id <= plans /\ PlanShape
    BY <1>1, LBAssumption
    DEF ShapeInv, AppliedInv, PlanNumbered, CapInv, TypeInv, TypeOK, Plan
  <2>a. ASSUME NEW i, NEW m, Replaced(plan, plan', i, m),
               plan.moves[i].st \in {"queued", "migrating"}
        PROVE  Final
    BY <2>a DEF Replaced
  <2>1. CASE plan' = plan \/ plan'.moves = plan.moves
    BY <2>1
  <2>2. CASE OperatorStep \/ ProxmoxStep
    <3>1. CASE plan' = NoPlan
      BY <2>0, <3>1 DEF PlanShape, NoPlan
    <3>2. CASE \E ms \in PlanMoves :
                 plan' = [id |-> plans + 1, status |-> "draft", moves |-> ms]
      BY <2>0, <3>2
    <3> QED
      BY <1>1, <2>1, <2>2, <3>1, <3>2, OutsideFacts
  <2>3. ASSUME NEW t \in Ticks, NEW i \in DOMAIN copy[t].moves, PlanPoll(t, i) PROVE Final
    BY <1>1, <2>0, <2>3, <2>a, PollFacts
  <2>4. ASSUME NEW t \in Ticks, PlanSaves(t) PROVE Final
    BY <1>1, <2>4, <2>a, SavedFacts
  <2>5. ASSUME NEW t \in Ticks, Beside(t) \/ PlanRead(t) \/ PlanIdles(t)
        PROVE  plan' = plan
    BY <1>1, <2>5, BesideFacts DEF PlanRead, PlanIdles, ShapeInv, CapInv
  <2>6. ASSUME NEW t \in Ticks,
               PlanSkips(t) \/ PlanFireRefused(t) \/ \E k \in Tasks : PlanFires(t, k)
        PROVE  plan' = plan
    BY <2>6 DEF PlanSkips, PlanFireRefused, PlanFires, StepMove
  <2>7. ASSUME NEW t \in Ticks, PlanCompletes(t) PROVE plan'.moves = plan.moves
    BY <1>1, <2>7, CompleteFacts
  <2>8. CASE Next
    BY <1>1, <2>1, <2>2, <2>3, <2>4, <2>5, <2>6, <2>7, <2>8, CalmNext
  <2> QED
    BY <1>1, <2>8
<1> SUFFICES ASSUME Faults \subseteq Benign PROVE Spec => OutcomeFinal
  OBVIOUS
<1>2. Spec => []ShapeInv
  BY ShapeAlways
<1> QED
  BY <1>1, <1>2, PTL DEF Spec, OutcomeFinal
-----------------------------------------------------------------------------
(* What the plan reports, and the tasks. *)

(* The disturbances that leave every report true. *)
Calm == {"drift"}

(* The tasks table T has for moving guest g as plan id says. *)
TasksFor(T, id, g) == {k \in Tasks : T[k].st # "free" /\ T[k].plan = id /\ T[k].guest = g}

(* What move m of plan id reports is what its one task, if any, did or does. *)
TrueMove(T, id, m) ==
  /\ m.st \in {"queued", "skipped"} => TasksFor(T, id, m.guest) = {}
  /\ m.st = "migrating" => TasksFor(T, id, m.guest) = {m.upid}
  /\ m.st = "done" => \E k \in Tasks : TasksFor(T, id, m.guest) = {k} /\ T[k].st = "ok"
  /\ m.st = "failed" => \/ TasksFor(T, id, m.guest) = {}
                        \/ \E k \in Tasks : TasksFor(T, id, m.guest) = {k} /\ T[k].st = "error"
TruePlan(T, p) == \A i \in DOMAIN p.moves : TrueMove(T, p.id, p.moves[i])

(* The tick that executes the plan knows first: its copy is true, and the store will be;
   for a move it is about to save as failed nothing was started. *)
StepTrue(t) ==
  /\ TruePlan(task, copy[t])
  /\ pc[t] = "save" /\ copy[t].moves[cur[t]].st = "failed" =>
       TasksFor(task, copy[t].id, copy[t].moves[cur[t]].guest) = {}

AllTrue ==
  /\ (\A t \in Ticks : ~Stepping(t)) => TruePlan(task, plan)
  /\ \A t \in Ticks : Stepping(t) => StepTrue(t)

(* No task ended with warnings, and none belongs to a plan before it starts. *)
CleanTasks ==
  \A k \in Tasks : task[k].st # "warnings" /\ (task[k].st = "free" => task[k].plan = 0)

TruthInv == ShapeInv /\ Faults \subseteq Calm /\ AllTrue /\ CleanTasks

(* Tasks that belong to no plan leave the reports of a plan true. *)
LEMMA TrueBeside ==
  ASSUME NEW T, NEW U, NEW p, p.id = 0 => DOMAIN p.moves = {}, TruePlan(T, p),
         \A k \in Tasks : U[k] = T[k] \/ (T[k].st = "free" /\ U[k].plan = 0)
  PROVE  TruePlan(U, p)
<1> SUFFICES ASSUME NEW i \in DOMAIN p.moves PROVE TrueMove(U, p.id, p.moves[i])
  BY DEF TruePlan
<1> DEFINE m == p.moves[i]
<1>1. p.id # 0 /\ TrueMove(T, p.id, m)
  BY DEF TruePlan
<1>2. TasksFor(U, p.id, m.guest) = TasksFor(T, p.id, m.guest)
  BY <1>1 DEF TasksFor
<1>3. \A k \in TasksFor(T, p.id, m.guest) : U[k] = T[k]
  BY DEF TasksFor
<1> HIDE DEF m
<1>4. ASSUME NEW k \in Tasks, TasksFor(T, p.id, m.guest) = {k} PROVE U[k] = T[k]
  BY <1>3, <1>4
<1> QED
  BY <1>1, <1>2, <1>4 DEF TrueMove, m

(* The end of a task leaves the reports true: no move reports the end of a running task. *)
LEMMA TrueEnds ==
  ASSUME task \in [Tasks -> TaskRec], NEW k \in Tasks, NEW st, st # "free",
         task[k].st = "running", task' = [task EXCEPT ![k].st = st]
  PROVE  /\ \A p : TruePlan(task, p) => TruePlan(task', p)
         /\ \A id, g : TasksFor(task', id, g) = TasksFor(task, id, g)
<1>1. \A j \in Tasks : /\ task'[j].plan = task[j].plan /\ task'[j].guest = task[j].guest
                       /\ task'[j].st = IF j = k THEN st ELSE task[j].st
  BY DEF TaskRec
<1>2. \A id, g : TasksFor(task', id, g) = TasksFor(task, id, g)
  BY <1>1 DEF TasksFor
<1>3. \A j \in Tasks : task[j].st \in {"ok", "error"} => task'[j].st = task[j].st
  BY <1>1
<1>4. ASSUME NEW id, NEW m, TrueMove(task, id, m) PROVE TrueMove(task', id, m)
  <2>1. TasksFor(task', id, m.guest) = TasksFor(task, id, m.guest)
    BY <1>2
  <2> QED
    BY <1>3, <1>4, <2>1 DEF TrueMove
<1> QED
  BY <1>2, <1>4 DEF TruePlan

(* One move of a true plan is replaced by one that is true. *)
LEMMA TrueReplaced ==
  ASSUME NEW T, NEW p, NEW q, NEW i, NEW m, TruePlan(T, p), Replaced(p, q, i, m),
         TrueMove(T, p.id, m)
  PROVE  TruePlan(T, q)
BY DEF TruePlan, Replaced

(* A task is started for a queued move, which then names it. *)
LEMMA TrueStarts ==
  ASSUME task \in [Tasks -> TaskRec], PlanShape, NEW q, NEW i, NEW m, NEW dst,
         TruePlan(task, plan), Replaced(plan, q, i, m), plan.moves[i].st = "queued",
         m.st = "migrating", m.guest = plan.moves[i].guest, m.upid \in Tasks,
         StartTask(m.upid, m.guest, dst, plan.id)
  PROVE  TruePlan(task', q) /\ TasksFor(task, plan.id, m.guest) = {}
         /\ TasksFor(task', plan.id, m.guest) = {m.upid} /\ task'[m.upid].st = "running"
<1>1. /\ task[m.upid].st = "free"
      /\ task'[m.upid] = [st |-> "running", guest |-> m.guest, dst |-> dst, plan |-> plan.id]
      /\ \A k \in Tasks : k # m.upid => task'[k] = task[k]
  BY DEF StartTask
<1>2. TasksFor(task, plan.id, m.guest) = {}
  BY DEF TruePlan, TrueMove, Replaced
<1>3. TasksFor(task', plan.id, m.guest) = {m.upid}
  BY <1>1, <1>2 DEF TasksFor
<1>4. ASSUME NEW j \in DOMAIN q.moves, j # i PROVE TrueMove(task', plan.id, q.moves[j])
  <2> DEFINE o == plan.moves[j]
  <2>1. q.moves[j] = o /\ TrueMove(task, plan.id, o) /\ o.guest # m.guest
    BY <1>4 DEF Replaced, TruePlan, PlanShape
  <2> HIDE DEF o
  <2>2. TasksFor(task', plan.id, o.guest) = TasksFor(task, plan.id, o.guest)
    BY <1>1, <2>1 DEF TasksFor
  <2>3. \A k \in TasksFor(task, plan.id, o.guest) : task'[k] = task[k]
    BY <1>1, <2>1 DEF TasksFor
  <2>4. ASSUME NEW k \in Tasks, TasksFor(task, plan.id, o.guest) = {k} PROVE task'[k] = task[k]
    BY <2>3, <2>4
  <2> QED
    BY <2>1, <2>2, <2>4 DEF TrueMove
<1>5. TrueMove(task', plan.id, m)
  BY <1>3 DEF TrueMove
<1>6. \A j \in DOMAIN q.moves : TrueMove(task', q.id, q.moves[j])
  BY <1>4, <1>5 DEF Replaced
<1> QED
  BY <1>1, <1>2, <1>3, <1>6 DEF TruePlan

(* The end of a migration is told as it ended. *)
LEMMA TruePolled ==
  ASSUME CleanTasks, NEW p, NEW i \in DOMAIN p.moves, p.moves[i] \in Move,
         p.moves[i].st = "migrating", Finished(p.moves[i].upid), TruePlan(task, p)
  PROVE  LET m == PolledMove(p.moves[i]) IN
         /\ TrueMove(task, p.id, m) /\ p.moves[i].upid \in Tasks
         /\ TasksFor(task, p.id, p.moves[i].guest) = {p.moves[i].upid}
         /\ \/ m.st = "done" /\ task[p.moves[i].upid].st = "ok"
            \/ m.st = "failed" /\ task[p.moves[i].upid].st = "error"
<1> DEFINE o == p.moves[i]
           m == PolledMove(o)
<1>1. TasksFor(task, p.id, o.guest) = {o.upid}
  BY DEF TruePlan, TrueMove
<1>2. o.upid \in Tasks
  BY <1>1 DEF TasksFor
<1>3. task[o.upid].st \in {"ok", "error"}
  BY <1>2 DEF Finished, CleanTasks
<1>4. m.guest = o.guest /\ m.st = IF task[o.upid].st = "ok" THEN "done" ELSE "failed"
  BY DEF PolledMove, Move
<1> HIDE DEF o, m
<1>5. TrueMove(task, p.id, m)
  BY <1>1, <1>2, <1>3, <1>4 DEF TrueMove
<1> QED
  BY <1>1, <1>2, <1>3, <1>4, <1>5 DEF o, m
LEMMA TruthInit == Faults \subseteq Calm /\ Init => TruthInv
<1> SUFFICES ASSUME Faults \subseteq Calm, Init PROVE TruthInv
  OBVIOUS
<1>1. ShapeInv
  BY ShapeInit DEF Calm, Benign
<1>2. TruePlan(task, NoPlan)
  BY DEF TruePlan, NoPlan
<1> QED
  BY <1>1, <1>2 DEF Init, TruthInv, AllTrue, Stepping, CleanTasks

(* What is true before a tick's step, and what must be true after it. *)
LEMMA TrueAlone ==
  ASSUME TruthInv, NEW t \in Ticks, TickBegins(t) \/ Busy(t)
  PROVE  /\ Stepping(t) => StepTrue(t)
         /\ ~Stepping(t) => TruePlan(task, plan)
         /\ /\ \A s \in Ticks \ {t} : pc'[s] = pc[s]
            /\ Stepping(t)' => StepTrue(t)'
            /\ ~Stepping(t)' => TruePlan(task', plan')
            => AllTrue'
<1>1. \A s \in Ticks \ {t} : ~Stepping(s)
  BY OthersRest DEF TruthInv, ShapeInv
<1>2. Stepping(t) => StepTrue(t)
  BY DEF TruthInv, AllTrue
<1>3. ~Stepping(t) => TruePlan(task, plan)
  BY <1>1 DEF TruthInv, AllTrue
<1>4. ASSUME \A s \in Ticks \ {t} : pc'[s] = pc[s],
             Stepping(t)' => StepTrue(t)',
             ~Stepping(t)' => TruePlan(task', plan')
      PROVE  AllTrue'
  <2>1. \A s \in Ticks \ {t} : ~Stepping(s)'
    BY <1>1, <1>4 DEF Stepping
  <2> QED
    BY <1>4, <2>1 DEF AllTrue
<1> QED
  BY <1>2, <1>3, <1>4

(* Nothing ran for a plan that is new. *)
LEMMA TrueNew ==
  ASSUME ShapeInv, NEW ms \in PlanMoves, NEW p,
         p = [id |-> plans + 1, status |-> "draft", moves |-> ms]
  PROVE  TruePlan(task, p) /\ \A g : TasksFor(task, p.id, g) = {}
<1>1. plans \in Nat /\ applied \subseteq 1..plans
      /\ \A k \in Tasks : task[k].plan \in applied \cup {0}
  BY LBAssumption DEF ShapeInv, AppliedInv, PlanNumbered, OnlyApplied, TypeInv, TypeOK
<1>2. \A k \in Tasks : task[k].plan # plans + 1
  <2>1. plans + 1 \notin 1..plans /\ plans + 1 # 0
    BY <1>1
  <2> QED
    BY <1>1, <2>1
<1>3. \A g : TasksFor(task, p.id, g) = {}
  BY <1>2 DEF TasksFor
<1>4. \A i \in DOMAIN ms : ms[i].st = "queued"
  BY DEF PlanMoves
<1> QED
  BY <1>3, <1>4 DEF TruePlan, TrueMove

LEMMA TruthNext == TruthInv /\ [Next]_vars => TruthInv'
<1> SUFFICES ASSUME TruthInv, [Next]_vars PROVE TruthInv'
  OBVIOUS
<1>0. /\ ShapeInv /\ ShapeInv' /\ CapInv /\ CapInv' /\ TypeInv /\ PlanShape
      /\ task \in [Tasks -> TaskRec] /\ pc \in [Ticks -> TickPc] /\ copy \in [Ticks -> Plan]
      /\ AllTrue /\ CleanTasks /\ Faults \subseteq Calm /\ ~Disturb("warnings")
  BY ShapeNext DEF TruthInv, ShapeInv, CapInv, TypeInv, TypeOK, Disturb, Calm
<1>1. CASE UNCHANGED vars
  BY <1>0, <1>1 DEF vars, TruthInv, AllTrue, StepTrue, CleanTasks, Stepping
<1>2. ASSUME OperatorStep \/ ProxmoxStep PROVE AllTrue' /\ CleanTasks'
  <2>1. UNCHANGED <<pc, copy, cur>>
    BY <1>0, <1>2, OutsideFacts
  <2>2. CASE plan' = plan /\ UNCHANGED task
    BY <1>0, <2>1, <2>2 DEF AllTrue, StepTrue, CleanTasks, Stepping
  <2>3. CASE ~PlanRuns(plan) /\ UNCHANGED task
    <3>1. \A t \in Ticks : ~Stepping(t)
      BY <1>0, <2>3 DEF CapInv, CapParts, CopyCurrent, CopyCurrentAt, Stepping
    <3>2. TruePlan(task, plan)
      BY <1>0, <3>1 DEF AllTrue
    <3>3. TruePlan(task, plan')
      <4>1. CASE plan' = NoPlan
        BY <4>1 DEF TruePlan, NoPlan
      <4>2. CASE \E ms \in PlanMoves :
                   plan' = [id |-> plans + 1, status |-> "draft", moves |-> ms]
        BY <1>0, <4>2, TrueNew
      <4>3. CASE plan' = plan \/ (plan'.id = plan.id /\ plan'.moves = plan.moves)
        BY <3>2, <4>3 DEF TruePlan
      <4> QED
        BY <1>0, <1>2, <4>1, <4>2, <4>3, OutsideFacts
    <3> QED
      BY <1>0, <2>1, <2>3, <3>1, <3>3 DEF AllTrue, CleanTasks, Stepping
  <2>4. CASE plan' = plan /\ ~UNCHANGED task
    <3>1. PICK k \in Tasks, st \in {"ok", "warnings", "error"} :
            task[k].st = "running" /\ task' = [task EXCEPT ![k].st = st] /\ st # "warnings"
      BY <1>0, <1>2, <2>4, OutsideFacts
    <3>2. /\ \A p : TruePlan(task, p) => TruePlan(task', p)
          /\ \A id, g : TasksFor(task', id, g) = TasksFor(task, id, g)
      BY <1>0, <3>1, TrueEnds
    <3>3. CleanTasks'
      BY <1>0, <3>1 DEF CleanTasks, TaskRec
    <3> QED
      BY <1>0, <2>1, <2>4, <3>2, <3>3 DEF AllTrue, StepTrue, Stepping
  <2> QED
    BY <1>0, <1>2, <2>2, <2>3, <2>4, OutsideFacts
<1>3. ASSUME NEW t \in Ticks, Beside(t) PROVE AllTrue' /\ CleanTasks'
  <2>1. /\ plan' = plan
        /\ \A k \in Tasks : \/ task'[k] = task[k]
                            \/ task[k].st = "free" /\ task'[k].st = "running" /\ task'[k].plan = 0
    BY <1>0, <1>3, BesideFacts
  <2>2. \A s \in Ticks : ~Stepping(s) /\ ~Stepping(s)'
    BY <1>0, <1>3, BesideAlone
  <2>3. TruePlan(task, plan)
    BY <1>0, <2>2 DEF AllTrue
  <2>4. TruePlan(task', plan)
    BY <1>0, <2>1, <2>3, TrueBeside DEF PlanShape
  <2> QED
    BY <1>0, <2>1, <2>2, <2>4 DEF AllTrue, CleanTasks
<1>4. ASSUME NEW t \in Ticks, PlanRead(t) \/ PlanIdles(t) PROVE AllTrue' /\ CleanTasks'
  <2>1. /\ UNCHANGED <<plan, task>> /\ Busy(t)
        /\ \A s \in Ticks \ {t} : pc'[s] = pc[s]
    BY <1>0, <1>4 DEF PlanRead, PlanIdles, Busy, proxmoxVars
  <2>2. TruePlan(task, plan) /\ (Stepping(t)' => copy'[t] = plan /\ pc'[t] # "save")
    <3>1. CASE PlanRead(t)
      <4>1. ~Stepping(t)
        BY <3>1 DEF PlanRead, Stepping
      <4>2. Stepping(t)' => copy'[t] = plan /\ pc'[t] # "save"
        BY <1>0, <3>1 DEF PlanRead, Stepping
      <4> QED
        BY <2>1, <4>1, <4>2, TrueAlone
    <3>2. CASE PlanIdles(t)
      <4>1. pc[t] = "pollmoves" /\ copy' = copy /\ pc'[t] # "save"
        BY <1>0, <3>2 DEF PlanIdles, AfterStep
      <4>2. plan = copy[t]
        BY <1>0, <2>1, <4>1, TickCounts DEF CopyCurrentAt
      <4> QED
        BY <2>1, <4>1, <4>2, TrueAlone DEF Stepping, StepTrue
    <3> QED
      BY <1>4, <3>1, <3>2
  <2> QED
    BY <1>0, <2>1, <2>2, TrueAlone DEF CleanTasks, StepTrue
<1>5. ASSUME NEW t \in Ticks, NEW i \in DOMAIN copy[t].moves, PlanPoll(t, i)
      PROVE  AllTrue' /\ CleanTasks'
  <2>1. /\ plan = copy[t] /\ plan' = copy'[t] /\ plan.moves[i] \in Move
        /\ plan.moves[i].st = "migrating" /\ Finished(plan.moves[i].upid)
        /\ Replaced(plan, plan', i, PolledMove(plan.moves[i])) /\ UNCHANGED <<task, pc>>
    BY <1>0, <1>5, PollFacts
  <2>2. Busy(t) /\ Stepping(t) /\ pc'[t] # "save"
    BY <1>5, <2>1 DEF PlanPoll, Busy, Stepping
  <2>3. TruePlan(task, plan)
    BY <2>1, <2>2, TrueAlone DEF StepTrue
  <2>4. TrueMove(task, plan.id, PolledMove(plan.moves[i]))
    BY <1>0, <2>1, <2>3, TruePolled
  <2>5. TruePlan(task, plan')
    BY <2>1, <2>3, <2>4, TrueReplaced
  <2> QED
    BY <1>0, <2>1, <2>2, <2>5, TrueAlone DEF CleanTasks, StepTrue
<1>6. ASSUME NEW t \in Ticks,
             PlanSkips(t) \/ PlanFireRefused(t) \/ \E k \in Tasks : PlanFires(t, k)
      PROVE  AllTrue' /\ CleanTasks'
  <2>1. PICK i \in NextQueued(copy[t].moves), m \in Move, started \in BOOLEAN :
          /\ MayStep(t) /\ StepMove(t, i, m, started)
          /\ m.guest = copy[t].moves[i].guest
          /\ \/ m.st \in {"skipped", "failed"} /\ UNCHANGED task
             \/ /\ m.st = "migrating" /\ m.upid \in Tasks
                /\ StartTask(m.upid, m.guest, copy[t].moves[i].dst, copy[t].id)
    BY <1>0, <1>6, MayStepFacts
  <2>2. /\ plan = copy[t] /\ plan.moves[i].st = "queued" /\ Replaced(plan, copy'[t], i, m)
        /\ pc[t] = "pollmoves" /\ pc'[t] = "save" /\ cur'[t] = i
        /\ \A s \in Ticks \ {t} : pc'[s] = pc[s]
    BY <1>0, <2>1, StepFacts
  <2>3. Busy(t) /\ Stepping(t) /\ Stepping(t)'
    BY <2>2 DEF Busy, Stepping
  <2>4. TruePlan(task, plan)
    BY <2>2, <2>3, TrueAlone DEF StepTrue
  <2>5. copy'[t].moves[i] = m /\ copy'[t].id = plan.id
    BY <2>2 DEF Replaced
  <2>6. StepTrue(t)' /\ CleanTasks'
    <3>1. CASE m.st \in {"skipped", "failed"} /\ UNCHANGED task
      <4>1. TrueMove(task, plan.id, m) /\ TasksFor(task, plan.id, m.guest) = {}
        BY <2>1, <2>2, <2>4, <3>1 DEF TrueMove, TruePlan, Replaced
      <4>2. TruePlan(task, copy'[t])
        BY <2>2, <2>4, <4>1, TrueReplaced
      <4> QED
        BY <1>0, <2>2, <2>5, <3>1, <4>1, <4>2 DEF CleanTasks, StepTrue
    <3>2. CASE /\ m.st = "migrating" /\ m.upid \in Tasks
               /\ StartTask(m.upid, m.guest, copy[t].moves[i].dst, copy[t].id)
      <4>0. /\ StartTask(m.upid, m.guest, plan.moves[i].dst, plan.id)
            /\ m.guest = plan.moves[i].guest
        BY <2>1, <2>2, <3>2
      <4>1. TruePlan(task', copy'[t]) /\ task'[m.upid].st = "running"
        BY <1>0, <2>2, <2>4, <3>2, <4>0, TrueStarts
      <4>2. \A k \in Tasks : k # m.upid => task'[k] = task[k]
        BY <1>0, <3>2 DEF StartTask
      <4> QED
        BY <1>0, <2>2, <2>5, <3>2, <4>1, <4>2 DEF CleanTasks, StepTrue
    <3> QED
      BY <2>1, <3>1, <3>2
  <2> QED
    BY <2>2, <2>3, <2>6, TrueAlone
<1>7. ASSUME NEW t \in Ticks, PlanSaves(t) PROVE AllTrue' /\ CleanTasks'
  <2>1. /\ plan' = copy[t] /\ UNCHANGED <<task, copy>> /\ pc[t] = "save"
        /\ pc'[t] = AfterStep(copy[t].moves) /\ \A s \in Ticks \ {t} : pc'[s] = pc[s]
    BY <1>0, <1>7, SavedFacts
  <2>2. Busy(t) /\ Stepping(t) /\ pc'[t] # "save"
    BY <2>1 DEF Busy, Stepping, AfterStep
  <2> QED
    BY <1>0, <2>1, <2>2, TrueAlone DEF CleanTasks, StepTrue
<1>8. ASSUME NEW t \in Ticks, PlanCompletes(t) PROVE AllTrue' /\ CleanTasks'
  <2>1. /\ plan = copy[t] /\ plan'.id = plan.id /\ plan'.moves = plan.moves /\ UNCHANGED task
        /\ pc[t] = "complete" /\ pc'[t] = "decide" /\ \A s \in Ticks \ {t} : pc'[s] = pc[s]
    BY <1>0, <1>8, CompleteFacts
  <2>2. Busy(t) /\ Stepping(t) /\ ~Stepping(t)'
    BY <2>1 DEF Busy, Stepping
  <2>3. TruePlan(task, plan')
    BY <2>1, <2>2, TrueAlone DEF TruePlan, StepTrue
  <2> QED
    BY <1>0, <2>1, <2>2, <2>3, TrueAlone DEF CleanTasks
<1>9. CASE Next
  <2>1. AllTrue' /\ CleanTasks'
    BY <1>0, <1>2, <1>3, <1>4, <1>5, <1>6, <1>7, <1>8, <1>9, CalmNext DEF TruthInv
  <2> QED
    BY <1>0, <2>1 DEF TruthInv
<1> QED
  BY <1>1, <1>9

LEMMA TruthAlways == Faults \subseteq Calm => (Spec => []TruthInv)
<1> SUFFICES ASSUME Faults \subseteq Calm PROVE Spec => []TruthInv
  OBVIOUS
<1>1. Init => TruthInv
  BY TruthInit
<1> QED
  BY <1>1, TruthNext, PTL DEF Spec

(* The plan as stored, move by move: true, or queued and just being carried out. *)
LEMMA StoredMoves ==
  ASSUME TruthInv, NEW i \in DOMAIN plan.moves
  PROVE  /\ \/ TrueMove(task, plan.id, plan.moves[i])
            \/ /\ plan.moves[i].st = "queued"
               /\ \E m : m.st \in MoveStatus /\ m.guest = plan.moves[i].guest
                         /\ TrueMove(task, plan.id, m)
         /\ (\A t \in Ticks : pc[t] # "save") => TrueMove(task, plan.id, plan.moves[i])
<1>0. CapInv /\ ShapeInv /\ TypeInv /\ plan.moves \in Moves
  BY DEF TruthInv, ShapeInv, CapInv, TypeInv, TypeOK, Plan
<1>1. CASE \A t \in Ticks : ~Stepping(t)
  BY <1>1 DEF TruthInv, AllTrue, TruePlan
<1>2. ASSUME NEW t \in Ticks, Stepping(t), pc[t] # "save"
      PROVE  TrueMove(task, plan.id, plan.moves[i])
  <2>1. plan = copy[t]
    BY <1>0, <1>2, TickCounts DEF CopyCurrentAt, Stepping, Busy
  <2> QED
    BY <1>2, <2>1 DEF TruthInv, AllTrue, StepTrue, TruePlan
<1>3. ASSUME NEW t \in Ticks, pc[t] = "save"
      PROVE  \/ TrueMove(task, plan.id, plan.moves[i])
             \/ /\ plan.moves[i].st = "queued"
                /\ \E m : m.st \in MoveStatus /\ m.guest = plan.moves[i].guest
                          /\ TrueMove(task, plan.id, m)
  <2>1. /\ plan.id = copy[t].id /\ DOMAIN plan.moves = DOMAIN copy[t].moves
        /\ copy[t].moves[i] = IF i = cur[t] THEN SavedMove(plan.moves[i], copy[t].moves[i])
                                            ELSE plan.moves[i]
    BY <1>0, <1>3, TickCounts DEF CopyCurrentAt, Busy
  <2>2. TrueMove(task, plan.id, copy[t].moves[i])
    BY <1>3, <2>1 DEF TruthInv, AllTrue, StepTrue, TruePlan, Stepping
  <2>3. CASE i = cur[t]
    <3>1. plan.moves[i].st = "queued"
      BY <1>3, <2>3 DEF TruthInv, ShapeInv, StepShape, StepShapeAt
    <3>2. plan.moves[i] \in Move /\ copy[t].moves[i] \in Move
      BY <1>0, <2>1, MovesDomain, CopyFacts
    <3>3. copy[t].moves[i].guest = plan.moves[i].guest
      <4>1. \A m : SavedMove(plan.moves[i], m).guest = plan.moves[i].guest
        BY <3>2 DEF SavedMove, Move
      <4> QED
        BY <2>1, <2>3, <4>1
    <3>4. copy[t].moves[i].st \in MoveStatus
      BY <3>2 DEF Move
    <3> QED
      BY <2>2, <3>1, <3>3, <3>4
  <2> QED
    BY <2>1, <2>2, <2>3
<1> QED
  BY <1>1, <1>2, <1>3 DEF Stepping

(* While no reply, write or tick is lost and no migration ends with warnings, a move that
   the plan reports as skipped or failed was not carried out for it. *)
THEOREM PlanTellsTruth == Faults \subseteq Calm => (Spec => []PlanTruthful)
<1>1. ASSUME TruthInv PROVE PlanTruthful
  <2> SUFFICES ASSUME NEW k \in Tasks, NEW i \in DOMAIN plan.moves,
                      plan.moves[i].st \in {"skipped", "failed"},
                      task[k].plan = plan.id, task[k].guest = plan.moves[i].guest
               PROVE  task[k].st = "error"
    BY DEF PlanTruthful
  <2>1. TrueMove(task, plan.id, plan.moves[i])
    BY <1>1, StoredMoves
  <2> QED
    BY <1>1, <2>1 DEF TrueMove, TasksFor, TruthInv, ShapeInv, PlanShape, CleanTasks
<1>2. TruthInv => PlanTruthful
  BY <1>1
<1> QED
  BY <1>2, TruthAlways, PTL
-----------------------------------------------------------------------------
(* The refinement of RebalancePlan *)

(* What became of a move, before and after a step. *)
LEMMA RunIs ==
  ASSUME NEW i
  PROVE  /\ TasksOf(i) = {} => RunOf(i) = "no"
         /\ \A k : TasksOf(i) = {k} => RunOf(i) = task[k].st
         /\ TasksOf(i)' = {} => RunOf(i)' = "no"
         /\ \A k : TasksOf(i)' = {k} => RunOf(i)' = task'[k].st
<1>1. ASSUME NEW k PROVE Cardinality({k}) = 1 /\ {k} # {} /\ (CHOOSE j \in {k} : TRUE) = k
  BY FS_Singleton
<1>0. Cardinality({}) # 1
  BY FS_EmptySet
<1>2. TasksOf(i) = {} => RunOf(i) = "no"
  BY <1>0 DEF RunOf
<1>3. TasksOf(i)' = {} => RunOf(i)' = "no"
  BY <1>0 DEF RunOf
<1>4. ASSUME NEW k, TasksOf(i) = {k} PROVE RunOf(i) = task[k].st
  <2>1. TasksOf(i) # {} /\ Cardinality(TasksOf(i)) = 1 /\ (CHOOSE j \in TasksOf(i) : TRUE) = k
    BY <1>1, <1>4
  <2> QED
    BY <2>1 DEF RunOf
<1>5. ASSUME NEW k, TasksOf(i)' = {k} PROVE RunOf(i)' = task'[k].st
  <2>1. TasksOf(i)' # {} /\ Cardinality(TasksOf(i)') = 1
        /\ (CHOOSE j \in TasksOf(i)' : TRUE) = k
    BY <1>1, <1>5
  <2> QED
    BY <2>1 DEF RunOf
<1> QED
  BY <1>2, <1>3, <1>4, <1>5

LEMMA TasksAre ==
  ASSUME NEW i
  PROVE  /\ TasksOf(i) = TasksFor(task, plan.id, plan.moves[i].guest)
         /\ TasksOf(i)' = TasksFor(task', plan'.id, plan'.moves[i].guest)
BY DEF TasksOf, TasksFor

(* A move has at most one task. *)
LEMMA OneTask ==
  ASSUME TruthInv, NEW i \in DOMAIN plan.moves
  PROVE  TasksOf(i) = {} \/ \E k \in Tasks : TasksOf(i) = {k}
<1>0. plan.moves[i].st \in MoveStatus
  <2>1. plan.moves \in Moves
    BY DEF TruthInv, ShapeInv, CapInv, TypeInv, TypeOK, Plan
  <2> QED
    BY <2>1, MovesDomain DEF Move
<1>1. PICK m : m.st \in MoveStatus /\ m.guest = plan.moves[i].guest
               /\ TrueMove(task, plan.id, m)
  BY <1>0, StoredMoves
<1>2. TasksOf(i) = TasksFor(task, plan.id, m.guest)
  BY <1>1, TasksAre
<1>3. \A k : TasksFor(task, plan.id, m.guest) = {k} => k \in Tasks
  BY DEF TasksFor
<1> QED
  BY <1>1, <1>2, <1>3 DEF TrueMove, MoveStatus

(* The abstract steps in terms of the stored plan. *)
LEMMA AbstractSame ==
  ASSUME plan' = plan, \A j \in DOMAIN plan.moves : RunOf(j)' = RunOf(j)
  PROVE  UNCHANGED Abstract!vars
<1>1. [j \in DOMAIN plan'.moves |-> RunOf(j)'] = [j \in DOMAIN plan.moves |-> RunOf(j)]
  OBVIOUS
<1> QED
  BY <1>1 DEF Abstract!vars

LEMMA AbstractGoes ==
  ASSUME plan' = plan, NEW i \in DOMAIN plan.moves,
         \A j \in DOMAIN plan.moves : j # i => RunOf(j)' = RunOf(j), NEW s, RunOf(i)' = s
  PROVE  Abstract!Go(i, s)
BY DEF Abstract!Go

LEMMA AbstractSays ==
  ASSUME NEW i, NEW m, Replaced(plan, plan', i, m), m.guest = plan.moves[i].guest,
         \A j \in DOMAIN plan.moves : RunOf(j)' = RunOf(j)
  PROVE  Abstract!Say(i, m.st)
BY DEF Abstract!Say, Replaced
LEMMA AbstractKeeps ==
  ASSUME plan'.moves = plan.moves, \A j \in DOMAIN plan.moves : RunOf(j)' = RunOf(j)
  PROVE  /\ [j \in DOMAIN plan.moves |-> plan.moves[j].guest]'
              = [j \in DOMAIN plan.moves |-> plan.moves[j].guest]
         /\ [j \in DOMAIN plan.moves |-> plan.moves[j].st]'
              = [j \in DOMAIN plan.moves |-> plan.moves[j].st]
         /\ [j \in DOMAIN plan.moves |-> RunOf(j)]' = [j \in DOMAIN plan.moves |-> RunOf(j)]
OBVIOUS

(* The run of a move is the same if its tasks are. *)
LEMMA RunKept ==
  ASSUME TruthInv, NEW i \in DOMAIN plan.moves, TasksOf(i)' = TasksOf(i),
         \A k \in Tasks : k \in TasksOf(i) => task'[k].st = task[k].st
  PROVE  RunOf(i)' = RunOf(i)
<1>1. TasksOf(i) = {} \/ \E k \in Tasks : TasksOf(i) = {k}
  BY OneTask
<1>2. CASE TasksOf(i) = {}
  BY <1>2, RunIs
<1>3. ASSUME NEW k \in Tasks, TasksOf(i) = {k} PROVE RunOf(i)' = RunOf(i)
  <2>1. RunOf(i) = task[k].st /\ RunOf(i)' = task'[k].st
    BY <1>3, RunIs
  <2>2. k \in TasksOf(i)
    BY <1>3
  <2> QED
    BY <2>1, <2>2
<1> QED
  BY <1>1, <1>2, <1>3

(* A plan of which at most statuses changed has the same runs while the tasks rest. *)
LEMMA RunsRest ==
  ASSUME TruthInv, UNCHANGED task, plan'.id = plan.id,
         \A j \in DOMAIN plan.moves : plan'.moves[j].guest = plan.moves[j].guest
  PROVE  \A j \in DOMAIN plan.moves : RunOf(j)' = RunOf(j)
<1> SUFFICES ASSUME NEW j \in DOMAIN plan.moves PROVE RunOf(j)' = RunOf(j)
  OBVIOUS
<1>1. TasksOf(j)' = TasksOf(j)
  BY TasksAre
<1> QED
  BY <1>1, RunKept
(* Starting a move of the plan. *)
LEMMA RefinesStart ==
  ASSUME TruthInv, NEW t \in Ticks, NEW i \in NextQueued(copy[t].moves), NEW m \in Move,
         NEW started \in BOOLEAN, MayStep(t), StepMove(t, i, m, started),
         m.guest = copy[t].moves[i].guest, m.st = "migrating", m.upid \in Tasks,
         StartTask(m.upid, m.guest, copy[t].moves[i].dst, copy[t].id)
  PROVE  Abstract!Next
<1>0. ShapeInv /\ CapInv /\ PlanShape /\ task \in [Tasks -> TaskRec]
  BY DEF TruthInv, ShapeInv, CapInv, TypeInv, TypeOK
<1>1. /\ plan = copy[t] /\ plan' = plan /\ plan.status = "active" /\ i \in DOMAIN plan.moves
      /\ plan.moves[i].st = "queued" /\ Replaced(plan, copy'[t], i, m) /\ pc[t] = "pollmoves"
  BY <1>0, StepFacts DEF PlanRuns
<1>2. TruePlan(task, plan)
  BY <1>0, <1>1, TrueAlone DEF Stepping, Busy, StepTrue
<1>3. m.guest = plan.moves[i].guest /\ StartTask(m.upid, m.guest, plan.moves[i].dst, plan.id)
  BY <1>1
<1>4. /\ TasksFor(task, plan.id, m.guest) = {}
      /\ TasksFor(task', plan.id, m.guest) = {m.upid} /\ task'[m.upid].st = "running"
  BY <1>0, <1>1, <1>2, <1>3, TrueStarts
<1>5. RunOf(i) = "no" /\ RunOf(i)' = "running"
  BY <1>1, <1>3, <1>4, TasksAre, RunIs
<1>6. ASSUME NEW j \in DOMAIN plan.moves, j # i PROVE RunOf(j)' = RunOf(j)
  <2>1. plan.moves[j].guest # m.guest
    BY <1>0, <1>1, <1>3, <1>6 DEF PlanShape
  <2>2. /\ task[m.upid].st = "free" /\ task'[m.upid].guest = m.guest
        /\ \A k \in Tasks : k # m.upid => task'[k] = task[k]
    BY <1>0, <1>3 DEF StartTask
  <2>3. TasksOf(j)' = TasksOf(j) /\ m.upid \notin TasksOf(j)
    BY <1>1, <2>1, <2>2 DEF TasksOf
  <2> QED
    BY <2>2, <2>3, RunKept
<1>7. Abstract!Go(i, "running")
  BY <1>1, <1>5, <1>6, AbstractGoes
<1>8. Abstract!Start(i)
  BY <1>1, <1>5, <1>7 DEF Abstract!Start
<1> QED
  BY <1>1, <1>8 DEF Abstract!Next

(* Reporting an outcome. *)
LEMMA RefinesPoll ==
  ASSUME TruthInv, CapInv', NEW t \in Ticks, NEW i \in DOMAIN copy[t].moves, PlanPoll(t, i)
  PROVE  Abstract!Next
<1>1. /\ plan = copy[t] /\ plan.status = "active" /\ plan.moves[i] \in Move
      /\ plan.moves[i].st = "migrating" /\ Finished(plan.moves[i].upid)
      /\ Replaced(plan, plan', i, PolledMove(plan.moves[i])) /\ UNCHANGED task
  BY PollFacts DEF TruthInv, PlanRuns
<1>2. pc[t] = "pollmoves"
  BY DEF PlanPoll
<1>3. TruePlan(task, plan) /\ CleanTasks
  BY <1>1, <1>2, TrueAlone DEF Stepping, Busy, StepTrue, TruthInv
<1>m. PICK m : m = PolledMove(plan.moves[i])
  OBVIOUS
<1>4. /\ TasksFor(task, plan.id, plan.moves[i].guest) = {plan.moves[i].upid}
      /\ \/ m.st = "done" /\ task[plan.moves[i].upid].st = "ok"
         \/ m.st = "failed" /\ task[plan.moves[i].upid].st = "error"
  BY <1>1, <1>3, <1>m, TruePolled
<1>5. RunOf(i) = task[plan.moves[i].upid].st
  BY <1>4, TasksAre, RunIs
<1>6. m.guest = plan.moves[i].guest
  BY <1>1, <1>m DEF PolledMove, Move
<1>r. Replaced(plan, plan', i, m)
  BY <1>1, <1>m
<1>7. \A j \in DOMAIN plan.moves : RunOf(j)' = RunOf(j)
  <2>1. plan'.id = plan.id
        /\ \A j \in DOMAIN plan.moves : plan'.moves[j].guest = plan.moves[j].guest
    BY <1>6, <1>r DEF Replaced
  <2> QED
    BY <1>1, <2>1, RunsRest
<1>8. Abstract!Say(i, m.st)
  BY <1>6, <1>7, <1>r, AbstractSays
<1>9. Abstract!Conclude(i)
  BY <1>1, <1>4, <1>5, <1>8 DEF Abstract!Conclude
<1> QED
  BY <1>1, <1>9 DEF Abstract!Next

(* Reporting that a migration runs, or that none will. *)
LEMMA RefinesSave ==
  ASSUME TruthInv, NEW t \in Ticks, PlanSaves(t)
  PROVE  Abstract!Next
<1>0. PICK i, m : i = cur[t] /\ m = copy[t].moves[i]
  OBVIOUS
<1>1. /\ plan' = copy[t] /\ plan.status = "active" /\ UNCHANGED task
      /\ Replaced(plan, plan', i, m) /\ plan.moves[i].st = "queued"
      /\ m.guest = plan.moves[i].guest /\ m.st \in {"skipped", "failed", "migrating"}
      /\ pc[t] = "save" /\ i \in DOMAIN plan.moves /\ plan.id = copy[t].id
      /\ i \in DOMAIN copy[t].moves
  BY <1>0, SavedFacts DEF TruthInv, PlanRuns, Replaced
<1>2. StepTrue(t) /\ task \in [Tasks -> TaskRec]
  BY <1>1, TrueAlone DEF Stepping, Busy, TruthInv, ShapeInv, CapInv, TypeInv, TypeOK
<1>3. TrueMove(task, plan.id, m)
  BY <1>0, <1>1, <1>2 DEF StepTrue, TruePlan
<1>4. m.st = "failed" => TasksFor(task, plan.id, m.guest) = {}
  BY <1>0, <1>1, <1>2 DEF StepTrue
<1>5. \A j \in DOMAIN plan.moves : RunOf(j)' = RunOf(j)
  <2>1. plan'.id = plan.id
        /\ \A j \in DOMAIN plan.moves : plan'.moves[j].guest = plan.moves[j].guest
    BY <1>1 DEF Replaced
  <2> QED
    BY <1>1, <2>1, RunsRest
<1>6. Abstract!Say(i, m.st)
  BY <1>1, <1>5, AbstractSays
<1>7. TasksOf(i) = TasksFor(task, plan.id, m.guest)
  BY <1>1, TasksAre
<1>8. CASE m.st = "migrating"
  <2>1. TasksOf(i) = {m.upid}
    BY <1>3, <1>7, <1>8 DEF TrueMove
  <2>2. RunOf(i) = task[m.upid].st /\ m.upid \in Tasks
    BY <2>1, RunIs DEF TasksOf
  <2>3. RunOf(i) # "no"
    BY <1>2, <2>2 DEF TaskRec
  <2>4. Abstract!Announce(i)
    BY <1>1, <1>6, <1>8, <2>3 DEF Abstract!Announce
  <2> QED
    BY <1>1, <2>4 DEF Abstract!Next
<1>9. CASE m.st \in {"skipped", "failed"}
  <2>1. RunOf(i) = "no"
    BY <1>3, <1>4, <1>7, <1>9, RunIs DEF TrueMove
  <2>2. Abstract!GiveUp(i)
    BY <1>1, <1>6, <1>9, <2>1 DEF Abstract!GiveUp
  <2> QED
    BY <1>1, <2>2 DEF Abstract!Next
<1> QED
  BY <1>1, <1>8, <1>9
(* The end of the plan. *)
LEMMA RefinesComplete ==
  ASSUME TruthInv, NEW t \in Ticks, PlanCompletes(t)
  PROVE  Abstract!Next
<1>1. /\ plan.status = "active" /\ ~Unresolved(plan.moves) /\ plan'.status = "completed"
      /\ plan'.id = plan.id /\ plan'.moves = plan.moves /\ UNCHANGED task
  BY CompleteFacts DEF TruthInv, PlanRuns
<1>2. \A i \in DOMAIN plan.moves : plan.moves[i].st \in Abstract!Ended
  <2>1. plan.moves \in Moves
    BY DEF TruthInv, ShapeInv, CapInv, TypeInv, TypeOK, Plan
  <2>2. \A i \in DOMAIN plan.moves : plan.moves[i].st \in MoveStatus
    BY <2>1, MovesDomain DEF Move
  <2>3. \A i \in DOMAIN plan.moves : plan.moves[i].st \notin {"queued", "migrating"}
    BY <1>1 DEF Unresolved, Queued, Migrating
  <2> QED
    BY <2>2, <2>3 DEF MoveStatus, Abstract!Ended
<1>3. \A j \in DOMAIN plan.moves : RunOf(j)' = RunOf(j)
  BY <1>1, RunsRest
<1>4. Abstract!Complete
  BY <1>1, <1>2, <1>3, AbstractKeeps DEF Abstract!Complete
<1> QED
  BY <1>4 DEF Abstract!Next

(* Applying a draft, computing or removing a plan. *)
LEMMA RefinesOperator ==
  ASSUME TruthInv, ~PlanRuns(plan), UNCHANGED task,
         \/ plan' = NoPlan
         \/ \E ms \in PlanMoves : plan' = [id |-> plans + 1, status |-> "draft", moves |-> ms]
         \/ /\ plan.status = "draft" /\ plan'.status = "active"
            /\ plan'.id = plan.id /\ plan'.moves = plan.moves
  PROVE  Abstract!Next
<1>0. plan.status # "active"
  BY DEF PlanRuns
<1>1. CASE plan' = NoPlan
  <2>1. plan'.status = "none" /\ plan'.moves = << >>
    BY <1>1 DEF NoPlan
  <2>2. Abstract!Replace
    BY <1>0, <2>1 DEF Abstract!Replace
  <2> QED
    BY <2>2 DEF Abstract!Next
<1>2. ASSUME NEW ms \in PlanMoves,
             plan' = [id |-> plans + 1, status |-> "draft", moves |-> ms]
      PROVE  Abstract!Next
  <2>1. /\ plan'.status = "draft" /\ plan'.moves = ms
        /\ \A g : TasksFor(task', plan'.id, g) = {}
    BY <1>2, TrueNew DEF TruthInv
  <2>2. PICK n \in Nat \ {0} : /\ DOMAIN ms = 1..n
                               /\ \A i \in 1..n : ms[i].guest \in Guests /\ ms[i].st = "queued"
    <3>1. Cardinality(Guests) \in Nat
      BY LBAssumption, FS_CardinalityType
    <3> QED
      BY <3>1 DEF PlanMoves
  <2>3. \A i \in DOMAIN ms : RunOf(i)' = "no"
    BY <2>1, TasksAre, RunIs
  <2>4. [i \in DOMAIN ms |-> ms[i].guest] \in Seq(Guests) \ {<< >>}
    BY <2>2
  <2>5. Abstract!Replace
    BY <1>0, <2>1, <2>2, <2>3, <2>4 DEF Abstract!Replace
  <2> QED
    BY <2>5 DEF Abstract!Next
<1>3. CASE /\ plan.status = "draft" /\ plan'.status = "active"
           /\ plan'.id = plan.id /\ plan'.moves = plan.moves
  <2>1. \A j \in DOMAIN plan.moves : RunOf(j)' = RunOf(j)
    BY <1>3, RunsRest
  <2>2. Abstract!Apply
    BY <1>3, <2>1, AbstractKeeps DEF Abstract!Apply
  <2> QED
    BY <2>2 DEF Abstract!Next
<1> QED
  BY <1>1, <1>2, <1>3

(* The end of a task is the end of the move it was started for, if there is one. *)
LEMMA RefinesEnd ==
  ASSUME TruthInv, plan' = plan, NEW k \in Tasks, NEW st \in {"ok", "error"},
         task[k].st = "running", task' = [task EXCEPT ![k].st = st]
  PROVE  Abstract!Next \/ UNCHANGED Abstract!vars
<1>0. task \in [Tasks -> TaskRec] /\ PlanShape
  BY DEF TruthInv, ShapeInv, CapInv, TypeInv, TypeOK
<1>1. \A j : TasksOf(j)' = TasksOf(j)
  <2>1. \A id, g : TasksFor(task', id, g) = TasksFor(task, id, g)
    BY <1>0, TrueEnds
  <2> QED
    BY <2>1, TasksAre
<1>2. task'[k].st = st /\ \A l \in Tasks : l # k => task'[l] = task[l]
  BY <1>0 DEF TaskRec
<1>3. ASSUME NEW j \in DOMAIN plan.moves, k \notin TasksOf(j) PROVE RunOf(j)' = RunOf(j)
  BY <1>1, <1>2, <1>3, RunKept
<1>4. CASE \A i \in DOMAIN plan.moves : k \notin TasksOf(i)
  BY <1>3, <1>4, AbstractSame
<1>5. ASSUME NEW i \in DOMAIN plan.moves, k \in TasksOf(i) PROVE Abstract!Next
  <2>1. \A j \in DOMAIN plan.moves : j # i => k \notin TasksOf(j)
    BY <1>0, <1>5 DEF TasksOf, PlanShape
  <2>2. TasksOf(i) = {k}
    BY <1>5, OneTask
  <2>3. RunOf(i) = "running" /\ RunOf(i)' = st
    BY <1>1, <1>2, <2>2, RunIs
  <2>4. Abstract!Go(i, st)
    BY <1>3, <2>1, <2>3, AbstractGoes
  <2>5. Abstract!End(i)
    BY <2>3, <2>4 DEF Abstract!End
  <2> QED
    BY <2>5 DEF Abstract!Next
<1> QED
  BY <1>4, <1>5

LEMMA RefinesStep ==
  ASSUME TruthInv, TruthInv', [Next]_vars
  PROVE  [Abstract!Next]_Abstract!vars
<1>0. /\ ShapeInv /\ CapInv' /\ TypeInv /\ PlanShape /\ ~Disturb("warnings")
  BY DEF TruthInv, ShapeInv, CapInv, Disturb, Calm
<1>a. ASSUME UNCHANGED <<plan, task>> PROVE UNCHANGED Abstract!vars
  <2>1. \A j \in DOMAIN plan.moves : RunOf(j)' = RunOf(j)
    BY <1>a, RunsRest
  <2> QED
    BY <1>a, <2>1, AbstractSame
<1>1. CASE UNCHANGED vars
  BY <1>1, <1>a DEF vars
<1>2. ASSUME OperatorStep \/ ProxmoxStep PROVE [Abstract!Next]_Abstract!vars
  <2>1. CASE plan' = plan /\ UNCHANGED task
    BY <1>a, <2>1
  <2>2. CASE plan' = plan /\ ~UNCHANGED task
    <3>1. PICK k \in Tasks, st \in {"ok", "error"} :
            task[k].st = "running" /\ task' = [task EXCEPT ![k].st = st]
      BY <1>0, <1>2, <2>2, OutsideFacts
    <3> QED
      BY <2>2, <3>1, RefinesEnd
  <2>3. CASE plan' # plan
    BY <1>0, <1>2, <2>3, OutsideFacts, RefinesOperator
  <2> QED
    BY <2>1, <2>2, <2>3
<1>3. ASSUME NEW t \in Ticks, Beside(t) PROVE UNCHANGED Abstract!vars
  <2>1. /\ plan' = plan
        /\ \A k \in Tasks : task'[k] = task[k] \/ (task[k].st = "free" /\ task'[k].plan = 0)
    BY <1>0, <1>3, BesideFacts
  <2>2. ASSUME NEW j \in DOMAIN plan.moves PROVE RunOf(j)' = RunOf(j)
    <3>1. plan.id # 0
      BY <1>0 DEF PlanShape
    <3>2. TasksOf(j)' = TasksOf(j) /\ \A k \in Tasks : k \in TasksOf(j) => task'[k] = task[k]
      BY <2>1, <3>1 DEF TasksOf
    <3> QED
      BY <3>2, RunKept
  <2> QED
    BY <2>1, <2>2, AbstractSame
<1>4. ASSUME NEW t \in Ticks, PlanRead(t) \/ PlanIdles(t) PROVE UNCHANGED Abstract!vars
  BY <1>4, <1>a DEF PlanRead, PlanIdles, proxmoxVars
<1>5. ASSUME NEW t \in Ticks,
             PlanSkips(t) \/ PlanFireRefused(t) \/ \E k \in Tasks : PlanFires(t, k)
      PROVE  [Abstract!Next]_Abstract!vars
  <2>1. PICK i \in NextQueued(copy[t].moves), m \in Move, started \in BOOLEAN :
          /\ MayStep(t) /\ StepMove(t, i, m, started)
          /\ m.guest = copy[t].moves[i].guest
          /\ \/ m.st \in {"skipped", "failed"} /\ UNCHANGED task
             \/ /\ m.st = "migrating" /\ m.upid \in Tasks
                /\ StartTask(m.upid, m.guest, copy[t].moves[i].dst, copy[t].id)
    BY <1>0, <1>5, MayStepFacts
  <2>2. plan' = plan
    BY <2>1 DEF StepMove
  <2> QED
    BY <1>a, <2>1, <2>2, RefinesStart
<1>6. CASE Next
  BY <1>0, <1>2, <1>3, <1>4, <1>5, <1>6, CalmNext, RefinesPoll, RefinesSave, RefinesComplete
<1> QED
  BY <1>1, <1>6

(* The stored plan and the tasks run for it behave as RebalancePlan promises, for any
   number of moves: each is carried out at most once, and reported after its migration
   ended and as it ended, while nothing but other people's migrations interferes. *)
THEOREM PlanIsCarriedOut == Faults \subseteq Calm => (Spec => PlanRefines)
<1> SUFFICES ASSUME Faults \subseteq Calm PROVE Spec => PlanRefines
  OBVIOUS
<1>1. Init => Abstract!Init
  BY DEF Init, NoPlan, Abstract!Init
<1>2. Spec => []TruthInv
  BY TruthAlways
<1>3. TruthInv /\ TruthInv' /\ [Next]_vars => [Abstract!Next]_Abstract!vars
  BY RefinesStep
<1> QED
  BY <1>1, <1>2, <1>3, PTL DEF Spec, PlanRefines, Abstract!Spec
=============================================================================
