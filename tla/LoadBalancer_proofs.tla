------------------------- MODULE LoadBalancer_proofs -------------------------
(***************************************************************************)
(* Proofs about LoadBalancer, for every value of its constants and         *)
(* whatever disturbs the ticks: type correctness, and what the rebalance   *)
(* plan may be relied on for.  Nothing runs for a plan that was not        *)
(* applied, a plan that ended is never active again, and the moves name    *)
(* the tasks that carry them out.  Overlapping ticks, late writes of an    *)
(* aborted tick, restarts and lost replies are all covered: the constant   *)
(* Faults is arbitrary.                                                    *)
(***************************************************************************)
EXTENDS LoadBalancer, FiniteSetTheorems, TLAPS

-----------------------------------------------------------------------------
(* Facts about the moves of a plan. *)

(* Overwriting one move of a plan leaves a list of as many moves. *)
LEMMA MovesExcept ==
  ASSUME NEW ms \in Moves, NEW i, NEW e, i \in DOMAIN ms => e \in Move
  PROVE  /\ [ms EXCEPT ![i] = e] \in Moves
         /\ DOMAIN [ms EXCEPT ![i] = e] = DOMAIN ms
         /\ \A j \in DOMAIN ms : [ms EXCEPT ![i] = e][j] = IF j = i THEN e ELSE ms[j]
<1>1. PICK n \in 0..Cardinality(Guests) : ms \in [1..n -> Move]
  BY DEF Moves
<1>2. [ms EXCEPT ![i] = e] \in [1..n -> Move]
  BY <1>1
<1> QED
  BY <1>1, <1>2 DEF Moves

(* The positions of a plan's moves are finitely many positive numbers. *)
LEMMA MovesDomain ==
  ASSUME NEW ms \in Moves
  PROVE  /\ IsFiniteSet(DOMAIN ms)
         /\ DOMAIN ms \subseteq Nat
         /\ \A i \in DOMAIN ms : ms[i] \in Move
<1>0. Cardinality(Guests) \in Nat
  BY LBAssumption, FS_CardinalityType
<1>1. PICK n \in 0..Cardinality(Guests) : ms \in [1..n -> Move]
  BY DEF Moves
<1>2. n \in Nat
  BY <1>0, <1>1
<1>3. IsFiniteSet(1..n)
  BY <1>2, FS_Interval
<1> QED
  BY <1>1, <1>2, <1>3

(* The migrating moves can be counted. *)
LEMMA MigratingFinite ==
  ASSUME NEW ms \in Moves
  PROVE  IsFiniteSet(Migrating(ms)) /\ Cardinality(Migrating(ms)) \in Nat
<1>1. Migrating(ms) \in SUBSET DOMAIN ms
  BY DEF Migrating
<1>2. IsFiniteSet(Migrating(ms))
  BY <1>1, MovesDomain, FS_Subset
<1> QED
  BY <1>2, FS_CardinalityType

LEMMA NoPlanType == NoPlan \in Plan
<1>1. Cardinality(Guests) \in Nat
  BY LBAssumption, FS_CardinalityType
<1>2. << >> \in [1..0 -> Move]
  OBVIOUS
<1>3. << >> \in Moves
  BY <1>1, <1>2 DEF Moves
<1> QED
  BY <1>3, LBAssumption DEF NoPlan, Plan, PlanStatus

-----------------------------------------------------------------------------
(* Type correctness *)

(* Each SiteState object after the first is paid for by a disturbance. *)
GenBound == gen + (IF present /\ enabled THEN 0 ELSE 1) <= faults + 1

(* A tick that is saving saves one of its moves. *)
CurInPlan == \A t \in Ticks : pc[t] = "save" => cur[t] \in DOMAIN copy[t].moves

TypeInv == TypeOK /\ GenBound /\ CurInPlan

LEMMA PendingCount ==
  ASSUME NEW S \in SUBSET Tasks
  PROVE  IsFiniteSet(S) /\ Cardinality(S) \in Nat
BY LBAssumption, FS_Subset, FS_CardinalityType

LEMMA TypeInit == Init => TypeInv
<1> SUFFICES ASSUME Init PROVE TypeInv
  OBVIOUS
<1>1. TypeOK
  <2>1. task \in [Tasks -> TaskRec]
    <3>1. (CHOOSE g \in Guests : TRUE) \in Guests /\ (CHOOSE n \in Nodes : TRUE) \in Nodes
      BY LBAssumption
    <3> QED
      BY <3>1, LBAssumption DEF Init, TaskRec
  <2>2. 0 \in Gens /\ pending \in [Gens -> SUBSET Tasks]
    BY LBAssumption DEF Init, Gens
  <2>3. Unknown \in [Guests -> Nodes \cup {NoNode}]
    BY DEF Unknown
  <2>4. pc \in [Ticks -> TickPc] /\ copy \in [Ticks -> Plan]
    BY NoPlanType DEF Init, TickPc
  <2>5. NoRequest \in Request
    BY LBAssumption DEF Request, NoRequest
  <2>6. {} \in SUBSET Decision /\ decisions \in [Ticks -> SUBSET Decision]
    BY DEF Init
  <2>7. /\ site \in [Ticks -> Gens] /\ gen \in Gens
        /\ seen \in [Ticks -> [Guests -> Nodes \cup {NoNode}]]
        /\ cached \in [Guests -> Nodes \cup {NoNode}]
        /\ request \in Request
    BY <2>2, <2>3, <2>5 DEF Init
  <2>8. /\ active \in [Ticks -> Nat] /\ cur \in [Ticks -> Nat] /\ moving \in [Ticks -> Nat]
        /\ plans \in 0..MaxPlans /\ applied \subseteq 0..MaxPlans /\ faults \in 0..MaxFaults
    BY LBAssumption DEF Init
  <2>9. loc \in [Guests -> Nodes] /\ enabled \in BOOLEAN /\ present \in BOOLEAN
        /\ owner \in Ticks \cup {NoTick} /\ plan \in Plan
    BY NoPlanType DEF Init
  <2> QED
    BY <2>1, <2>2, <2>4, <2>6, <2>7, <2>8, <2>9 DEF TypeOK
<1>2. GenBound
  BY LBAssumption DEF Init, GenBound
<1>3. CurInPlan
  BY DEF Init, CurInPlan
<1> QED
  BY <1>1, <1>2, <1>3 DEF TypeInv

(* What is written of a move is a move, and the stored plan stays a plan. *)
LEMMA UpdateMoveType ==
  ASSUME NEW id, NEW i, NEW m \in Move, plan \in Plan, UpdateMove(id, i, m)
  PROVE  plan' \in Plan
<1>1. ASSUME NEW old \in Move PROVE SavedMove(old, m) \in Move
  BY <1>1 DEF SavedMove, Move
<1>2. i \in DOMAIN plan.moves => SavedMove(plan.moves[i], m) \in Move
  BY <1>1, MovesDomain DEF Plan
<1>3. [plan.moves EXCEPT ![i] = SavedMove(plan.moves[i], m)] \in Moves
  BY <1>2, MovesExcept DEF Plan
<1> QED
  BY <1>3 DEF UpdateMove, Plan

(* Overwriting one move of a tick's copy leaves a copy. *)
LEMMA CopyType ==
  ASSUME copy \in [Ticks -> Plan], NEW t \in Ticks, NEW i, NEW m \in Move,
         copy' = [copy EXCEPT ![t].moves[i] = m]
  PROVE  /\ copy' \in [Ticks -> Plan]
         /\ DOMAIN copy'[t].moves = DOMAIN copy[t].moves
         /\ \A s \in Ticks : s # t => copy'[s] = copy[s]
<1>1. copy[t].moves \in Moves
  BY DEF Plan
<1>2. [copy[t].moves EXCEPT ![i] = m] \in Moves
      /\ DOMAIN [copy[t].moves EXCEPT ![i] = m] = DOMAIN copy[t].moves
  BY <1>1, MovesExcept
<1>3. copy'[t] = [copy[t] EXCEPT !.moves = [copy[t].moves EXCEPT ![i] = m]]
  OBVIOUS
<1>4. copy'[t] \in Plan /\ DOMAIN copy'[t].moves = DOMAIN copy[t].moves
  BY <1>2, <1>3 DEF Plan
<1> QED
  BY <1>4

(* Starting a task keeps the task table typed. *)
LEMMA StartTaskType ==
  ASSUME task \in [Tasks -> TaskRec], NEW k \in Tasks, NEW g \in Guests, NEW dst \in Nodes,
         NEW p \in 0..MaxPlans, StartTask(k, g, dst, p)
  PROVE  task' \in [Tasks -> TaskRec]
BY DEF StartTask, TaskRec

(* Each step of a tick that only reads keeps the types. *)
LEMMA TypeTickReads ==
  ASSUME TypeInv, NEW t \in Ticks,
         \/ TickBegins(t) \/ Fetch(t) \/ FetchFails(t) \/ MetricsFail(t)
         \/ (\E k \in Tasks : PollPending(t, k))
         \/ CountPending(t) \/ PlanRead(t) \/ PlanIdles(t)
  PROVE  TypeInv'
<1> USE LBAssumption DEF TypeInv, TypeOK, GenBound, CurInPlan
<1> USE DEF proxmoxVars, siteVars, locals, TickPc
<1>0. Unknown \in [Guests -> Nodes \cup {NoNode}]
  BY DEF Unknown
<1>1. CASE TickBegins(t)
  <2>1. gen' \in Gens /\ GenBound'
    BY <1>1 DEF TickBegins, Gens
  <2> QED
    BY <1>1, <2>1 DEF TickBegins
<1>2. CASE Fetch(t)
  <2>1. seen' \in [Ticks -> [Guests -> Nodes \cup {NoNode}]]
        /\ cached' \in [Guests -> Nodes \cup {NoNode}]
    <3>1. loc \in [Guests -> Nodes \cup {NoNode}]
      OBVIOUS
    <3>2. PICK s \in {loc, cached} : seen' = [seen EXCEPT ![t] = s]
      BY <1>2 DEF Fetch
    <3>3. cached' \in {loc, cached}
      BY <1>2 DEF Fetch
    <3>4. s \in [Guests -> Nodes \cup {NoNode}]
      BY <3>1
    <3>5. seen' \in [Ticks -> [Guests -> Nodes \cup {NoNode}]]
      BY <3>2, <3>4
    <3> QED
      BY <3>1, <3>3, <3>5
  <2> QED
    BY <1>2, <2>1 DEF Fetch
<1>3. CASE FetchFails(t)
  BY <1>0, <1>3 DEF FetchFails
<1>4. CASE MetricsFail(t)
  <2>1. copy' \in [Ticks -> Plan] /\ CurInPlan'
    BY <1>4, NoPlanType DEF MetricsFail, Leave, ForgetStep
  <2>2. owner' \in Ticks \cup {NoTick} /\ site' \in [Ticks -> Gens]
    BY <1>4 DEF MetricsFail, Leave, Released, Gens
  <2>3. decisions' \in [Ticks -> SUBSET Decision]
    BY <1>4 DEF MetricsFail, Leave
  <2> QED
    BY <1>0, <1>4, <2>1, <2>2, <2>3 DEF MetricsFail, Leave, ForgetStep
<1>5. CASE \E k \in Tasks : PollPending(t, k)
  <2>1. PICK k \in Tasks : PollPending(t, k)
    BY <1>5
  <2>2. pending' \in [Gens -> SUBSET Tasks]
    BY <2>1 DEF PollPending
  <2> QED
    BY <2>1, <2>2 DEF PollPending
<1>6. CASE CountPending(t)
  <2>1. Cardinality(pending[site[t]]) \in Nat
    BY PendingCount
  <2> QED
    BY <1>6, <2>1 DEF CountPending
<1>7. CASE PlanRead(t)
  <2>1. copy' \in [Ticks -> Plan]
    BY <1>7 DEF PlanRead
  <2>2. CurInPlan'
    BY <1>7 DEF PlanRead
  <2> QED
    BY <1>7, <2>1, <2>2 DEF PlanRead
<1>8. CASE PlanIdles(t)
  <2>1. Cardinality(Migrating(copy[t].moves)) \in Nat
    BY MigratingFinite DEF Plan
  <2>2. AfterStep(copy[t].moves) \in {"decide", "complete"}
    BY DEF AfterStep
  <2> QED
    BY <1>8, <2>1, <2>2 DEF PlanIdles
<1> QED
  BY <1>1, <1>2, <1>3, <1>4, <1>5, <1>6, <1>7, <1>8

(* A disturbance stays within the bound. *)
LEMMA DisturbBound ==
  ASSUME TypeOK, NEW f, Disturb(f)
  PROVE  faults' \in 0..MaxFaults /\ faults' = faults + 1
BY LBAssumption DEF TypeOK, Disturb

(* A step that leaves the ticks' SiteState alone keeps GenBound. *)
LEMMA GenBoundKept ==
  ASSUME TypeInv, UNCHANGED <<gen, present, enabled>>,
         faults' = faults \/ \E f \in FaultKind : Disturb(f)
  PROVE  faults' \in 0..MaxFaults /\ GenBound'
<1>1. faults \in 0..MaxFaults /\ gen \in Nat
  BY LBAssumption DEF TypeInv, TypeOK, Gens
<1>2. faults' \in 0..MaxFaults /\ faults' >= faults
  BY <1>1, LBAssumption, DisturbBound DEF TypeInv
<1>3. faults \in Nat /\ faults' \in Nat
  BY <1>1, <1>2, LBAssumption
<1>4. gen' = gen /\ present' = present /\ enabled' = enabled
  OBVIOUS
<1> DEFINE d == IF present /\ enabled THEN 0 ELSE 1
<1>5. d \in Nat /\ gen + d <= faults + 1
  BY DEF TypeInv, GenBound
<1>6. GenBound' <=> gen + d <= faults' + 1
  BY <1>4 DEF GenBound
<1>7. PICK n \in Nat : n = faults'
  BY <1>3
<1>8. faults <= n
  BY <1>2, <1>7
<1>9. gen + d <= n + 1
  <2> HIDE DEF d
  <2> QED
    BY <1>1, <1>3, <1>5, <1>8
<1> QED
  BY <1>2, <1>6, <1>7, <1>9

(* The part of a plan step common to its outcomes. *)
LEMMA StepMoveType ==
  ASSUME TypeInv, NEW t \in Ticks, NEW i \in DOMAIN copy[t].moves, NEW m \in Move,
         NEW started, StepMove(t, i, m, started), task' \in [Tasks -> TaskRec],
         faults' = faults \/ \E f \in FaultKind : Disturb(f)
  PROVE  TypeInv'
<1> USE DEF TypeInv
<1>0. /\ DOMAIN copy[t].moves \subseteq Nat
      /\ Cardinality(Migrating(copy[t].moves)) \in Nat
  BY MovesDomain, MigratingFinite DEF TypeOK, Plan
<1>1. copy' \in [Ticks -> Plan] /\ DOMAIN copy'[t].moves = DOMAIN copy[t].moves
      /\ \A s \in Ticks : s # t => copy'[s] = copy[s]
  BY CopyType DEF StepMove, TypeOK
<1>2. moving' \in [Ticks -> Nat]
  BY <1>0 DEF StepMove, TypeOK
<1>3. cur' \in [Ticks -> Nat]
  BY <1>0 DEF StepMove, TypeOK
<1>4. CurInPlan'
  BY <1>1 DEF StepMove, CurInPlan, TypeOK
<1>5. faults' \in 0..MaxFaults /\ GenBound'
  BY GenBoundKept DEF StepMove, siteVars
<1>6. pc' \in [Ticks -> TickPc]
  BY DEF StepMove, TypeOK, TickPc
<1> QED
  BY <1>1, <1>2, <1>3, <1>4, <1>5, <1>6 DEF StepMove, TypeOK, siteVars

(* What a tick's copy of the plan holds. *)
LEMMA CopyFacts ==
  ASSUME TypeInv, NEW t \in Ticks
  PROVE  /\ copy[t] \in Plan /\ copy[t].moves \in Moves /\ copy[t].id \in 0..MaxPlans
         /\ \A i \in DOMAIN copy[t].moves : copy[t].moves[i] \in Move
         /\ NextQueued(copy[t].moves) \subseteq DOMAIN copy[t].moves
         /\ AfterStep(copy[t].moves) \in {"decide", "complete"}
<1>1. copy[t] \in Plan
  BY DEF TypeInv, TypeOK
<1>2. copy[t].moves \in Moves /\ copy[t].id \in 0..MaxPlans
  BY <1>1 DEF Plan
<1> QED
  BY <1>1, <1>2, MovesDomain DEF NextQueued, Queued, AfterStep

(* Each step of a tick that acts on the plan keeps the types. *)
LEMMA TypeTickPlan ==
  ASSUME TypeInv, NEW t \in Ticks,
         \/ (\E i \in DOMAIN copy[t].moves : PlanPoll(t, i))
         \/ PlanSkips(t) \/ (\E k \in Tasks : PlanFires(t, k)) \/ PlanFireRefused(t)
         \/ PlanSaves(t) \/ PlanSaveFails(t) \/ PlanCompletes(t)
  PROVE  TypeInv'
<1>1. CASE \E i \in DOMAIN copy[t].moves : PlanPoll(t, i)
  <2>1. PICK i \in DOMAIN copy[t].moves : PlanPoll(t, i)
    BY <1>1
  <2>2. copy[t].moves[i] \in Move
    BY CopyFacts
  <2>3. PolledMove(copy[t].moves[i]) \in Move
    BY <2>2 DEF PolledMove, Move, MoveStatus
  <2>4. copy' \in [Ticks -> Plan] /\ DOMAIN copy'[t].moves = DOMAIN copy[t].moves
        /\ \A s \in Ticks : s # t => copy'[s] = copy[s]
    <3>1. copy' = [copy EXCEPT ![t].moves[i] = PolledMove(copy[t].moves[i])]
      BY <2>1 DEF PlanPoll
    <3> QED
      BY <2>3, <3>1, CopyType DEF TypeInv, TypeOK
  <2>5. plan' \in Plan
    BY <2>1, <2>3, UpdateMoveType DEF PlanPoll, TypeInv, TypeOK
  <2>6. faults' \in 0..MaxFaults /\ GenBound'
    <3>1. faults' = faults \/ \E f \in FaultKind : Disturb(f)
      BY <2>1 DEF PlanPoll, FaultKind
    <3> QED
      BY <2>1, <3>1, GenBoundKept DEF PlanPoll, siteVars
  <2>7. CurInPlan'
    BY <2>1, <2>4 DEF PlanPoll, CurInPlan, TypeInv
  <2> QED
    BY <2>1, <2>4, <2>5, <2>6, <2>7 DEF PlanPoll, TypeInv, TypeOK, proxmoxVars, siteVars
<1>2. CASE PlanSkips(t)
  <2>1. PICK i \in NextQueued(copy[t].moves) :
          StepMove(t, i, [copy[t].moves[i] EXCEPT !.st = "skipped"], FALSE)
    BY <1>2 DEF PlanSkips
  <2>2. i \in DOMAIN copy[t].moves /\ copy[t].moves[i] \in Move
    BY <2>1, CopyFacts
  <2>3. [copy[t].moves[i] EXCEPT !.st = "skipped"] \in Move
    BY <2>2 DEF Move, MoveStatus
  <2>4. task' \in [Tasks -> TaskRec] /\ faults' = faults
    BY <1>2 DEF PlanSkips, TypeInv, TypeOK
  <2> QED
    BY <2>1, <2>2, <2>3, <2>4, StepMoveType
<1>3. CASE \E k \in Tasks : PlanFires(t, k)
  <2>1. PICK k \in Tasks : PlanFires(t, k)
    BY <1>3
  <2>2. PICK i \in NextQueued(copy[t].moves) : LET m == copy[t].moves[i] IN
          /\ StartTask(k, m.guest, m.dst, copy[t].id)
          /\ \/ /\ StepMove(t, i, [m EXCEPT !.st = "migrating", !.upid = k], TRUE)
                /\ UNCHANGED faults
             \/ /\ Disturb("lostReply")
                /\ StepMove(t, i, [m EXCEPT !.st = "failed"], FALSE)
    BY <2>1 DEF PlanFires
  <2>3. i \in DOMAIN copy[t].moves /\ copy[t].moves[i] \in Move /\ copy[t].id \in 0..MaxPlans
    BY <2>2, CopyFacts
  <2>4. /\ [copy[t].moves[i] EXCEPT !.st = "migrating", !.upid = k] \in Move
        /\ [copy[t].moves[i] EXCEPT !.st = "failed"] \in Move
    BY <2>3 DEF Move, MoveStatus
  <2>5. task' \in [Tasks -> TaskRec]
    BY <2>2, <2>3, StartTaskType DEF Move, TypeInv, TypeOK
  <2>6. CASE StepMove(t, i, [copy[t].moves[i] EXCEPT !.st = "migrating", !.upid = k], TRUE)
             /\ UNCHANGED faults
    BY <2>3, <2>4, <2>5, <2>6, StepMoveType
  <2>7. CASE Disturb("lostReply")
             /\ StepMove(t, i, [copy[t].moves[i] EXCEPT !.st = "failed"], FALSE)
    <3>1. \E f \in FaultKind : Disturb(f)
      BY <2>7 DEF FaultKind
    <3> QED
      BY <2>3, <2>4, <2>5, <2>7, <3>1, StepMoveType
  <2> QED
    BY <2>2, <2>6, <2>7
<1>4. CASE PlanFireRefused(t)
  <2>1. PICK i \in NextQueued(copy[t].moves) :
          StepMove(t, i, [copy[t].moves[i] EXCEPT !.st = "failed"], FALSE)
    BY <1>4 DEF PlanFireRefused
  <2>2. i \in DOMAIN copy[t].moves /\ copy[t].moves[i] \in Move
    BY <2>1, CopyFacts
  <2>3. [copy[t].moves[i] EXCEPT !.st = "failed"] \in Move
    BY <2>2 DEF Move, MoveStatus
  <2>4. task' \in [Tasks -> TaskRec] /\ faults' = faults
    BY <1>4 DEF PlanFireRefused, TypeInv, TypeOK
  <2> QED
    BY <2>1, <2>2, <2>3, <2>4, StepMoveType
<1>5. CASE PlanSaves(t)
  <2>1. cur[t] \in DOMAIN copy[t].moves
    BY <1>5 DEF PlanSaves, TypeInv, CurInPlan
  <2>2. copy[t].moves[cur[t]] \in Move
    BY <2>1, CopyFacts
  <2>3. plan' \in Plan
    BY <1>5, <2>2, UpdateMoveType DEF PlanSaves, TypeInv, TypeOK
  <2>4. pc' \in [Ticks -> TickPc] /\ pc'[t] # "save"
    BY <1>5, CopyFacts DEF PlanSaves, TypeInv, TypeOK, TickPc
  <2>5. CurInPlan'
    BY <1>5, <2>4 DEF PlanSaves, TypeInv, TypeOK, CurInPlan
  <2>6. faults' \in 0..MaxFaults /\ GenBound'
    BY <1>5, GenBoundKept DEF PlanSaves, siteVars
  <2> QED
    BY <1>5, <2>3, <2>4, <2>5, <2>6 DEF PlanSaves, TypeInv, TypeOK, proxmoxVars, siteVars
<1>6. CASE PlanSaveFails(t)
  <2>1. faults' \in 0..MaxFaults /\ GenBound'
    <3>1. \E f \in FaultKind : Disturb(f)
      BY <1>6 DEF PlanSaveFails, FaultKind
    <3> QED
      BY <1>6, <3>1, GenBoundKept DEF PlanSaveFails, siteVars
  <2>2. CASE pc[t] = "save" /\ copy[t].moves[cur[t]].st = "migrating"
    <3> DEFINE m == [copy[t].moves[cur[t]] EXCEPT !.st = "failed", !.upid = NoTask]
    <3>1. copy[t].moves[cur[t]] \in Move
      BY <2>2, CopyFacts DEF TypeInv, CurInPlan
    <3>2. m \in Move
      BY <3>1 DEF Move, MoveStatus
    <3>3. copy' = [copy EXCEPT ![t].moves[cur[t]] = m] /\ UNCHANGED <<pc, moving, cur>>
      BY <1>6, <2>2 DEF PlanSaveFails
    <3>4. copy' \in [Ticks -> Plan] /\ DOMAIN copy'[t].moves = DOMAIN copy[t].moves
          /\ \A s \in Ticks : s # t => copy'[s] = copy[s]
      <4> HIDE DEF m
      <4> QED
        BY <3>2, <3>3, CopyType DEF TypeInv, TypeOK
    <3>5. CurInPlan'
      BY <3>3, <3>4 DEF TypeInv, CurInPlan
    <3> QED
      BY <1>6, <2>1, <3>3, <3>4, <3>5
      DEF PlanSaveFails, TypeInv, TypeOK, proxmoxVars, siteVars
  <2>3. CASE ~(pc[t] = "save" /\ copy[t].moves[cur[t]].st = "migrating")
    <3>1. /\ pc' = [pc EXCEPT ![t] = "decide"] /\ moving' = [moving EXCEPT ![t] = 0]
          /\ UNCHANGED <<copy, cur>>
      BY <1>6, <2>3 DEF PlanSaveFails
    <3>2. CurInPlan' /\ pc' \in [Ticks -> TickPc] /\ moving' \in [Ticks -> Nat]
      BY <3>1 DEF TypeInv, TypeOK, CurInPlan, TickPc
    <3> QED
      BY <1>6, <2>1, <3>1, <3>2 DEF PlanSaveFails, TypeInv, TypeOK, proxmoxVars, siteVars
  <2> QED
    BY <2>2, <2>3
<1>7. CASE PlanCompletes(t)
  <2>1. plan' \in Plan
    BY <1>7 DEF PlanCompletes, Plan, PlanStatus, TypeInv, TypeOK
  <2>2. pc' \in [Ticks -> TickPc] /\ CurInPlan'
    BY <1>7 DEF PlanCompletes, TypeInv, TypeOK, CurInPlan, TickPc
  <2>3. faults' \in 0..MaxFaults /\ GenBound'
    BY <1>7, GenBoundKept DEF PlanCompletes, siteVars
  <2> QED
    BY <1>7, <2>1, <2>2, <2>3 DEF PlanCompletes, TypeInv, TypeOK, proxmoxVars, siteVars
<1> QED
  BY <1>1, <1>2, <1>3, <1>4, <1>5, <1>6, <1>7

(* Each step that fires the tick's decisions keeps the types. *)
LEMMA TypeTickDecisions ==
  ASSUME TypeInv, NEW t \in Ticks,
         \/ Decide(t) \/ (\E d \in decisions[t], k \in Tasks : Fire(t, d, k))
         \/ (\E d \in decisions[t] : FireRefused(t, d)) \/ TickEnds(t)
  PROVE  TypeInv'
<1>0. Unknown \in [Guests -> Nodes \cup {NoNode}] /\ decisions[t] \subseteq Decision
  BY DEF Unknown, TypeInv, TypeOK
<1>a. ASSUME ForgetStep(t), pc'[t] # "save", \A s \in Ticks : s # t => pc'[s] = pc[s]
      PROVE  /\ seen' \in [Ticks -> [Guests -> Nodes \cup {NoNode}]]
             /\ active' \in [Ticks -> Nat] /\ cur' \in [Ticks -> Nat]
             /\ moving' \in [Ticks -> Nat] /\ copy' \in [Ticks -> Plan]
             /\ CurInPlan'
  <2>1. seen' \in [Ticks -> [Guests -> Nodes \cup {NoNode}]]
    BY <1>0, <1>a DEF ForgetStep, TypeInv, TypeOK
  <2>2. active' \in [Ticks -> Nat] /\ cur' \in [Ticks -> Nat] /\ moving' \in [Ticks -> Nat]
    BY <1>a DEF ForgetStep, TypeInv, TypeOK
  <2>3. copy' \in [Ticks -> Plan]
    BY <1>a, NoPlanType DEF ForgetStep, TypeInv, TypeOK
  <2>4. CurInPlan'
    BY <1>a DEF ForgetStep, TypeInv, TypeOK, CurInPlan
  <2> QED
    BY <2>1, <2>2, <2>3, <2>4
<1>b. ASSUME NEW d \in decisions[t], NextDecision(t, d),
             task' \in [Tasks -> TaskRec], pending' \in [Gens -> SUBSET Tasks],
             faults' = faults \/ \E f \in FaultKind : Disturb(f)
      PROVE  TypeInv'
  <2>1. decisions' \in [Ticks -> SUBSET Decision]
    BY <1>b DEF NextDecision, TypeInv, TypeOK
  <2>2. pc' \in [Ticks -> TickPc] /\ CurInPlan'
    BY <1>b DEF NextDecision, TypeInv, TypeOK, CurInPlan, TickPc
  <2>3. faults' \in 0..MaxFaults /\ GenBound'
    BY <1>b, GenBoundKept DEF NextDecision
  <2> QED
    BY <1>b, <2>1, <2>2, <2>3 DEF NextDecision, TypeInv, TypeOK
<1>1. CASE Decide(t)
  <2>1. PICK D \in Decisions(t) :
          /\ decisions' = [decisions EXCEPT ![t] = D]
          /\ pc' = [pc EXCEPT ![t] = IF D = {} THEN "end" ELSE "fire"]
    BY <1>1 DEF Decide
  <2>2. D \subseteq Decision
    BY DEF Decisions
  <2>3. decisions' \in [Ticks -> SUBSET Decision]
    BY <2>1, <2>2 DEF TypeInv, TypeOK
  <2>4. pc' \in [Ticks -> TickPc] /\ pc'[t] # "save" /\ \A s \in Ticks : s # t => pc'[s] = pc[s]
    BY <2>1 DEF TypeInv, TypeOK, TickPc
  <2>5. faults' \in 0..MaxFaults /\ GenBound'
    BY <1>1, GenBoundKept DEF Decide, siteVars
  <2> QED
    BY <1>1, <1>a, <2>3, <2>4, <2>5 DEF Decide, TypeInv, TypeOK, proxmoxVars, siteVars
<1>2. CASE \E d \in decisions[t], k \in Tasks : Fire(t, d, k)
  <2>1. PICK d \in decisions[t], k \in Tasks : Fire(t, d, k)
    BY <1>2
  <2>2. task' \in [Tasks -> TaskRec]
    BY <1>0, <2>1, StartTaskType, LBAssumption DEF Fire, Decision, TypeInv, TypeOK
  <2>3. pending' \in [Gens -> SUBSET Tasks]
    BY <2>1 DEF Fire, TypeInv, TypeOK
  <2>4. faults' = faults \/ \E f \in FaultKind : Disturb(f)
    BY <2>1 DEF Fire, FaultKind
  <2> QED
    BY <1>b, <2>1, <2>2, <2>3, <2>4 DEF Fire
<1>3. CASE \E d \in decisions[t] : FireRefused(t, d)
  <2>1. PICK d \in decisions[t] : FireRefused(t, d)
    BY <1>3
  <2>2. /\ task' \in [Tasks -> TaskRec] /\ pending' \in [Gens -> SUBSET Tasks]
        /\ faults' = faults /\ NextDecision(t, d)
    BY <2>1 DEF FireRefused, TypeInv, TypeOK
  <2> QED
    BY <1>b, <2>2
<1>4. CASE TickEnds(t)
  <2>1. pending' \in [Gens -> SUBSET Tasks]
    BY <1>4 DEF TickEnds, TypeInv, TypeOK
  <2>2. faults' \in 0..MaxFaults /\ GenBound'
    <3>1. faults' = faults \/ \E f \in FaultKind : Disturb(f)
      BY <1>4 DEF TickEnds, FaultKind
    <3> QED
      BY <1>4, <3>1, GenBoundKept DEF TickEnds
  <2>3. decisions' \in [Ticks -> SUBSET Decision] /\ owner' \in Ticks \cup {NoTick}
    BY <1>4 DEF TickEnds, Leave, Released, TypeInv, TypeOK
  <2>4. site' \in [Ticks -> Gens]
    BY <1>4, LBAssumption DEF TickEnds, Leave, Gens, TypeInv, TypeOK
  <2>5. pc' \in [Ticks -> TickPc] /\ pc'[t] # "save" /\ \A s \in Ticks : s # t => pc'[s] = pc[s]
    BY <1>4 DEF TickEnds, Leave, TypeInv, TypeOK, TickPc
  <2> QED
    BY <1>4, <1>a, <2>1, <2>2, <2>3, <2>4, <2>5
    DEF TickEnds, Leave, TypeInv, TypeOK, proxmoxVars
<1> QED
  BY <1>1, <1>2, <1>3, <1>4

(* The scheduler's other steps keep the types. *)
LEMMA TypeScheduler ==
  ASSUME TypeInv, TickFindsDisabled \/ TickTimesOut \/ Restart
  PROVE  TypeInv'
<1>1. CASE TickFindsDisabled
  <2>1. GenBound'
    BY <1>1 DEF TickFindsDisabled, TypeInv, GenBound
  <2> QED
    BY <1>1, <2>1 DEF TickFindsDisabled, TypeInv, TypeOK, CurInPlan, proxmoxVars, locals
<1>2. CASE TickTimesOut
  <2>1. faults' \in 0..MaxFaults /\ GenBound'
    <3>1. \E f \in FaultKind : Disturb(f)
      BY <1>2 DEF TickTimesOut, FaultKind
    <3> QED
      BY <1>2, <3>1, GenBoundKept DEF TickTimesOut, siteVars
  <2> QED
    BY <1>2, <2>1 DEF TickTimesOut, TypeInv, TypeOK, CurInPlan, proxmoxVars, siteVars, locals
<1>3. CASE Restart
  <2>1. faults' \in 0..MaxFaults /\ faults' = faults + 1
    BY <1>3, DisturbBound DEF Restart, TypeInv
  <2>2. GenBound'
    BY <1>3, <2>1, LBAssumption DEF Restart, TypeInv, TypeOK, GenBound, Gens
  <2>3. copy' \in [Ticks -> Plan] /\ pc' \in [Ticks -> TickPc] /\ CurInPlan'
    BY <1>3, NoPlanType DEF Restart, TickPc, CurInPlan
  <2>4. Unknown \in [Guests -> Nodes \cup {NoNode}] /\ NoRequest \in Request /\ 0 \in Gens
    BY LBAssumption DEF Unknown, NoRequest, Request, Gens
  <2>5. decisions' \in [Ticks -> SUBSET Decision]
    BY <1>3 DEF Restart
  <2>6. /\ site' \in [Ticks -> Gens] /\ seen' \in [Ticks -> [Guests -> Nodes \cup {NoNode}]]
        /\ cached' \in [Guests -> Nodes \cup {NoNode}] /\ request' \in Request
        /\ active' \in [Ticks -> Nat] /\ cur' \in [Ticks -> Nat] /\ moving' \in [Ticks -> Nat]
    BY <1>3, <2>4 DEF Restart
  <2> QED
    BY <1>3, <2>1, <2>2, <2>3, <2>5, <2>6 DEF Restart, TypeInv, TypeOK, proxmoxVars
<1> QED
  BY <1>1, <1>2, <1>3

(* The operator's and Proxmox's steps keep the types. *)
LEMMA TypeEnvironment ==
  ASSUME TypeInv, OperatorStep \/ ProxmoxStep
  PROVE  TypeInv'
<1>a. ASSUME UNCHANGED <<enabled, owner, siteVars, cached, locals>>,
             faults' = faults \/ \E f \in FaultKind : Disturb(f),
             loc' \in [Guests -> Nodes], task' \in [Tasks -> TaskRec], plan' \in Plan,
             request' \in Request, plans' \in 0..MaxPlans, applied' \subseteq 0..MaxPlans
      PROVE  TypeInv'
  <2>1. faults' \in 0..MaxFaults /\ GenBound'
    BY <1>a, GenBoundKept DEF siteVars
  <2> QED
    BY <1>a, <2>1 DEF TypeInv, TypeOK, CurInPlan, siteVars, locals
<1> USE DEF proxmoxVars
<1>0. /\ loc \in [Guests -> Nodes] /\ task \in [Tasks -> TaskRec] /\ plan \in Plan
      /\ request \in Request /\ plans \in 0..MaxPlans /\ applied \subseteq 0..MaxPlans
      /\ NoRequest \in Request
  BY LBAssumption DEF TypeInv, TypeOK, NoRequest, Request
<1>1. CASE ComputeReads
  BY <1>0, <1>1, <1>a, LBAssumption DEF ComputeReads, Request
<1>2. CASE ComputeSaves
  <2>1. plans' \in 0..MaxPlans /\ plan' \in Plan
    <3>1. CASE plan' = NoPlan /\ UNCHANGED plans
      BY <1>0, <3>1, NoPlanType
    <3>2. CASE /\ plans < MaxPlans /\ plans' = plans + 1
               /\ \E ms \in PlanMoves :
                    plan' = [id |-> plans + 1, status |-> "draft", moves |-> ms]
      <4>1. PICK ms \in PlanMoves : plan' = [id |-> plans + 1, status |-> "draft", moves |-> ms]
        BY <3>2
      <4>2. ms \in Moves
        <5>1. Cardinality(Guests) \in Nat
          BY LBAssumption, FS_CardinalityType
        <5>2. PICK n \in 1..Cardinality(Guests) :
                ms \in [1..n -> [guest : Guests, src : Nodes, dst : Nodes, st : {"queued"},
                                 upid : {NoTask}]]
          BY <4>1 DEF PlanMoves
        <5>3. ms \in [1..n -> Move]
          BY <5>2 DEF Move, MoveStatus
        <5>4. n \in 0..Cardinality(Guests)
          BY <5>1, <5>2
        <5> QED
          BY <5>3, <5>4 DEF Moves
      <4>3. plans + 1 \in 0..MaxPlans
        BY <1>0, <3>2, LBAssumption
      <4> QED
        BY <3>2, <4>1, <4>2, <4>3 DEF Plan, PlanStatus
    <3> QED
      BY <1>2, <3>1, <3>2 DEF ComputeSaves
  <2> QED
    BY <1>0, <1>2, <1>a, <2>1 DEF ComputeSaves
<1>3. CASE Apply
  <2>1. plan' \in Plan /\ applied' \subseteq 0..MaxPlans
    BY <1>0, <1>3 DEF Apply, Plan, PlanStatus
  <2>2. faults' = faults \/ \E f \in FaultKind : Disturb(f)
    BY <1>3 DEF Apply, FaultKind
  <2> QED
    BY <1>0, <1>3, <1>a, <2>1, <2>2 DEF Apply
<1>4. CASE CancelReads
  <2>1. request' \in Request
    BY <1>0, <1>4 DEF CancelReads, Request, Plan
  <2>2. faults' = faults \/ \E f \in FaultKind : Disturb(f)
    BY <1>4 DEF CancelReads, FaultKind
  <2> QED
    BY <1>0, <1>4, <1>a, <2>1, <2>2 DEF CancelReads
<1>5. CASE CancelWrites
  <2>1. Dropped(plan) \in Plan
    <3>1. PICK n \in 0..Cardinality(Guests) : plan.moves \in [1..n -> Move]
      BY <1>0 DEF Plan, Moves
    <3> DEFINE ms == [i \in DOMAIN plan.moves |->
                        IF plan.moves[i].st = "queued"
                          THEN [plan.moves[i] EXCEPT !.st = "skipped"] ELSE plan.moves[i]]
    <3>2. \A i \in 1..n : [plan.moves[i] EXCEPT !.st = "skipped"] \in Move
      BY <3>1 DEF Move, MoveStatus
    <3>3. ms \in [1..n -> Move]
      BY <3>1, <3>2
    <3>4. ms \in Moves
      BY <3>3 DEF Moves
    <3>5. Dropped(plan) = [plan EXCEPT !.status = "cancelled", !.moves = ms]
      BY DEF Dropped
    <3> HIDE DEF ms
    <3> QED
      BY <1>0, <3>4, <3>5 DEF Plan, PlanStatus
  <2>2. plan' \in Plan
    BY <1>0, <1>5, <2>1, NoPlanType DEF CancelWrites
  <2> QED
    BY <1>0, <1>5, <1>a, <2>2 DEF CancelWrites
<1>6. CASE Disable \/ Enable
  <2>1. faults' \in 0..MaxFaults /\ GenBound'
    <3>1. CASE Disable
      <4>1. faults' \in 0..MaxFaults /\ faults' = faults + 1
        BY <3>1, DisturbBound DEF Disable, TypeInv
      <4> QED
        BY <3>1, <4>1, LBAssumption DEF Disable, siteVars, TypeInv, TypeOK, GenBound, Gens
    <3>2. CASE Enable
      BY <3>2, LBAssumption DEF Enable, siteVars, TypeInv, TypeOK, GenBound, Gens
    <3> QED
      BY <1>6, <3>1, <3>2
  <2> QED
    BY <1>6, <2>1 DEF Disable, Enable, TypeInv, TypeOK, CurInPlan, siteVars, locals
<1>7. CASE PageLoads
  <2>1. cached' \in [Guests -> Nodes \cup {NoNode}]
    BY <1>0, <1>7 DEF PageLoads
  <2>2. GenBound'
    BY <1>7 DEF PageLoads, siteVars, TypeInv, GenBound
  <2> QED
    BY <1>7, <2>1, <2>2 DEF PageLoads, TypeInv, TypeOK, CurInPlan, siteVars, locals
<1>8. CASE \E k \in Tasks : TaskEnds(k)
  <2>1. PICK k \in Tasks : TaskEnds(k)
    BY <1>8
  <2>2. task[k] \in TaskRec /\ task[k].guest \in Guests /\ task[k].dst \in Nodes
    BY <1>0 DEF TaskRec
  <2>3. PICK st \in {"ok", "warnings", "error"} : task' = [task EXCEPT ![k].st = st]
    BY <2>1 DEF TaskEnds
  <2>4. task' \in [Tasks -> TaskRec]
    BY <1>0, <2>2, <2>3 DEF TaskRec
  <2>5. loc' \in [Guests -> Nodes]
    BY <1>0, <2>1, <2>2 DEF TaskEnds
  <2>6. faults' = faults \/ \E f \in FaultKind : Disturb(f)
    BY <2>1 DEF TaskEnds, FaultKind
  <2> QED
    BY <1>0, <1>a, <2>1, <2>4, <2>5, <2>6 DEF TaskEnds
<1>9. CASE \E g \in Guests, n \in Nodes : Drift(g, n)
  <2>1. PICK g \in Guests, n \in Nodes : Drift(g, n)
    BY <1>9
  <2>2. loc' \in [Guests -> Nodes] /\ \E f \in FaultKind : Disturb(f)
    BY <1>0, <2>1 DEF Drift, FaultKind
  <2> QED
    BY <1>0, <1>a, <2>1, <2>2 DEF Drift
<1> QED
  BY <1>1, <1>2, <1>3, <1>4, <1>5, <1>6, <1>7, <1>8, <1>9 DEF OperatorStep, ProxmoxStep

LEMMA TypeNext == TypeInv /\ [Next]_vars => TypeInv'
<1> SUFFICES ASSUME TypeInv, [Next]_vars PROVE TypeInv'
  OBVIOUS
<1>1. ASSUME NEW t \in Ticks, TickBegins(t) \/ TickStep(t) PROVE TypeInv'
  BY <1>1, TypeTickReads, TypeTickPlan, TypeTickDecisions DEF TickStep
<1>2. CASE UNCHANGED vars
  BY <1>2 DEF vars, TypeInv, TypeOK, GenBound, CurInPlan
<1> QED
  BY <1>1, <1>2, TypeScheduler, TypeEnvironment DEF Next

(* Whatever disturbs the ticks, every variable keeps its type; in particular a tick
   never saves a move its copy of the plan does not have. *)
THEOREM TypeCorrect == Spec => []TypeOK
<1>1. Spec => []TypeInv
  BY TypeInit, TypeNext, PTL DEF Spec
<1>2. TypeInv => TypeOK
  BY DEF TypeInv
<1> QED
  BY <1>1, <1>2, PTL

-----------------------------------------------------------------------------
(* The plans a behaviour has seen. *)

PlanNumbered ==
  /\ plan.id <= plans
  /\ plan.id = 0 => plan.status = "none"
  /\ applied \subseteq 1..plans
  /\ plan.status = "draft" => plan.id \notin applied
  /\ plan.status = "active" => plan.id \in applied

(* Ticks and requests hold plans that were applied. *)
HeldApplied ==
  /\ \A t \in Ticks : copy[t].id \in applied \cup {0}
  /\ request.kind = "cancel" => request.id \in applied

(* A tick that executes a plan has one. *)
StepHasPlan ==
  \A t \in Ticks : pc[t] \in {"pollmoves", "save", "complete"} => copy[t].id # 0

AppliedInv == TypeInv /\ PlanNumbered /\ HeldApplied /\ StepHasPlan /\ OnlyApplied

LEMMA AppliedInit == Init => AppliedInv
BY TypeInit, LBAssumption
DEF Init, AppliedInv, PlanNumbered, HeldApplied, StepHasPlan, OnlyApplied, NoPlan, NoRequest

(* A step that changes at most the moves of the plan, and starts no task. *)
LEMMA AppliedQuiet ==
  ASSUME AppliedInv, UNCHANGED <<applied, plans>>,
         plan'.id = plan.id, plan'.status = plan.status,
         request' = request \/ request'.kind # "cancel",
         \A t \in Ticks : copy'[t].id = copy[t].id \/ copy'[t].id \in applied \cup {0},
         \A k \in Tasks : task'[k].plan = task[k].plan
                          \/ \E t \in Ticks : task'[k].plan = copy[t].id
                          \/ task'[k].plan = 0
  PROVE  PlanNumbered' /\ HeldApplied' /\ OnlyApplied'
<1>1. PlanNumbered'
  BY DEF AppliedInv, PlanNumbered
<1>2. HeldApplied'
  BY DEF AppliedInv, HeldApplied
<1>3. OnlyApplied'
  BY DEF AppliedInv, HeldApplied, OnlyApplied
<1> QED
  BY <1>1, <1>2, <1>3

(* updateRebalancePlan changes neither which plan is stored nor its status. *)
LEMMA UpdateMoveKeeps ==
  ASSUME plan \in Plan, NEW id, NEW i, NEW m, UpdateMove(id, i, m)
  PROVE  plan'.id = plan.id /\ plan'.status = plan.status
BY DEF UpdateMove, Plan

(* A tick's step keeps the parts of AppliedInv that are about plans and tasks. *)
LEMMA AppliedTick ==
  ASSUME AppliedInv, NEW t \in Ticks, TickBegins(t) \/ TickStep(t)
  PROVE  PlanNumbered' /\ HeldApplied' /\ OnlyApplied'
<1> USE DEF proxmoxVars, locals, siteVars
<1>0. /\ plan \in Plan /\ copy \in [Ticks -> Plan] /\ task \in [Tasks -> TaskRec]
      /\ NoPlan.id = 0
  BY DEF AppliedInv, TypeInv, TypeOK, NoPlan
<1>a. ASSUME UNCHANGED <<plan, task, request, plans, applied>>,
             copy' = copy \/ copy' = [copy EXCEPT ![t] = NoPlan]
               \/ (PlanRuns(plan) /\ copy' = [copy EXCEPT ![t] = plan])
      PROVE  PlanNumbered' /\ HeldApplied' /\ OnlyApplied'
  <2>1. PlanRuns(plan) => plan.id \in applied
    BY DEF PlanRuns, AppliedInv, PlanNumbered
  <2>2. \A s \in Ticks : copy'[s].id = copy[s].id \/ copy'[s].id \in applied \cup {0}
    BY <1>0, <1>a, <2>1
  <2> QED
    BY <1>a, <2>2, AppliedQuiet
<1>1. CASE TickBegins(t) \/ Fetch(t) \/ FetchFails(t) \/ (\E k \in Tasks : PollPending(t, k))
             \/ CountPending(t) \/ PlanIdles(t)
  BY <1>1, <1>a DEF TickBegins, Fetch, FetchFails, PollPending, CountPending, PlanIdles
<1>2. CASE MetricsFail(t) \/ Decide(t) \/ TickEnds(t)
  BY <1>2, <1>a DEF MetricsFail, Decide, TickEnds, Leave, ForgetStep
<1>3. CASE PlanRead(t)
  BY <1>3, <1>a DEF PlanRead
<1>4. CASE \E i \in DOMAIN copy[t].moves : PlanPoll(t, i)
  <2>1. PICK i \in DOMAIN copy[t].moves : PlanPoll(t, i)
    BY <1>4
  <2>2. plan'.id = plan.id /\ plan'.status = plan.status
    BY <1>0, <2>1, UpdateMoveKeeps DEF PlanPoll
  <2>3. \A s \in Ticks : copy'[s].id = copy[s].id
    BY <1>0, <2>1 DEF PlanPoll, Plan
  <2> QED
    BY <2>1, <2>2, <2>3, AppliedQuiet DEF PlanPoll
<1>b. ASSUME NEW i, NEW m, NEW started, StepMove(t, i, m, started),
             \A k \in Tasks : task'[k].plan \in {task[k].plan, copy[t].id}
      PROVE  PlanNumbered' /\ HeldApplied' /\ OnlyApplied'
  <2>1. \A s \in Ticks : copy'[s].id = copy[s].id
    BY <1>0, <1>b DEF StepMove, Plan
  <2> QED
    BY <1>b, <2>1, AppliedQuiet DEF StepMove
<1>5. CASE PlanSkips(t) \/ PlanFireRefused(t)
  BY <1>5, <1>b DEF PlanSkips, PlanFireRefused
<1>6. CASE \E k \in Tasks : PlanFires(t, k)
  <2>1. PICK k \in Tasks : PlanFires(t, k)
    BY <1>6
  <2>2. PICK g, dst : StartTask(k, g, dst, copy[t].id)
    BY <2>1 DEF PlanFires
  <2>3. \A j \in Tasks : task'[j].plan \in {task[j].plan, copy[t].id}
    BY <1>0, <2>2 DEF StartTask
  <2>4. \E i, m, started : StepMove(t, i, m, started)
    BY <2>1 DEF PlanFires
  <2> QED
    BY <1>b, <2>3, <2>4
<1>7. CASE PlanSaves(t)
  <2>1. plan'.id = plan.id /\ plan'.status = plan.status
    BY <1>0, <1>7, UpdateMoveKeeps DEF PlanSaves
  <2> QED
    BY <1>7, <2>1, AppliedQuiet DEF PlanSaves
<1>8. CASE PlanSaveFails(t)
  <2>1. \A s \in Ticks : copy'[s].id = copy[s].id
    BY <1>0, <1>8 DEF PlanSaveFails, Plan
  <2> QED
    BY <1>8, <2>1, AppliedQuiet DEF PlanSaveFails
<1>9. CASE PlanCompletes(t)
  <2>1. plan' = plan \/ plan' = [plan EXCEPT !.status = "completed"]
    BY <1>9 DEF PlanCompletes
  <2>2. plan.id = copy[t].id => plan.id # 0
    BY <1>9 DEF PlanCompletes, AppliedInv, StepHasPlan
  <2>3. plan'.id = plan.id /\ plan'.status \in {plan.status, "completed"}
    BY <1>0, <2>1 DEF Plan
  <2>4. plan.id = 0 => plan'.status = "none"
    BY <1>9, <2>2 DEF PlanCompletes, AppliedInv, PlanNumbered
  <2> QED
    BY <1>9, <2>3, <2>4 DEF PlanCompletes, AppliedInv, PlanNumbered, HeldApplied, OnlyApplied
<1>c. ASSUME NEW d, NextDecision(t, d),
             \A k \in Tasks : task'[k].plan \in {task[k].plan, 0}
      PROVE  PlanNumbered' /\ HeldApplied' /\ OnlyApplied'
  BY <1>c, AppliedQuiet DEF NextDecision
<1>10. CASE \E d \in decisions[t], k \in Tasks : Fire(t, d, k)
  <2>1. PICK d \in decisions[t], k \in Tasks : Fire(t, d, k)
    BY <1>10
  <2>2. \A j \in Tasks : task'[j].plan \in {task[j].plan, 0}
    BY <1>0, <2>1 DEF Fire, StartTask
  <2> QED
    BY <1>c, <2>1, <2>2 DEF Fire
<1>11. CASE \E d \in decisions[t] : FireRefused(t, d)
  BY <1>11, <1>c DEF FireRefused
<1> QED
  BY <1>1, <1>2, <1>3, <1>4, <1>5, <1>6, <1>7, <1>8, <1>9, <1>10, <1>11 DEF TickStep

LEMMA StepHasPlanTick ==
  ASSUME AppliedInv, NEW t \in Ticks, TickBegins(t) \/ TickStep(t)
  PROVE  StepHasPlan'
<1>0. /\ plan \in Plan /\ copy \in [Ticks -> Plan] /\ pc \in [Ticks -> TickPc]
      /\ PlanRuns(plan) => plan.id # 0
  BY DEF AppliedInv, TypeInv, TypeOK, PlanNumbered, PlanRuns
<1>a. ASSUME \A s \in Ticks \ {t} : copy'[s].id = copy[s].id /\ pc'[s] = pc[s],
             \/ copy'[t].id = copy[t].id /\ pc[t] \in {"pollmoves", "save", "complete"}
             \/ pc'[t] \notin {"pollmoves", "save", "complete"}
             \/ copy'[t].id # 0
      PROVE  StepHasPlan'
  BY <1>a DEF AppliedInv, StepHasPlan
<1>1. CASE TickBegins(t) \/ Fetch(t) \/ FetchFails(t) \/ CountPending(t)
  BY <1>0, <1>1, <1>a DEF TickBegins, Fetch, FetchFails, CountPending, locals
<1>2. CASE MetricsFail(t) \/ Decide(t) \/ TickEnds(t)
  BY <1>0, <1>2, <1>a DEF MetricsFail, Decide, TickEnds, Leave, ForgetStep
<1>3. CASE PlanRead(t)
  BY <1>0, <1>3, <1>a DEF PlanRead
<1>4. CASE PlanIdles(t) \/ PlanSaves(t) \/ PlanCompletes(t)
  BY <1>0, <1>4, <1>a DEF PlanIdles, PlanSaves, PlanCompletes
<1>5. CASE \/ (\E i \in DOMAIN copy[t].moves : PlanPoll(t, i))
           \/ PlanSaveFails(t)
  BY <1>0, <1>5, <1>a DEF PlanPoll, PlanSaveFails, Plan
<1>6. CASE PlanSkips(t) \/ PlanFireRefused(t) \/ \E k \in Tasks : PlanFires(t, k)
  <2>1. PICK i, m, started : StepMove(t, i, m, started)
    BY <1>6 DEF PlanSkips, PlanFireRefused, PlanFires
  <2>2. pc[t] = "pollmoves"
    BY <1>6 DEF PlanSkips, PlanFireRefused, PlanFires, MayStep
  <2>3. \A s \in Ticks : copy'[s].id = copy[s].id
    BY <1>0, <2>1 DEF StepMove, Plan
  <2>4. \A s \in Ticks \ {t} : pc'[s] = pc[s]
    BY <1>0, <2>1 DEF StepMove
  <2> QED
    BY <1>a, <2>2, <2>3, <2>4
<1>7. CASE \/ (\E k \in Tasks : PollPending(t, k))
           \/ (\E d \in decisions[t], k \in Tasks : Fire(t, d, k))
           \/ (\E d \in decisions[t] : FireRefused(t, d))
  <2>1. CASE \E k \in Tasks : PollPending(t, k)
    BY <1>0, <2>1, <1>a DEF PollPending, locals
  <2>2. CASE UNCHANGED copy /\ \E p \in {"end", "fire"} : pc' = [pc EXCEPT ![t] = p]
    BY <1>0, <2>2, <1>a
  <2> QED
    BY <1>7, <2>1, <2>2 DEF Fire, FireRefused, NextDecision
<1> QED
  BY <1>1, <1>2, <1>3, <1>4, <1>5, <1>6, <1>7 DEF TickStep

LEMMA StepHasPlanOther ==
  ASSUME AppliedInv,
         TickFindsDisabled \/ TickTimesOut \/ Restart \/ OperatorStep \/ ProxmoxStep
  PROVE  StepHasPlan'
<1>1. CASE Restart
  BY <1>1 DEF Restart, StepHasPlan
<1>2. CASE TickFindsDisabled \/ TickTimesOut \/ OperatorStep \/ ProxmoxStep
  <2>1. UNCHANGED <<pc, copy>>
    BY <1>2 DEF TickFindsDisabled, TickTimesOut, OperatorStep, ProxmoxStep, TaskEnds, Drift,
       ComputeReads, ComputeSaves, Apply, CancelReads, CancelWrites, PageLoads, Disable, Enable, locals
  <2> QED
    BY <2>1 DEF AppliedInv, StepHasPlan
<1> QED
  BY <1>1, <1>2

(* The other steps keep AppliedInv too. *)
LEMMA AppliedOther ==
  ASSUME AppliedInv,
         TickFindsDisabled \/ TickTimesOut \/ Restart \/ OperatorStep \/ ProxmoxStep
  PROVE  PlanNumbered' /\ HeldApplied' /\ OnlyApplied'
<1> USE DEF proxmoxVars, locals, siteVars
<1>0. /\ plan \in Plan /\ copy \in [Ticks -> Plan] /\ task \in [Tasks -> TaskRec]
      /\ NoPlan.id = 0 /\ NoPlan.status = "none" /\ plan.id \in Nat /\ plans \in Nat
  BY LBAssumption DEF AppliedInv, TypeInv, TypeOK, NoPlan, Plan
<1>1. CASE TickFindsDisabled \/ TickTimesOut \/ PageLoads \/ Disable \/ Enable
  BY <1>1, AppliedQuiet DEF TickFindsDisabled, TickTimesOut, PageLoads, Disable, Enable
<1>2. CASE Restart
  <2>1. \A t \in Ticks : copy'[t].id = 0
    BY <1>0, <1>2 DEF Restart
  <2>2. request'.kind # "cancel"
    BY <1>2 DEF Restart, NoRequest
  <2> QED
    BY <1>2, <2>1, <2>2, AppliedQuiet DEF Restart
<1>3. CASE ComputeReads
  BY <1>3, AppliedQuiet DEF ComputeReads
<1>4. CASE ComputeSaves
  <2>1. request'.kind # "cancel"
    BY <1>4 DEF ComputeSaves, NoRequest
  <2>2. HeldApplied' /\ OnlyApplied'
    BY <1>4, <2>1 DEF ComputeSaves, AppliedInv, HeldApplied, OnlyApplied
  <2>3. CASE plan' = NoPlan /\ UNCHANGED plans
    BY <1>0, <1>4, <2>2, <2>3 DEF ComputeSaves, AppliedInv, PlanNumbered
  <2>4. CASE plans' = plans + 1 /\ plan'.id = plans + 1 /\ plan'.status = "draft"
    <3>1. applied \subseteq 1..plans /\ applied' = applied
      BY <1>4 DEF ComputeSaves, AppliedInv, PlanNumbered
    <3>2. plans + 1 \notin 1..plans /\ 1..plans \subseteq 1..(plans + 1) /\ plans + 1 # 0
      BY <1>0
    <3> QED
      BY <1>0, <2>2, <2>4, <3>1, <3>2 DEF PlanNumbered
  <2> QED
    BY <1>4, <2>3, <2>4 DEF ComputeSaves
<1>5. CASE Apply
  <2>1. plan'.id = plan.id /\ plan'.status = "active" /\ plan.status = "draft"
    BY <1>0, <1>5 DEF Apply, Applicable, Plan
  <2>2. plan.id \in 1..plans
    BY <1>0, <2>1 DEF AppliedInv, PlanNumbered
  <2>3. PlanNumbered'
    BY <1>5, <2>1, <2>2 DEF Apply, AppliedInv, PlanNumbered
  <2> QED
    BY <1>5, <2>3 DEF Apply, AppliedInv, HeldApplied, OnlyApplied
<1>6. CASE CancelReads
  <2>1. CASE plan.status = "active" /\ request' = [kind |-> "cancel", id |-> plan.id]
    <3>1. plan.id \in applied
      BY <2>1 DEF AppliedInv, PlanNumbered
    <3> QED
      BY <1>6, <2>1, <3>1
      DEF CancelReads, AppliedInv, PlanNumbered, HeldApplied, OnlyApplied
  <2>2. CASE request' = [kind |-> "clear", id |-> plan.id]
    BY <1>6, <2>2, AppliedQuiet DEF CancelReads
  <2> QED
    BY <1>6, <2>1, <2>2 DEF CancelReads
<1>7. CASE CancelWrites
  <2>1. request'.kind # "cancel"
    BY <1>7 DEF CancelWrites, NoRequest
  <2>2. HeldApplied' /\ OnlyApplied'
    BY <1>7, <2>1 DEF CancelWrites, AppliedInv, HeldApplied, OnlyApplied
  <2>3. CASE plan' = plan \/ plan' = NoPlan
    BY <1>0, <1>7, <2>2, <2>3 DEF CancelWrites, AppliedInv, PlanNumbered
  <2>4. CASE request.kind = "cancel" /\ plan.id = request.id /\ plan' = Dropped(plan)
    <3>1. plan'.id = plan.id /\ plan'.status = "cancelled"
      BY <1>0, <2>4 DEF Dropped, Plan
    <3>2. plan.id \in applied /\ plan.id # 0
      BY <1>0, <2>4 DEF AppliedInv, HeldApplied, PlanNumbered
    <3> QED
      BY <1>7, <2>2, <3>1, <3>2 DEF CancelWrites, AppliedInv, PlanNumbered
  <2> QED
    BY <1>7, <2>3, <2>4 DEF CancelWrites
<1>8. CASE ProxmoxStep
  <2>1. \A k \in Tasks : task'[k].plan = task[k].plan
    BY <1>0, <1>8 DEF ProxmoxStep, TaskEnds, Drift, TaskRec
  <2>2. UNCHANGED <<plan, request, copy, plans, applied>>
    BY <1>8 DEF ProxmoxStep, TaskEnds, Drift
  <2> QED
    BY <2>1, <2>2, AppliedQuiet
<1> QED
  BY <1>1, <1>2, <1>3, <1>4, <1>5, <1>6, <1>7, <1>8 DEF OperatorStep

LEMMA AppliedNext == AppliedInv /\ [Next]_vars => AppliedInv'
<1> SUFFICES ASSUME AppliedInv, [Next]_vars PROVE AppliedInv'
  OBVIOUS
<1>1. TypeInv'
  BY TypeNext DEF AppliedInv
<1>2. CASE UNCHANGED vars
  BY <1>1, <1>2 DEF vars, AppliedInv, PlanNumbered, HeldApplied, StepHasPlan, OnlyApplied
<1> QED
  BY <1>1, <1>2, AppliedTick, AppliedOther, StepHasPlanTick, StepHasPlanOther
  DEF Next, AppliedInv

LEMMA AppliedAlways == Spec => []AppliedInv
BY AppliedInit, AppliedNext, PTL DEF Spec

(* No task ever runs for a plan the operator did not apply: not through a late fire
   of a tick whose plan was replaced, not after a restart, not with overlapping ticks. *)
THEOREM AppliedOnly == Spec => []OnlyApplied
<1>1. AppliedInv => OnlyApplied
  BY DEF AppliedInv
<1> QED
  BY <1>1, AppliedAlways, PTL

-----------------------------------------------------------------------------
(* A plan that ended is never active again. *)

(* A draft is touched by no late write, and what ended stays ended. *)
LEMMA NoRevival ==
  ASSUME AppliedInv, [Next]_vars, plan'.id = plan.id
  PROVE  /\ plan.status = "draft" => plan'.status \in {"draft", "active"}
         /\ plan.status \in {"completed", "cancelled"} =>
              plan'.status \in {"completed", "cancelled"}
<1> DEFINE Good == /\ plan.status = "draft" => plan'.status \in {"draft", "active"}
                   /\ plan.status \in {"completed", "cancelled"} =>
                        plan'.status \in {"completed", "cancelled"}
<1>0. plan \in Plan /\ plan.id \in Nat /\ plans \in Nat /\ NoPlan.id = 0
  BY LBAssumption DEF AppliedInv, TypeInv, TypeOK, Plan, NoPlan
<1>1. ASSUME plan' = plan PROVE Good
  BY <1>1
<1>2. ASSUME NEW id, NEW i, NEW m, UpdateMove(id, i, m) PROVE Good
  BY <1>0, <1>2, UpdateMoveKeeps
<1>3. ASSUME NEW t \in Ticks, PlanCompletes(t) PROVE Good
  <2>1. plan.id = copy[t].id => plan.status # "draft"
    BY <1>3 DEF PlanCompletes, AppliedInv, StepHasPlan, HeldApplied, PlanNumbered
  <2> QED
    BY <1>0, <1>3, <2>1 DEF PlanCompletes, Plan
<1>4. CASE ComputeSaves
  <2>1. CASE plan' = NoPlan
    BY <1>0, <2>1 DEF AppliedInv, PlanNumbered
  <2>2. CASE plan'.id = plans + 1
    BY <1>0, <2>2 DEF AppliedInv, PlanNumbered
  <2> QED
    BY <1>4, <2>1, <2>2 DEF ComputeSaves
<1>5. CASE Apply
  BY <1>0, <1>5 DEF Apply, Applicable, Plan
<1>6. CASE CancelWrites
  <2>1. CASE plan' = NoPlan
    BY <1>0, <2>1 DEF AppliedInv, PlanNumbered
  <2>2. CASE request.kind = "cancel" /\ plan.id = request.id /\ plan' = Dropped(plan)
    <3>1. plan.status # "draft"
      BY <2>2 DEF AppliedInv, HeldApplied, PlanNumbered
    <3> QED
      BY <1>0, <2>2, <3>1 DEF Dropped, Plan
  <2> QED
    BY <1>1, <1>6, <2>1, <2>2 DEF CancelWrites
<1>7. ASSUME NEW t \in Ticks, TickBegins(t) \/ TickStep(t) PROVE Good
  <2>1. CASE \/ TickBegins(t) \/ Fetch(t) \/ FetchFails(t) \/ MetricsFail(t)
             \/ (\E k \in Tasks : PollPending(t, k)) \/ CountPending(t) \/ PlanRead(t)
             \/ PlanIdles(t) \/ PlanSaveFails(t) \/ Decide(t) \/ TickEnds(t)
    BY <1>1, <2>1 DEF TickBegins, Fetch, FetchFails, MetricsFail, PollPending, CountPending,
       PlanRead, PlanIdles, PlanSaveFails, Decide, TickEnds
  <2>2. CASE \/ PlanSkips(t) \/ PlanFireRefused(t) \/ (\E k \in Tasks : PlanFires(t, k))
             \/ (\E d \in decisions[t], k \in Tasks : Fire(t, d, k))
             \/ (\E d \in decisions[t] : FireRefused(t, d))
    BY <1>1, <2>2 DEF PlanSkips, PlanFireRefused, PlanFires, StepMove, Fire, FireRefused,
       NextDecision
  <2>3. CASE \E i \in DOMAIN copy[t].moves : PlanPoll(t, i)
    BY <1>1, <1>2, <2>3 DEF PlanPoll
  <2>4. CASE PlanSaves(t)
    BY <1>2, <2>4 DEF PlanSaves
  <2> QED
    BY <1>3, <1>7, <2>1, <2>2, <2>3, <2>4 DEF TickStep
<1>8. CASE \/ TickFindsDisabled \/ TickTimesOut \/ Restart \/ ComputeReads \/ CancelReads
           \/ PageLoads \/ Disable \/ Enable \/ ProxmoxStep \/ UNCHANGED vars
  BY <1>1, <1>8 DEF TickFindsDisabled, TickTimesOut, Restart, ComputeReads, CancelReads,
     PageLoads, Disable, Enable, ProxmoxStep, TaskEnds, Drift, vars
<1> QED
  BY <1>4, <1>5, <1>6, <1>7, <1>8 DEF Next, OperatorStep

(* Whatever a tick or a request writes late, it never makes a plan active that was
   completed or cancelled, and never ends a draft. *)
THEOREM PlanStaysEnded == Spec => PlanNeverRevives
<1>1. AppliedInv /\ [Next]_vars =>
        [plan'.id = plan.id =>
           /\ plan.status = "draft" => plan'.status \in {"draft", "active"}
           /\ plan.status \in {"completed", "cancelled"} =>
                plan'.status \in {"completed", "cancelled"}]_vars
  BY NoRevival
<1> QED
  BY <1>1, AppliedAlways, PTL DEF Spec, PlanNeverRevives

-----------------------------------------------------------------------------
(* The moves name the tasks that carry them out. *)

(* Move m of plan id is backed by the tasks T. *)
BackedMove(T, id, m) ==
  /\ m.st = "migrating" =>
       /\ m.upid \in Tasks /\ T[m.upid].st # "free"
       /\ T[m.upid].guest = m.guest /\ T[m.upid].dst = m.dst /\ T[m.upid].plan = id
  /\ m.st = "done" =>
       \E k \in Tasks : T[k] = [st |-> "ok", guest |-> m.guest, dst |-> m.dst, plan |-> id]

Backed(T, p) == \A i \in DOMAIN p.moves : BackedMove(T, p.id, p.moves[i])

(* Tasks are started once, and a task that ended well stays so. *)
Later(T, U) ==
  \A k \in Tasks :
    /\ T[k].st # "free" => /\ U[k].st # "free" /\ U[k].guest = T[k].guest
                           /\ U[k].dst = T[k].dst /\ U[k].plan = T[k].plan
    /\ T[k].st = "ok" => U[k] = T[k]

(* The local copy of a tick and the stored plan move the same guests the same way. *)
SameMoves(p, q) ==
  p.id = q.id /\ p.id # 0 =>
    /\ DOMAIN p.moves = DOMAIN q.moves
    /\ \A i \in DOMAIN p.moves : /\ p.moves[i].guest = q.moves[i].guest
                                 /\ p.moves[i].dst = q.moves[i].dst

BackedInv ==
  /\ AppliedInv
  /\ Backed(task, plan)
  /\ \A t \in Ticks : Backed(task, copy[t]) /\ SameMoves(copy[t], plan)

LEMMA BackedLater ==
  ASSUME NEW T, NEW U, Later(T, U), NEW p, Backed(T, p)
  PROVE  Backed(U, p)
BY DEF Later, Backed, BackedMove

LEMMA NoPlanBacked ==
  ASSUME NEW T, NEW q
  PROVE  Backed(T, NoPlan) /\ SameMoves(NoPlan, q)
BY DEF NoPlan, Backed, SameMoves

(* Overwriting a move by one that is backed, for the same guest and target. *)
LEMMA BackedExcept ==
  ASSUME NEW T, NEW p \in Plan, Backed(T, p), NEW i, NEW e \in Move,
         i \in DOMAIN p.moves => BackedMove(T, p.id, e) /\ e.guest = p.moves[i].guest
                                 /\ e.dst = p.moves[i].dst
  PROVE  LET q == [p EXCEPT !.moves = [@ EXCEPT ![i] = e]] IN
           /\ Backed(T, q) /\ q.id = p.id
           /\ \A r : SameMoves(p, r) => SameMoves(q, r)
           /\ \A r : SameMoves(r, p) => SameMoves(r, q)
<1> DEFINE ms == [p.moves EXCEPT ![i] = e]
           q  == [p EXCEPT !.moves = ms]
<1>1. p.moves \in Moves
  BY DEF Plan
<1>2. /\ DOMAIN ms = DOMAIN p.moves
      /\ \A j \in DOMAIN p.moves : ms[j] = IF j = i THEN e ELSE p.moves[j]
  BY <1>1, MovesExcept
<1>3. q.id = p.id /\ q.moves = ms
  BY DEF Plan
<1> HIDE DEF ms, q
<1>4. Backed(T, q)
  BY <1>2, <1>3 DEF Backed
<1>5. \A j \in DOMAIN p.moves : ms[j].guest = p.moves[j].guest /\ ms[j].dst = p.moves[j].dst
  BY <1>2
<1>6. /\ \A r : SameMoves(p, r) => SameMoves(q, r)
      /\ \A r : SameMoves(r, p) => SameMoves(r, q)
  BY <1>2, <1>3, <1>5 DEF SameMoves
<1> QED
  BY <1>3, <1>4, <1>6 DEF ms, q

(* What the steps write of a backed move is backed. *)
LEMMA SavedMoveBacked ==
  ASSUME NEW T, NEW id, NEW old \in Move, NEW m \in Move, BackedMove(T, id, m),
         old.guest = m.guest, old.dst = m.dst
  PROVE  /\ SavedMove(old, m) \in Move /\ BackedMove(T, id, SavedMove(old, m))
         /\ SavedMove(old, m).guest = old.guest /\ SavedMove(old, m).dst = old.dst
<1>1. SavedMove(old, m) \in Move
  BY DEF SavedMove, Move
<1>2. /\ SavedMove(old, m).guest = old.guest /\ SavedMove(old, m).dst = old.dst
      /\ SavedMove(old, m).st = m.st
      /\ m.st = "migrating" => SavedMove(old, m).upid = m.upid
  BY DEF SavedMove, Move
<1> QED
  BY <1>1, <1>2 DEF BackedMove

LEMMA UpdateMoveBacked ==
  ASSUME plan \in Plan, NEW T, Backed(T, plan), NEW p \in Plan, SameMoves(p, plan), p.id # 0,
         NEW i \in DOMAIN p.moves, NEW m \in Move, BackedMove(T, p.id, m),
         m.guest = p.moves[i].guest, m.dst = p.moves[i].dst, UpdateMove(p.id, i, m)
  PROVE  /\ Backed(T, plan')
         /\ \A r : SameMoves(r, plan) => SameMoves(r, plan')
<1>1. CASE plan.id = p.id
  <2>1. i \in DOMAIN plan.moves /\ plan.moves[i].guest = m.guest /\ plan.moves[i].dst = m.dst
    BY <1>1 DEF SameMoves
  <2>2. plan.moves[i] \in Move
    BY <2>1, MovesDomain DEF Plan
  <2> DEFINE e == SavedMove(plan.moves[i], m)
  <2>3. /\ e \in Move /\ BackedMove(T, plan.id, e)
        /\ e.guest = plan.moves[i].guest /\ e.dst = plan.moves[i].dst
    BY <1>1, <2>1, <2>2, SavedMoveBacked
  <2>4. plan' = [plan EXCEPT !.moves = [@ EXCEPT ![i] = e]]
    BY <1>1 DEF UpdateMove
  <2> HIDE DEF e
  <2> QED
    BY <2>3, <2>4, BackedExcept
<1>2. CASE plan.id # p.id
  BY <1>2 DEF UpdateMove
<1> QED
  BY <1>1, <1>2

(* Every step leaves the tasks it finds, but for the end of a running one. *)
LEMMA LaterNext ==
  ASSUME TypeOK, [Next]_vars
  PROVE  Later(task, task')
<1> USE DEF proxmoxVars
<1>0. task \in [Tasks -> TaskRec]
  BY DEF TypeOK
<1>1. CASE UNCHANGED task
  BY <1>1 DEF Later
<1>2. ASSUME NEW k \in Tasks, NEW g, NEW dst, NEW p, StartTask(k, g, dst, p)
      PROVE  Later(task, task')
  BY <1>0, <1>2 DEF StartTask, Later
<1>3. ASSUME NEW k \in Tasks, TaskEnds(k) PROVE Later(task, task')
  <2>1. PICK st \in {"ok", "warnings", "error"} : task' = [task EXCEPT ![k].st = st]
    BY <1>3 DEF TaskEnds
  <2>2. task[k].st = "running" /\ task[k] \in TaskRec
    BY <1>0, <1>3 DEF TaskEnds
  <2>3. task'[k].st # "free" /\ task'[k].guest = task[k].guest
        /\ task'[k].dst = task[k].dst /\ task'[k].plan = task[k].plan
    BY <1>0, <2>1, <2>2 DEF TaskRec
  <2>4. \A j \in Tasks : j # k => task'[j] = task[j]
    BY <1>0, <2>1
  <2> QED
    BY <2>2, <2>3, <2>4 DEF Later
<1>4. ASSUME NEW t \in Ticks, TickBegins(t) \/ TickStep(t) PROVE Later(task, task')
  <2>1. CASE \/ TickBegins(t) \/ Fetch(t) \/ FetchFails(t) \/ MetricsFail(t)
             \/ (\E k \in Tasks : PollPending(t, k)) \/ CountPending(t) \/ PlanRead(t)
             \/ (\E i \in DOMAIN copy[t].moves : PlanPoll(t, i)) \/ PlanIdles(t)
    BY <1>1, <2>1 DEF TickBegins, Fetch, FetchFails, MetricsFail, PollPending, CountPending,
       PlanRead, PlanPoll, PlanIdles
  <2>2. CASE \/ PlanSkips(t) \/ PlanFireRefused(t) \/ PlanSaves(t) \/ PlanSaveFails(t)
             \/ PlanCompletes(t) \/ Decide(t)
             \/ (\E d \in decisions[t] : FireRefused(t, d)) \/ TickEnds(t)
    BY <1>1, <2>2 DEF PlanSkips, PlanFireRefused, PlanSaves, PlanSaveFails, PlanCompletes,
       Decide, FireRefused, TickEnds
  <2>3. CASE \/ (\E k \in Tasks : PlanFires(t, k))
             \/ (\E d \in decisions[t], k \in Tasks : Fire(t, d, k))
    BY <1>2, <2>3 DEF PlanFires, Fire
  <2> QED
    BY <1>4, <2>1, <2>2, <2>3 DEF TickStep
<1>5. CASE \/ TickFindsDisabled \/ TickTimesOut \/ Restart \/ OperatorStep
           \/ (\E g \in Guests, n \in Nodes : Drift(g, n)) \/ UNCHANGED vars
  BY <1>1, <1>5 DEF TickFindsDisabled, TickTimesOut, Restart, OperatorStep, ComputeReads,
     ComputeSaves, Apply, CancelReads, CancelWrites, PageLoads, Disable, Enable, Drift, vars
<1> QED
  BY <1>3, <1>4, <1>5 DEF Next, ProxmoxStep

BackedParts(T, p, c) == Backed(T, p) /\ \A t \in Ticks : Backed(T, c[t]) /\ SameMoves(c[t], p)

(* A step that leaves the plan, and gives the ticks no copy but that of the plan. *)
LEMMA BackedQuiet ==
  ASSUME BackedInv, Later(task, task'), plan' = plan,
         \A t \in Ticks : copy'[t] \in {copy[t], NoPlan, plan}
  PROVE  BackedParts(task', plan', copy')
<1>1. Backed(task', plan)
  BY BackedLater DEF BackedInv
<1>2. ASSUME NEW t \in Ticks PROVE Backed(task', copy'[t]) /\ SameMoves(copy'[t], plan)
  <2>1. Backed(task', copy[t]) /\ SameMoves(copy[t], plan)
    BY BackedLater DEF BackedInv
  <2>2. SameMoves(plan, plan)
    BY DEF SameMoves
  <2> QED
    BY <1>1, <2>1, <2>2, NoPlanBacked
<1> QED
  BY <1>1, <1>2 DEF BackedParts

(* A step of tick t that overwrites move i of its copy by m and leaves the plan. *)
LEMMA BackedCopy ==
  ASSUME BackedInv, Later(task, task'), plan' = plan,
         NEW t \in Ticks, NEW i \in DOMAIN copy[t].moves, NEW m \in Move,
         copy' = [copy EXCEPT ![t].moves[i] = m], BackedMove(task', copy[t].id, m),
         m.guest = copy[t].moves[i].guest, m.dst = copy[t].moves[i].dst
  PROVE  BackedParts(task', plan', copy')
<1>0. copy \in [Ticks -> Plan]
  BY DEF BackedInv, AppliedInv, TypeInv, TypeOK
<1>1. Backed(task', plan)
  BY BackedLater DEF BackedInv
<1>2. \A s \in Ticks : Backed(task', copy[s]) /\ SameMoves(copy[s], plan)
  BY BackedLater DEF BackedInv
<1>3. copy'[t] = [copy[t] EXCEPT !.moves = [@ EXCEPT ![i] = m]]
  BY <1>0
<1>4. Backed(task', copy'[t]) /\ SameMoves(copy'[t], plan)
  BY <1>0, <1>2, <1>3, BackedExcept
<1>5. \A s \in Ticks : s # t => copy'[s] = copy[s]
  BY <1>0
<1> QED
  BY <1>1, <1>2, <1>4, <1>5 DEF BackedParts

LEMMA BackedTick ==
  ASSUME BackedInv, Later(task, task'), NEW t \in Ticks, TickBegins(t) \/ TickStep(t)
  PROVE  BackedParts(task', plan', copy')
<1> USE DEF proxmoxVars, locals
<1> DEFINE ms == copy[t].moves
<1>0. /\ plan \in Plan /\ copy \in [Ticks -> Plan] /\ task \in [Tasks -> TaskRec]
      /\ copy[t] \in Plan /\ AppliedInv /\ TypeInv
  BY DEF BackedInv, AppliedInv, TypeInv, TypeOK
<1>m. \A i \in DOMAIN ms : ms[i] \in Move /\ BackedMove(task, copy[t].id, ms[i])
  BY <1>0, CopyFacts DEF BackedInv, Backed
<1>l. \A i \in DOMAIN ms : BackedMove(task', copy[t].id, ms[i])
  <2>1. Backed(task', copy[t])
    BY BackedLater DEF BackedInv
  <2> QED
    BY <2>1 DEF Backed
<1>a. ASSUME UNCHANGED plan, copy' = copy \/ copy' = [copy EXCEPT ![t] = NoPlan]
                             \/ copy' = [copy EXCEPT ![t] = plan]
      PROVE  BackedParts(task', plan', copy')
  BY <1>0, <1>a, BackedQuiet
<1>1. CASE \/ TickBegins(t) \/ Fetch(t) \/ FetchFails(t) \/ (\E k \in Tasks : PollPending(t, k))
           \/ CountPending(t) \/ PlanIdles(t)
  BY <1>1, <1>a DEF TickBegins, Fetch, FetchFails, PollPending, CountPending, PlanIdles
<1>2. CASE MetricsFail(t) \/ Decide(t) \/ TickEnds(t) \/ PlanRead(t)
  BY <1>2, <1>a DEF MetricsFail, Decide, TickEnds, Leave, ForgetStep, PlanRead
<1>3. CASE \/ (\E d \in decisions[t], k \in Tasks : Fire(t, d, k))
           \/ (\E d \in decisions[t] : FireRefused(t, d))
  BY <1>3, <1>a DEF Fire, FireRefused, NextDecision
<1>4. CASE \E i \in DOMAIN ms : PlanPoll(t, i)
  <2>1. PICK i \in DOMAIN ms : PlanPoll(t, i)
    BY <1>4
  <2> DEFINE m == PolledMove(ms[i])
  <2>2. ms[i].st = "migrating" /\ Finished(ms[i].upid) /\ pc[t] = "pollmoves"
    BY <2>1 DEF PlanPoll, Migrating
  <2>3. ms[i] \in Move /\ m \in Move /\ m.guest = ms[i].guest /\ m.dst = ms[i].dst
        /\ m.st = (IF task[ms[i].upid].st = "ok" THEN "done" ELSE "failed")
    BY <1>m DEF PolledMove, Move, MoveStatus
  <2>4. BackedMove(task, copy[t].id, m)
    <3>1. CASE task[ms[i].upid].st = "ok"
      <4>1. ms[i].upid \in Tasks /\ task[ms[i].upid].guest = ms[i].guest
            /\ task[ms[i].upid].dst = ms[i].dst /\ task[ms[i].upid].plan = copy[t].id
        BY <1>m, <2>2 DEF BackedMove
      <4>2. task[ms[i].upid] = [st |-> "ok", guest |-> m.guest, dst |-> m.dst,
                                plan |-> copy[t].id]
        BY <1>0, <2>3, <3>1, <4>1 DEF TaskRec
      <4> QED
        BY <2>3, <3>1, <4>1, <4>2 DEF BackedMove
    <3>2. CASE task[ms[i].upid].st # "ok"
      BY <2>3, <3>2 DEF BackedMove
    <3> QED
      BY <3>1, <3>2
  <2>5. UNCHANGED task /\ copy' = [copy EXCEPT ![t].moves[i] = m]
        /\ (UpdateMove(copy[t].id, i, m) \/ UNCHANGED plan)
    BY <2>1 DEF PlanPoll
  <2> HIDE DEF m
  <2>6. CASE UNCHANGED plan
    BY <2>3, <2>4, <2>5, <2>6, BackedCopy
  <2>7. CASE UpdateMove(copy[t].id, i, m)
    <3>1. copy[t].id # 0
      BY <1>0, <2>2 DEF AppliedInv, StepHasPlan
    <3>2. /\ Backed(task, plan)
          /\ \A s \in Ticks : Backed(task, copy[s]) /\ SameMoves(copy[s], plan)
      BY DEF BackedInv
    <3>3. /\ Backed(task, plan')
          /\ \A r : SameMoves(r, plan) => SameMoves(r, plan')
      BY <1>0, <2>3, <2>4, <2>7, <3>1, <3>2, UpdateMoveBacked
    <3>4. copy'[t] = [copy[t] EXCEPT !.moves = [@ EXCEPT ![i] = m]]
      BY <1>0, <2>5
    <3>5. Backed(task, copy'[t]) /\ SameMoves(copy'[t], plan')
      BY <1>0, <2>3, <2>4, <3>2, <3>3, <3>4, BackedExcept
    <3>6. \A s \in Ticks : s # t => copy'[s] = copy[s]
      BY <1>0, <2>5
    <3> QED
      BY <2>5, <3>2, <3>3, <3>5, <3>6 DEF BackedParts
  <2> QED
    BY <2>5, <2>6, <2>7
<1>5. CASE PlanSkips(t) \/ PlanFireRefused(t)
  <2>1. PICK i \in NextQueued(ms), st \in {"skipped", "failed"} :
          StepMove(t, i, [ms[i] EXCEPT !.st = st], FALSE)
    BY <1>5 DEF PlanSkips, PlanFireRefused
  <2>2. i \in DOMAIN ms /\ ms[i] \in Move
    BY <1>0, <2>1, CopyFacts
  <2>3. [ms[i] EXCEPT !.st = st] \in Move
        /\ BackedMove(task', copy[t].id, [ms[i] EXCEPT !.st = st])
    BY <2>1, <2>2 DEF Move, MoveStatus, BackedMove
  <2> QED
    BY <2>1, <2>2, <2>3, BackedCopy DEF StepMove, Move
<1>6. CASE \E k \in Tasks : PlanFires(t, k)
  <2>1. PICK k \in Tasks : PlanFires(t, k)
    BY <1>6
  <2>2. PICK i \in NextQueued(ms) :
          /\ StartTask(k, ms[i].guest, ms[i].dst, copy[t].id)
          /\ \/ StepMove(t, i, [ms[i] EXCEPT !.st = "migrating", !.upid = k], TRUE)
             \/ StepMove(t, i, [ms[i] EXCEPT !.st = "failed"], FALSE)
    BY <2>1 DEF PlanFires
  <2>3. i \in DOMAIN ms /\ ms[i] \in Move
    BY <1>0, <2>2, CopyFacts
  <2>4. task'[k] = [st |-> "running", guest |-> ms[i].guest, dst |-> ms[i].dst,
                    plan |-> copy[t].id]
    BY <1>0, <2>2 DEF StartTask
  <2>5. CASE StepMove(t, i, [ms[i] EXCEPT !.st = "migrating", !.upid = k], TRUE)
    <3> DEFINE m == [ms[i] EXCEPT !.st = "migrating", !.upid = k]
    <3>1. m \in Move /\ m.st = "migrating" /\ m.upid = k
          /\ m.guest = ms[i].guest /\ m.dst = ms[i].dst
      BY <2>3 DEF Move, MoveStatus
    <3>2. BackedMove(task', copy[t].id, m)
      <4> HIDE DEF m
      <4> QED
        BY <2>4, <3>1 DEF BackedMove
    <3>3. copy' = [copy EXCEPT ![t].moves[i] = m] /\ UNCHANGED plan
      BY <2>5 DEF StepMove
    <3> HIDE DEF m
    <3> QED
      BY <2>3, <3>1, <3>2, <3>3, BackedCopy
  <2>6. CASE StepMove(t, i, [ms[i] EXCEPT !.st = "failed"], FALSE)
    <3>1. [ms[i] EXCEPT !.st = "failed"] \in Move
          /\ BackedMove(task', copy[t].id, [ms[i] EXCEPT !.st = "failed"])
      BY <2>3 DEF Move, MoveStatus, BackedMove
    <3> QED
      BY <2>3, <2>6, <3>1, BackedCopy DEF StepMove, Move
  <2> QED
    BY <2>2, <2>5, <2>6
<1>7. CASE PlanSaves(t)
  <2>1. cur[t] \in DOMAIN ms /\ copy[t].id # 0
    BY <1>0, <1>7 DEF PlanSaves, AppliedInv, StepHasPlan, TypeInv, CurInPlan
  <2>2. ms[cur[t]] \in Move /\ BackedMove(task, copy[t].id, ms[cur[t]])
    BY <1>m, <2>1
  <2>3. /\ Backed(task, plan')
        /\ \A r : SameMoves(r, plan) => SameMoves(r, plan')
    BY <1>0, <1>7, <2>1, <2>2, UpdateMoveBacked DEF PlanSaves, BackedInv
  <2> QED
    BY <1>7, <2>3 DEF PlanSaves, BackedInv, BackedParts
<1>8. CASE PlanSaveFails(t)
  <2>1. CASE UNCHANGED copy
    BY <1>8, <1>a, <2>1 DEF PlanSaveFails
  <2>2. CASE pc[t] = "save" /\ ms[cur[t]].st = "migrating"
    <3> DEFINE m == [ms[cur[t]] EXCEPT !.st = "failed", !.upid = NoTask]
    <3>1. cur[t] \in DOMAIN ms
      BY <1>0, <2>2 DEF TypeInv, CurInPlan
    <3>2. m \in Move /\ m.st = "failed" /\ m.guest = ms[cur[t]].guest /\ m.dst = ms[cur[t]].dst
      BY <1>m, <3>1 DEF Move, MoveStatus
    <3>3. copy' = [copy EXCEPT ![t].moves[cur[t]] = m] /\ UNCHANGED plan
      BY <1>8, <2>2 DEF PlanSaveFails
    <3> HIDE DEF m
    <3>4. BackedMove(task', copy[t].id, m)
      BY <3>2 DEF BackedMove
    <3> QED
      BY <3>1, <3>2, <3>3, <3>4, BackedCopy
  <2> QED
    BY <1>8, <2>1, <2>2 DEF PlanSaveFails
<1>9. CASE PlanCompletes(t)
  <2>1. plan'.id = plan.id /\ plan'.moves = plan.moves /\ UNCHANGED <<task, copy>>
    BY <1>0, <1>9 DEF PlanCompletes, Plan
  <2> QED
    BY <2>1 DEF BackedInv, BackedParts, Backed, SameMoves
<1> QED
  BY <1>1, <1>2, <1>3, <1>4, <1>5, <1>6, <1>7, <1>8, <1>9 DEF TickStep

LEMMA BackedOther ==
  ASSUME BackedInv, Later(task, task'),
         TickFindsDisabled \/ TickTimesOut \/ Restart \/ OperatorStep \/ ProxmoxStep
  PROVE  BackedParts(task', plan', copy')
<1> USE DEF proxmoxVars, locals
<1>0. /\ plan \in Plan /\ copy \in [Ticks -> Plan] /\ AppliedInv
      /\ plans \in Nat /\ NoPlan.id = 0
  BY LBAssumption DEF BackedInv, AppliedInv, TypeInv, TypeOK, NoPlan
<1>1. CASE \/ TickFindsDisabled \/ TickTimesOut \/ Restart \/ ComputeReads \/ CancelReads
           \/ PageLoads \/ Disable \/ Enable \/ ProxmoxStep
  <2>1. plan' = plan /\ \A t \in Ticks : copy'[t] \in {copy[t], NoPlan}
    BY <1>1 DEF TickFindsDisabled, TickTimesOut, Restart, ComputeReads, CancelReads,
       PageLoads, Disable, Enable, ProxmoxStep, TaskEnds, Drift
  <2> QED
    BY <2>1, BackedQuiet
<1>a. ASSUME UNCHANGED <<task, copy>>, plan'.id = plan.id,
             DOMAIN plan'.moves = DOMAIN plan.moves,
             \A i \in DOMAIN plan.moves :
               /\ plan'.moves[i].guest = plan.moves[i].guest
               /\ plan'.moves[i].dst = plan.moves[i].dst
               /\ plan'.moves[i] = plan.moves[i] \/ plan'.moves[i].st = "skipped"
      PROVE  BackedParts(task', plan', copy')
  <2>1. Backed(task, plan')
    BY <1>a DEF BackedInv, Backed, BackedMove
  <2>2. \A t \in Ticks : SameMoves(copy[t], plan')
    BY <1>a DEF BackedInv, SameMoves
  <2> QED
    BY <1>a, <2>1, <2>2 DEF BackedInv, BackedParts
<1>b. ASSUME UNCHANGED <<task, copy>>, plan' = NoPlan PROVE BackedParts(task', plan', copy')
  <2>1. \A t \in Ticks : SameMoves(copy[t], NoPlan)
    BY <1>0 DEF SameMoves
  <2> QED
    BY <1>b, <2>1, NoPlanBacked DEF BackedInv, BackedParts
<1>2. CASE ComputeSaves
  <2>1. CASE plan' = NoPlan
    BY <1>2, <1>b, <2>1 DEF ComputeSaves
  <2>2. CASE \E ms \in PlanMoves :
               plan' = [id |-> plans + 1, status |-> "draft", moves |-> ms]
    <3>1. PICK ms \in PlanMoves : plan' = [id |-> plans + 1, status |-> "draft", moves |-> ms]
      BY <2>2
    <3>2. \A i \in DOMAIN ms : ms[i].st = "queued"
      BY DEF PlanMoves
    <3>3. Backed(task, plan')
      BY <3>1, <3>2 DEF Backed, BackedMove
    <3>4. \A t \in Ticks : copy[t].id # plans + 1
      BY <1>0 DEF AppliedInv, HeldApplied, PlanNumbered
    <3>5. \A t \in Ticks : SameMoves(copy[t], plan')
      BY <3>1, <3>4 DEF SameMoves
    <3> QED
      BY <1>2, <3>3, <3>5 DEF ComputeSaves, BackedInv, BackedParts
  <2> QED
    BY <1>2, <2>1, <2>2 DEF ComputeSaves
<1>3. CASE Apply
  <2>1. plan'.id = plan.id /\ plan'.moves = plan.moves
    BY <1>0, <1>3 DEF Apply, Plan
  <2> QED
    BY <1>3, <1>a, <2>1 DEF Apply
<1>4. CASE CancelWrites
  <2>1. CASE plan' = Dropped(plan)
    <3>1. /\ plan'.id = plan.id
          /\ plan'.moves = [i \in DOMAIN plan.moves |->
                              IF plan.moves[i].st = "queued"
                                THEN [plan.moves[i] EXCEPT !.st = "skipped"]
                                ELSE plan.moves[i]]
      BY <1>0, <2>1 DEF Dropped, Plan
    <3>2. \A i \in DOMAIN plan.moves : plan.moves[i] \in Move
      BY <1>0, MovesDomain DEF Plan
    <3>3. \A i \in DOMAIN plan.moves :
            /\ plan'.moves[i].guest = plan.moves[i].guest
            /\ plan'.moves[i].dst = plan.moves[i].dst
            /\ plan'.moves[i] = plan.moves[i] \/ plan'.moves[i].st = "skipped"
      BY <3>1, <3>2 DEF Move
    <3> QED
      BY <1>4, <1>a, <3>1, <3>3 DEF CancelWrites
  <2>2. CASE plan' = plan
    BY <1>0, <1>4, <2>2, BackedQuiet DEF CancelWrites
  <2>3. CASE plan' = NoPlan
    BY <1>4, <1>b, <2>3 DEF CancelWrites
  <2> QED
    BY <1>4, <2>1, <2>2, <2>3 DEF CancelWrites
<1> QED
  BY <1>1, <1>2, <1>3, <1>4 DEF OperatorStep

LEMMA BackedInit == Init => BackedInv
<1> SUFFICES ASSUME Init PROVE BackedInv
  OBVIOUS
<1>1. plan = NoPlan /\ \A t \in Ticks : copy[t] = NoPlan
  BY DEF Init
<1>2. Backed(task, plan)
  BY <1>1, NoPlanBacked
<1>3. \A t \in Ticks : Backed(task, copy[t]) /\ SameMoves(copy[t], plan)
  BY <1>1, NoPlanBacked
<1> QED
  BY <1>2, <1>3, AppliedInit DEF BackedInv

LEMMA BackedNext == BackedInv /\ [Next]_vars => BackedInv'
<1> SUFFICES ASSUME BackedInv, [Next]_vars PROVE BackedInv'
  OBVIOUS
<1>1. AppliedInv'
  BY AppliedNext DEF BackedInv
<1>2. Later(task, task')
  BY LaterNext DEF BackedInv, AppliedInv, TypeInv
<1>3. BackedParts(task', plan', copy')
  <2>1. CASE UNCHANGED vars
    BY <1>2, <2>1, BackedQuiet DEF vars
  <2> QED
    BY <1>2, <2>1, BackedTick, BackedOther DEF Next
<1> QED
  BY <1>1, <1>3 DEF BackedInv, BackedParts

(* A migrating move of the stored plan names a task that was started for it, and a done
   move had a task that ended well, whatever is lost, late or overlapping. *)
THEOREM MovesBacked == Spec => []MovesHaveTasks
<1>1. BackedInv => MovesHaveTasks
  BY DEF BackedInv, Backed, BackedMove, MovesHaveTasks
<1>2. Spec => []BackedInv
  BY BackedInit, BackedNext, PTL DEF Spec
<1> QED
  BY <1>1, <1>2, PTL
=============================================================================
