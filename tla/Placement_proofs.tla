-------------------------- MODULE Placement_proofs --------------------------
(***************************************************************************)
(* What the balancer's own decisions keep to, for any guests, nodes,       *)
(* groups, limits and disturbances: the limit on migrations, one guest off *)
(* a node and one to a node per tick, anti-affinity as far as the list     *)
(* tells, and a node's rest between two migrations.                        *)
(***************************************************************************)
EXTENDS Placement, FiniteSetTheorems, TLAPS

-----------------------------------------------------------------------------
(* Types *)

LEMMA Bounds ==
  /\ MaxConcurrent \in Nat /\ Polls \in Nat /\ Cooldown \in Nat /\ Spacing \in Nat
  /\ MaxFaults \in Nat /\ NoNode \notin Nodes /\ Serviced \subseteq Nodes /\ Crowded \subseteq Nodes
BY PlacementAssumption

(* The Boolean variables apart from the rest of the type. *)
FlagsOK == auto \in BOOLEAN /\ cached \in BOOLEAN
StateOK ==
  /\ loc \in [Guests -> Nodes] /\ flight \in [Guests -> Nodes \cup {NoNode}]
  /\ full \subseteq Nodes /\ maint \subseteq Nodes
  /\ known \subseteq Guests /\ hs \in [Nodes -> 0..Polls]
  /\ cool \in [Nodes -> Left] /\ seen \in [Guests -> Nodes]
  /\ pc \in {"idle", "listed", "drain", "balance", "fire"}
  /\ scored \subseteq Nodes /\ hot \subseteq scored /\ todo \subseteq Nodes
  /\ decisions \subseteq Decision
  /\ rest \in [Nodes -> Left] /\ faults \in 0..MaxFaults

(* The comparison of scores is over when its loops are. *)
HotInLoop == pc # "balance" => hot = {}

LEMMA HotNext == HotInLoop /\ [Next]_vars => HotInLoop'
BY ZenonT(60)
DEF HotInLoop, Next, Tick, vars, Settings, Restart, List, Land, Fills, Evaluate, DrainNode, Balance,
    NoBalance, BalanceOver, OverloadNode, PredictNode, Fire, Over, locals, settings

LEMMA TypeParts == TypeOK <=> StateOK /\ FlagsOK
BY ZenonT(20) DEF TypeOK, StateOK, FlagsOK

LEMMA TypeInit == Init => TypeOK
<1> SUFFICES ASSUME Init PROVE TypeOK
  OBVIOUS
<1>1. FlagsOK
  BY Zenon DEF Init, FlagsOK
<1>2. StateOK
  <2>1. /\ loc \in [Guests -> Nodes] /\ seen = loc
        /\ flight = [g \in Guests |-> NoNode]
        /\ full = {} /\ maint = {} /\ known = {} /\ scored = {} /\ hot = {} /\ todo = {}
        /\ decisions = {} /\ pc = "idle" /\ faults = 0
        /\ hs = [n \in Nodes |-> 0] /\ cool = [n \in Nodes |-> 0] /\ rest = [n \in Nodes |-> 0]
    BY Zenon DEF Init
  <2> QED
    BY <2>1, Bounds DEF StateOK, Left
<1> QED
  BY <1>1, <1>2, TypeParts

LEMMA DrainDecides ==
  ASSUME NEW n, NEW m \in DrainChoices(n)
  PROVE  /\ m.guest \in Guests /\ seen[m.guest] = n
         /\ m.dst \in Nodes /\ m.dst \notin Barred
<1>1. /\ m.guest \in Drainable(n) /\ m.dst \in Nodes
      /\ m.dst \in DrainTargets(m.guest)
  BY DEF DrainChoices
<1>2. m.dst # NoNode
  BY <1>1, PlacementAssumption
<1> QED
  BY <1>1, <1>2 DEF Drainable, DrainTargets, Drawn, Candidates

LEMMA AutoDecides ==
  ASSUME NEW n, NEW m \in AutoChoices(n)
  PROVE  /\ m.guest \in Guests /\ seen[m.guest] = n
         /\ m.dst \in Nodes /\ m.dst \notin Barred \cup AntiNodes(m.guest)
BY DEF AutoChoices, AutoMovable, Candidates

LEMMA DecidedTyped ==
  ASSUME StateOK, NEW n \in Nodes, NEW m, NEW cause \in {"drain", "overload"},
         m.guest \in Guests, m.dst \in Nodes, Decided(n, m, cause)
  PROVE  decisions' \subseteq Decision
BY DEF StateOK, Decided, Decision

LEMMA FlagsNext == FlagsOK /\ [Next]_vars => FlagsOK'
<1> SUFFICES ASSUME FlagsOK, [Next]_vars PROVE FlagsOK'
  OBVIOUS
<1>1. ASSUME UNCHANGED <<auto, cached>> PROVE FlagsOK'
  BY <1>1 DEF FlagsOK
<1>2. CASE Settings \/ Restart \/ List
  BY <1>2, Zenon DEF Settings, Restart, List, FlagsOK, settings
<1>3. CASE ~(Settings \/ Restart \/ List)
  <2>1. UNCHANGED <<auto, cached>>
    BY <1>3, ZenonT(30)
    DEF Next, Tick, vars, Land, Fills, Evaluate, DrainNode, Balance, NoBalance, BalanceOver,
        OverloadNode, PredictNode, Fire, settings
  <2> QED
    BY <1>1, <2>1
<1> QED
  BY <1>2, <1>3

LEMMA StateNext == StateOK /\ HotInLoop /\ [Next]_vars => StateOK'
<1> SUFFICES ASSUME StateOK, HotInLoop, [Next]_vars PROVE StateOK'
  OBVIOUS
<1> USE Bounds DEF StateOK, Left
<1>1. ASSUME NEW g \in Guests, Land(g) PROVE StateOK'
  BY <1>1 DEF Land, InFlight, Disturb, settings, locals
<1>2. ASSUME NEW n \in Crowded, Fills(n) PROVE StateOK'
  BY <1>2 DEF Fills, Disturb, Toggle, settings, memory, locals
<1>3. CASE Settings
  BY <1>3 DEF Settings, Disturb, Toggle, proxmox, memory, locals
<1>4. CASE Restart
  BY <1>4 DEF Restart, Disturb, proxmox, settings
<1>5. CASE List
  BY <1>5 DEF List, Less, proxmox, settings
<1>6. CASE Evaluate
  <2>1. UNCHANGED <<loc, seen, flight, full, maint, known, hs, cool, hot, decisions, rest>>
    BY <1>6 DEF Evaluate, proxmox, settings, memory
  <2>2. /\ pc' \in {"idle", "drain"} /\ todo' \subseteq Nodes
        /\ hot \subseteq scored' /\ scored' \subseteq Nodes /\ faults' \in 0..MaxFaults
    BY <1>6 DEF Evaluate, Disturb, HotInLoop
  <2> QED
    BY <2>1, <2>2
<1>7. ASSUME NEW n \in Nodes, DrainNode(n) PROVE StateOK'
  <2>1. decisions' \subseteq Decision /\ cool' \in [Nodes -> Left]
    BY <1>7, DrainDecides, DecidedTyped DEF DrainNode
  <2> QED
    BY <1>7, <2>1 DEF DrainNode, proxmox, settings
<1>8. CASE Balance
  <2>1. PICK H \in SUBSET scored : hot' = H /\ hs' = Judged(H) /\ todo' = {n \in H \ maint : hs'[n] = Polls}
    BY <1>8 DEF Balance
  <2>2. hs' \in [Nodes -> 0..Polls]
    BY <2>1 DEF Judged, Breaches
  <2> QED
    BY <1>8, <2>1, <2>2 DEF Balance, proxmox, settings
<1>9. CASE NoBalance
  BY <1>9 DEF NoBalance, Over, AfterDecisions, proxmox, settings, memory
<1>10. CASE BalanceOver
  BY <1>10 DEF BalanceOver, Over, AfterDecisions, proxmox, settings, memory
<1>11. ASSUME NEW n \in Nodes, OverloadNode(n) PROVE StateOK'
  <2>1. decisions' \subseteq Decision /\ cool' \in [Nodes -> Left]
        /\ hs' \in [Nodes -> 0..Polls]
    BY <1>11, AutoDecides, DecidedTyped DEF OverloadNode
  <2> QED
    BY <1>11, <2>1 DEF OverloadNode, proxmox, settings
<1>12. ASSUME NEW n \in Nodes, PredictNode(n) PROVE StateOK'
  <2>1. decisions' \subseteq Decision /\ cool' \in [Nodes -> Left]
    BY <1>12, AutoDecides, DecidedTyped DEF PredictNode
  <2> QED
    BY <1>12, <2>1 DEF PredictNode, Disturb, proxmox, settings
<1>13. ASSUME NEW d \in decisions, Fire(d) PROVE StateOK'
  <2>1. d.guest \in Guests /\ d.src \in Nodes /\ d.dst \in Nodes
    BY DEF Decision
  <2>2. flight' \in [Guests -> Nodes \cup {NoNode}] /\ known' \subseteq Guests
        /\ rest' \in [Nodes -> Left]
    BY <1>13, <2>1 DEF Fire
  <2> QED
    BY <1>13, <2>2 DEF Fire, AfterDecisions, settings
<1>14. CASE UNCHANGED vars
  BY <1>14 DEF vars
<1> QED
  BY <1>1, <1>2, <1>3, <1>4, <1>5, <1>6, <1>7, <1>8, <1>9, <1>10, <1>11, <1>12, <1>13, <1>14
  DEF Next, Tick

TypeInv == TypeOK /\ HotInLoop

LEMMA TypeNext == TypeInv /\ [Next]_vars => TypeInv'
<1>1. TypeOK' <=> StateOK' /\ FlagsOK'
  BY TypeParts, PTL
<1> QED
  BY <1>1, TypeParts, FlagsNext, StateNext, HotNext DEF TypeInv

(* The state of the balancer has its type. *)
THEOREM TypeCorrect == Spec => []TypeOK
<1>1. Init => TypeInv
  BY TypeInit, Zenon DEF Init, TypeInv, HotInLoop
<1> QED
  BY <1>1, TypeNext, PTL DEF Spec, TypeInv

-----------------------------------------------------------------------------
(* The limit *)

(* The loops decide at most once for a node: what has been decided is off a node that
   the loop under way has visited, or that only the other loop visits. *)
Visited ==
  /\ pc = "drain" => todo \subseteq maint /\ \A d \in decisions : d.src \in maint \ todo
  /\ pc = "balance" => \A d \in decisions : d.src \notin todo

(* A guest is where the list of this tick says. *)
FromList == \A d \in decisions : seen[d.guest] = d.src

BoundInv ==
  /\ IsFiniteSet(known) /\ IsFiniteSet(decisions)
  /\ pc \in {"idle", "listed"} => decisions = {}
  /\ Visited /\ FromList
  /\ DecisionsBounded

LEMMA BoundInit == Init => BoundInv
<1> SUFFICES ASSUME Init PROVE BoundInv
  OBVIOUS
<1>1. known = {} /\ decisions = {} /\ pc = "idle"
  BY DEF Init
<1>2. IsFiniteSet({}) /\ Cardinality({}) = 0
  BY FS_EmptySet
<1> QED
  BY <1>1, <1>2, PlacementAssumption DEF BoundInv, Visited, FromList, DecisionsBounded

(* A decision within the budget, off a node not visited before. *)
LEMMA BoundDecided ==
  ASSUME TypeOK, BoundInv, NEW n \in Nodes, NEW m, NEW cause,
         HasBudget, m.dst \notin Barred, seen[m.guest] = n,
         \A d \in decisions : d.src # n,
         Decided(n, m, cause), UNCHANGED <<known, seen>>
  PROVE  /\ IsFiniteSet(known') /\ IsFiniteSet(decisions')
         /\ FromList' /\ DecisionsBounded'
<1> DEFINE new == [guest |-> m.guest, src |-> n, dst |-> m.dst, cause |-> cause]
<1>1. decisions' = decisions \cup {new}
  BY DEF Decided
<1>2. IsFiniteSet(decisions') /\ Cardinality(decisions') <= Cardinality(decisions) + 1
  <2>1. IsFiniteSet(decisions)
    BY DEF BoundInv
  <2>2. Cardinality(decisions') = IF new \in decisions THEN Cardinality(decisions)
                                                       ELSE Cardinality(decisions) + 1
    BY <1>1, <2>1, FS_AddElement
  <2> QED
    BY <1>1, <2>1, <2>2, FS_AddElement, FS_CardinalityType
<1>3. Cardinality(known') + Cardinality(decisions') <= MaxConcurrent
  <2>1. Cardinality(known) \in Nat /\ Cardinality(decisions) \in Nat
    BY FS_CardinalityType DEF BoundInv
  <2>2. Cardinality(decisions') \in Nat
    BY <1>2, FS_CardinalityType
  <2> QED
    BY <1>2, <2>1, <2>2, PlacementAssumption DEF HasBudget
<1>4. FromList'
  BY <1>1 DEF BoundInv, FromList
<1>5. \A d \in decisions : d.dst # new.dst /\ d.src # new.src /\ d.guest # new.guest
  BY DEF Barred, BoundInv, FromList
<1>6. DecisionsBounded'
  BY <1>1, <1>3, <1>5 DEF DecisionsBounded, BoundInv
<1> QED
  BY <1>2, <1>4, <1>6 DEF BoundInv

LEMMA BoundNext == TypeOK /\ BoundInv /\ [Next]_vars => BoundInv'
<1> SUFFICES ASSUME TypeOK, BoundInv, [Next]_vars PROVE BoundInv'
  OBVIOUS
<1> USE DEF BoundInv
<1>0. Cardinality(known) \in Nat /\ Cardinality(decisions) \in Nat /\ MaxConcurrent \in Nat
  BY FS_CardinalityType, Bounds
<1>1. ASSUME NEW g \in Guests, Land(g) PROVE BoundInv'
  <2>1. known' = known \ {g} /\ UNCHANGED locals /\ UNCHANGED settings /\ UNCHANGED seen
    BY <1>1 DEF Land
  <2>2. IsFiniteSet(known') /\ Cardinality(known') <= Cardinality(known)
        /\ Cardinality(known') \in Nat
    BY <2>1, FS_RemoveElement, FS_CardinalityType, FS_Subset
  <2>3. DecisionsBounded'
    BY <1>0, <2>1, <2>2 DEF DecisionsBounded, locals
  <2> QED
    BY <2>1, <2>2, <2>3 DEF Visited, FromList, locals, settings
<1>2. ASSUME NEW n \in Crowded, Fills(n) PROVE BoundInv'
  BY <1>2 DEF Fills, settings, memory, locals, Visited, FromList, DecisionsBounded
<1>3. CASE Settings
  BY <1>3 DEF Settings, Evaluating, memory, locals, Visited, FromList, DecisionsBounded
<1>4. CASE Restart
  <2>1. known' = {} /\ decisions' = {} /\ pc' = "idle"
    BY <1>4 DEF Restart
  <2>2. IsFiniteSet({}) /\ Cardinality({}) = 0
    BY FS_EmptySet
  <2> QED
    BY <2>1, <2>2, PlacementAssumption DEF Visited, FromList, DecisionsBounded
<1>5. CASE List
  BY <1>5 DEF List, settings, Visited, FromList, DecisionsBounded
<1>6. CASE Evaluate
  BY <1>6 DEF Evaluate, settings, memory, Visited, FromList, DecisionsBounded
<1>7. ASSUME NEW n \in Nodes, DrainNode(n) PROVE BoundInv'
  <2>1. pc = "drain" /\ pc' = "drain" /\ n \in todo /\ todo' = todo \ {n}
        /\ UNCHANGED <<known, seen, maint>>
    BY <1>7 DEF DrainNode, settings
  <2>2. \A d \in decisions : d.src # n
    BY <2>1 DEF Visited
  <2>3. CASE UNCHANGED decisions
    BY <2>1, <2>3 DEF Visited, FromList, DecisionsBounded
  <2>4. CASE Ready(n) /\ \E m \in DrainChoices(n) : Decided(n, m, "drain")
    <3>1. PICK m \in DrainChoices(n) : Decided(n, m, "drain")
      BY <2>4
    <3>2. /\ IsFiniteSet(known') /\ IsFiniteSet(decisions')
          /\ FromList' /\ DecisionsBounded'
      BY <2>1, <2>2, <2>4, <3>1, DrainDecides, BoundDecided DEF Ready
    <3>3. n \in maint
      BY <2>1 DEF Visited
    <3> QED
      BY <2>1, <3>1, <3>2, <3>3 DEF Visited, Decided
  <2> QED
    BY <1>7, <2>3, <2>4 DEF DrainNode
<1>8. CASE Balance
  <2>1. pc = "drain" /\ pc' = "balance" /\ todo' \cap maint = {} /\ UNCHANGED <<known, seen, decisions>>
    BY <1>8 DEF Balance
  <2> QED
    BY <2>1 DEF Visited, FromList, DecisionsBounded
<1>9. CASE NoBalance
  BY <1>9 DEF NoBalance, Over, AfterDecisions, settings, memory, Visited, FromList, DecisionsBounded
<1>10. CASE BalanceOver
  BY <1>10 DEF BalanceOver, Over, AfterDecisions, settings, memory, Visited, FromList, DecisionsBounded
<1>11. ASSUME NEW n \in Nodes, OverloadNode(n) PROVE BoundInv'
  <2>1. pc = "balance" /\ pc' = "balance" /\ n \in todo /\ todo' = todo \ {n}
        /\ UNCHANGED <<known, seen, maint>>
    BY <1>11 DEF OverloadNode, settings
  <2>2. \A d \in decisions : d.src # n
    BY <2>1 DEF Visited
  <2>3. CASE UNCHANGED decisions
    BY <2>1, <2>3 DEF Visited, FromList, DecisionsBounded
  <2>4. CASE Ready(n) /\ \E m \in AutoChoices(n) : Decided(n, m, "overload")
    <3>1. PICK m \in AutoChoices(n) : Decided(n, m, "overload")
      BY <2>4
    <3>2. /\ IsFiniteSet(known') /\ IsFiniteSet(decisions')
          /\ FromList' /\ DecisionsBounded'
      BY <2>1, <2>2, <2>4, <3>1, AutoDecides, BoundDecided DEF Ready
    <3> QED
      BY <2>1, <3>1, <3>2 DEF Visited, Decided
  <2> QED
    BY <1>11, <2>3, <2>4 DEF OverloadNode
<1>12. ASSUME NEW n \in Nodes, PredictNode(n) PROVE BoundInv'
  <2>1. pc = "balance" /\ pc' = "balance" /\ todo' = {} /\ UNCHANGED <<known, seen, maint>>
    BY <1>12 DEF PredictNode, settings
  <2>2. \A d \in decisions : d.src # n
    BY <1>12 DEF PredictNode, Predictable
  <2>3. PICK m \in AutoChoices(n) : Decided(n, m, "overload")
    BY <1>12 DEF PredictNode
  <2>4. /\ IsFiniteSet(known') /\ IsFiniteSet(decisions')
        /\ FromList' /\ DecisionsBounded'
    BY <1>12, <2>1, <2>2, <2>3, AutoDecides, BoundDecided DEF PredictNode, Ready
  <2> QED
    BY <2>1, <2>4 DEF Visited
<1>13. ASSUME NEW d \in decisions, Fire(d) PROVE BoundInv'
  <2>1. decisions' = decisions \ {d} /\ pc = "fire" /\ UNCHANGED <<seen, maint>>
        /\ pc' = AfterDecisions(decisions')
    BY <1>13 DEF Fire, settings
  <2>2. IsFiniteSet(decisions') /\ Cardinality(decisions') = Cardinality(decisions) - 1
        /\ Cardinality(decisions') \in Nat
    BY <2>1, FS_RemoveElement, FS_CardinalityType
  <2>3. known' \in {known, known \cup {d.guest}}
    BY <1>13 DEF Fire
  <2>4. IsFiniteSet(known') /\ Cardinality(known') <= Cardinality(known) + 1
        /\ Cardinality(known') \in Nat
    <3>1. IsFiniteSet(known \cup {d.guest})
          /\ Cardinality(known \cup {d.guest}) \in {Cardinality(known), Cardinality(known) + 1}
      BY FS_AddElement
    <3>2. CASE known' = known
      BY <1>0, <3>2
    <3>3. CASE known' = known \cup {d.guest}
      BY <1>0, <3>1, <3>3
    <3> QED
      BY <2>3, <3>2, <3>3
  <2>5. DecisionsBounded'
    BY <1>0, <2>1, <2>2, <2>4 DEF DecisionsBounded
  <2> QED
    BY <2>1, <2>2, <2>4, <2>5 DEF AfterDecisions, Visited, FromList
<1>14. CASE UNCHANGED vars
  BY <1>14 DEF vars, Visited, FromList, DecisionsBounded
<1> QED
  BY <1>1, <1>2, <1>3, <1>4, <1>5, <1>6, <1>7, <1>8, <1>9, <1>10, <1>11, <1>12, <1>13, <1>14
  DEF Next, Tick

(* However settings, lists and the three loops follow each other, the decisions of a
   tick and the migrations it knows keep to the limit, and no two of the decisions
   share a guest, a source or a target. *)
THEOREM DecisionsKeepBounds == Spec => []DecisionsBounded
<1>1. BoundInv => DecisionsBounded
  BY DEF BoundInv
<1> QED
  BY <1>1, TypeCorrect, BoundInit, BoundNext, PTL DEF Spec
-----------------------------------------------------------------------------
(* Rest *)

Pause(d) == IF d.cause = "drain" THEN Spacing ELSE Cooldown

(* The cooldown of a node lasts at least as long as its rest, and a node with a decision
   has rested and has its cooldown set for it. *)
RestInv ==
  /\ \A n \in Nodes : rest[n] <= cool[n]
  /\ \A d \in decisions : rest[d.src] = 0 /\ Pause(d) <= cool[d.src]

LEMMA RestDecided ==
  ASSUME TypeOK, RestInv, NEW n \in Nodes, NEW m, NEW cause \in {"drain", "overload"},
         Ready(n), \A d \in decisions : d.src # n,
         Decided(n, m, cause), UNCHANGED rest,
         cool' = [cool EXCEPT ![n] = IF cause = "drain" THEN Spacing ELSE Cooldown]
  PROVE  RestInv'
<1> DEFINE new == [guest |-> m.guest, src |-> n, dst |-> m.dst, cause |-> cause]
<1>1. decisions' = decisions \cup {new} /\ new.src = n /\ new.cause = cause
  BY DEF Decided
<1>2. rest[n] = 0 /\ cool[n] = 0
  BY Bounds DEF Ready, RestInv, TypeOK, Left
<1>3. \A k \in Nodes : rest'[k] <= cool'[k]
  BY <1>2, Bounds DEF RestInv, TypeOK
<1>4. \A d \in decisions : rest'[d.src] = 0 /\ Pause(d) <= cool'[d.src]
  BY DEF RestInv, TypeOK, Decision
<1>5. rest'[n] = 0 /\ Pause(new) <= cool'[n]
  BY <1>1, <1>2, Bounds DEF Pause, TypeOK
<1> QED
  BY <1>1, <1>3, <1>4, <1>5 DEF RestInv, Pause

LEMMA RestNext == TypeOK /\ BoundInv /\ RestInv /\ [Next]_vars => RestInv'
<1> SUFFICES ASSUME TypeOK, BoundInv, RestInv, [Next]_vars PROVE RestInv'
  OBVIOUS
<1>0. ASSUME UNCHANGED <<rest, cool, decisions>> PROVE RestInv'
  BY <1>0 DEF RestInv, Pause
<1>1. ASSUME NEW g \in Guests, Land(g) PROVE RestInv'
  BY <1>0, <1>1 DEF Land, locals
<1>2. ASSUME NEW n \in Crowded, Fills(n) PROVE RestInv'
  BY <1>0, <1>2 DEF Fills, memory, locals
<1>3. CASE Settings
  BY <1>0, <1>3 DEF Settings, memory, locals
<1>4. CASE Restart
  BY <1>4 DEF Restart, RestInv
<1>5. CASE List
  <2>1. decisions = {} /\ UNCHANGED decisions /\ cool' = Less(cool) /\ rest' = Less(rest)
    BY <1>5 DEF List, BoundInv
  <2>2. \A n \in Nodes : cool[n] \in Nat /\ rest[n] \in Nat
    BY Bounds DEF TypeOK, Left
  <2> QED
    BY <2>1, <2>2 DEF RestInv, Less
<1>6. CASE Evaluate
  BY <1>0, <1>6 DEF Evaluate, memory
<1>7. ASSUME NEW n \in Nodes, DrainNode(n) PROVE RestInv'
  <2>1. n \in todo /\ UNCHANGED rest /\ \A d \in decisions : d.src # n
    BY <1>7 DEF DrainNode, BoundInv, Visited
  <2>2. CASE UNCHANGED <<decisions, cool>>
    BY <1>0, <2>1, <2>2
  <2>3. CASE Ready(n) /\ (\E m \in DrainChoices(n) : Decided(n, m, "drain"))
             /\ cool' = [cool EXCEPT ![n] = Spacing]
    BY <2>1, <2>3, RestDecided
  <2> QED
    BY <1>7, <2>2, <2>3 DEF DrainNode
<1>8. CASE Balance
  BY <1>0, <1>8 DEF Balance
<1>9. CASE NoBalance
  BY <1>0, <1>9 DEF NoBalance, memory
<1>10. CASE BalanceOver
  BY <1>0, <1>10 DEF BalanceOver, memory
<1>11. ASSUME NEW n \in Nodes, OverloadNode(n) PROVE RestInv'
  <2>1. n \in todo /\ UNCHANGED rest /\ \A d \in decisions : d.src # n
    BY <1>11 DEF OverloadNode, BoundInv, Visited
  <2>2. CASE UNCHANGED <<decisions, cool>>
    BY <1>0, <2>1, <2>2
  <2>3. CASE Ready(n) /\ (\E m \in AutoChoices(n) : Decided(n, m, "overload"))
             /\ cool' = [cool EXCEPT ![n] = Cooldown]
    BY <2>1, <2>3, RestDecided
  <2> QED
    BY <1>11, <2>2, <2>3 DEF OverloadNode
<1>12. ASSUME NEW n \in Nodes, PredictNode(n) PROVE RestInv'
  <2>1. UNCHANGED rest /\ \A d \in decisions : d.src # n
    BY <1>12 DEF PredictNode, Predictable
  <2> QED
    BY <1>12, <2>1, RestDecided DEF PredictNode
<1>13. ASSUME NEW d \in decisions, Fire(d) PROVE RestInv'
  <2>1. decisions' = decisions \ {d} /\ UNCHANGED cool /\ d.src \in Nodes
        /\ \A e \in decisions' : e.src # d.src
    BY <1>13 DEF Fire, BoundInv, DecisionsBounded, TypeOK, Decision
  <2>2. rest' = rest \/ rest' = [rest EXCEPT ![d.src] = Pause(d)]
    BY <1>13 DEF Fire, Pause
  <2> QED
    BY <2>1, <2>2 DEF RestInv, TypeOK, Decision, Pause
<1>14. CASE UNCHANGED vars
  BY <1>0, <1>14 DEF vars
<1> QED
  BY <1>1, <1>2, <1>3, <1>4, <1>5, <1>6, <1>7, <1>8, <1>9, <1>10, <1>11, <1>12, <1>13, <1>14
  DEF Next, Tick

(* Only Fire starts a migration. *)
LEMMA OnlyFireStarts ==
  ASSUME TypeOK, [Next]_vars, NEW g \in Guests, flight[g] = NoNode, flight'[g] # NoNode
  PROVE  \E d \in decisions : Fire(d) /\ d.guest = g /\ loc[g] = d.src
<1>1. PICK d \in decisions : Fire(d)
  <2>1. UNCHANGED flight \/ (\E h \in Guests : Land(h)) \/ (\E d \in decisions : Fire(d))
    BY DEF Next, Tick, vars, Fills, Settings, Restart, List, Evaluate, DrainNode, Balance,
           NoBalance, BalanceOver, OverloadNode, PredictNode, proxmox
  <2>2. ASSUME NEW h \in Guests, Land(h) PROVE FALSE
    BY <2>2 DEF Land, TypeOK
  <2> QED
    BY <2>1, <2>2
<1>2. loc[d.guest] = d.src /\ flight' = [flight EXCEPT ![d.guest] = d.dst]
  BY <1>1 DEF Fire
<1> QED
  BY <1>1, <1>2 DEF TypeOK

(* A node that sent a guest away rests before the next leaves it, for any cooldown,
   spacing, limit and order of the loops; only the loss of the SiteState ends it. *)
THEOREM NodesRest == Spec => Paced
<1>1. Init => RestInv
  <2> SUFFICES ASSUME Init PROVE RestInv
    OBVIOUS
  <2>1. decisions = {} /\ cool = [n \in Nodes |-> 0] /\ rest = [n \in Nodes |-> 0]
    BY Zenon DEF Init
  <2> QED
    BY <2>1 DEF RestInv
<1>2. TypeOK /\ RestInv /\ [Next]_vars =>
        [\A g \in Guests : flight[g] = NoNode /\ flight'[g] # NoNode => rest[loc[g]] = 0]_vars
  BY OnlyFireStarts DEF RestInv
<1> QED
  BY <1>1, <1>2, TypeCorrect, BoundInit, BoundNext, RestNext, PTL DEF Spec, Paced

-----------------------------------------------------------------------------
(* Anti-affinity *)

LEMMA DrainAvoids ==
  ASSUME NEW n, NEW m \in DrainChoices(n), \A f \in Guests : ~Together(Affine, m.guest, f)
  PROVE  m.dst \notin AntiNodes(m.guest)
<1>1. m.dst \in DrainTargets(m.guest) /\ m.dst # NoNode
  BY Bounds DEF DrainChoices
<1>2. PeerNodes(m.guest) = {}
  BY DEF PeerNodes
<1> QED
  BY <1>1, <1>2 DEF DrainTargets, Drawn, Candidates

(* What AntiAffinityKept says of one new decision. *)
Apart(d) ==
  \A h \in Guests : Together(Anti, d.guest, h) /\ Known(d.guest) =>
    d.dst # loc[h] /\ \A e \in decisions : e.guest = h => e.dst # d.dst

LEMMA ApartIfAvoids ==
  ASSUME NEW n, NEW m, NEW cause, NEW d, d \in decisions' \ decisions, Decided(n, m, cause),
         m.dst \notin Barred \cup AntiNodes(m.guest)
  PROVE  Apart(d)
<1>1. d.guest = m.guest /\ d.dst = m.dst
  BY DEF Decided
<1> QED
  BY <1>1 DEF Apart, Known, AntiNodes, Barred

(* As long as the list tells where the others are, no decision of the three loops brings
   members of an anti-affinity group together, for any groups, loads and limits. *)
THEOREM GroupsKeptApart == Spec => AntiAffinityKept
<1>1. ASSUME [Next]_vars, NEW d \in decisions' \ decisions,
             d.cause = "drain" => \A f \in Guests : ~Together(Affine, d.guest, f)
      PROVE  Apart(d)
  <2>1. PICK n \in Nodes : DrainNode(n) \/ OverloadNode(n) \/ PredictNode(n)
    BY <1>1 DEF Next, Tick, vars, Land, Fills, Settings, Restart, List, Evaluate, Balance,
                NoBalance, BalanceOver, Fire, locals
  <2>2. CASE DrainNode(n)
    <3>1. PICK m \in DrainChoices(n) : Decided(n, m, "drain")
      BY <1>1, <2>2 DEF DrainNode
    <3>2. d.guest = m.guest /\ d.cause = "drain"
      BY <1>1, <3>1 DEF Decided
    <3> QED
      BY <1>1, <3>1, <3>2, DrainDecides, DrainAvoids, ApartIfAvoids
  <2>3. CASE OverloadNode(n)
    <3>1. PICK m \in AutoChoices(n) : Decided(n, m, "overload")
      BY <1>1, <2>3 DEF OverloadNode
    <3> QED
      BY <1>1, <3>1, AutoDecides, ApartIfAvoids
  <2>4. CASE PredictNode(n)
    <3>1. PICK m \in AutoChoices(n) : Decided(n, m, "overload")
      BY <1>1, <2>4 DEF PredictNode
    <3> QED
      BY <1>1, <3>1, AutoDecides, ApartIfAvoids
  <2> QED
    BY <2>1, <2>2, <2>3, <2>4
<1>2. [Next]_vars =>
        [\A d \in decisions' \ decisions, h \in Guests :
           /\ Together(Anti, d.guest, h) /\ Known(d.guest)
           /\ d.cause = "drain" => \A f \in Guests : ~Together(Affine, d.guest, f)
           => /\ d.dst # loc[h]
              /\ \A e \in decisions : e.guest = h => e.dst # d.dst]_vars
  BY <1>1 DEF Apart
<1> QED
  BY <1>2, PTL DEF Spec, AntiAffinityKept
=============================================================================
