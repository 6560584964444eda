----------------------------- MODULE Placement -----------------------------
(***************************************************************************)
(* What the load balancer decides on its own in one site: drains of nodes  *)
(* in maintenance, moves off overloaded nodes, moves off nodes that a      *)
(* forecast says will be overloaded.  One evaluation works on the list of  *)
(* guests its tick has read, which is older than the evaluation and does   *)
(* not show migrations in flight, and on memory of earlier evaluations:    *)
(* the hysteresis count and the cooldown of each node.                     *)
(*                                                                         *)
(* Module LoadBalancer leaves these decisions open; this one makes them,   *)
(* and leaves open what a score is: above the threshold or not, with room  *)
(* for a guest or not.  The evaluation has no await: nothing else happens  *)
(* between its first step and its last.  A tick is the unit of time.       *)
(***************************************************************************)
EXTENDS Naturals, FiniteSets

CONSTANTS
  Guests, Nodes,
  NoNode,
  Anti, Affine,    \* the groups of the anti-affinity and of the affinity tags
  Rank,            \* the guests by memory, the largest first
  Manual,          \* guests tagged plb_manual, and containers outside their windows
  Exempt,          \* pinned, ignored or excluded guests
  Stuck,           \* guests that Proxmox refuses to migrate
  MaxConcurrent,   \* settings.maxConcurrentMigrations
  Polls,           \* settings.migrationConsecutivePolls
  Cooldown,        \* settings.migrationCooldownSeconds, in ticks
  Spacing,         \* DRAIN_SPACING_SECONDS, in ticks
  Threshold,       \* settings.migrationThresholdPercent
  Serviced,        \* nodes that are put into maintenance: a bound
  Crowded,         \* nodes whose room changes: a bound
  Faults,          \* the kinds of disturbance this instance allows
  MaxFaults        \* how many of them happen over a behaviour: a bound

ASSUME PlacementAssumption ==
  /\ IsFiniteSet(Guests) /\ IsFiniteSet(Nodes) /\ NoNode \notin Nodes
  /\ Anti \subseteq SUBSET Guests /\ Affine \subseteq SUBSET Guests
  /\ Rank \in [Guests -> Nat]
  /\ Manual \cup Exempt \cup Stuck \subseteq Guests
  /\ Serviced \cup Crowded \subseteq Nodes
  /\ {MaxConcurrent, Polls, Cooldown, Spacing} \subseteq Nat \ {0}
  /\ Threshold \in Nat /\ MaxFaults \in Nat

FaultKind ==
  {"maintenance", \* the operator puts a node into maintenance or takes it out
   "auto",        \* the operator switches automatic migration on or off
   "full",        \* a node loses its room for guests, or gains it
   "forecast",    \* a node that is not overloaded is forecast to be
   "silent",      \* a node does not report its metrics to a tick
   "fails",       \* a migration task ends with an error
   "restart"}     \* the process dies and starts again

VARIABLES
  \* Proxmox
  loc, flight,  \* where each guest is, and where it is migrating to
  full,         \* nodes that validateTargetCapacity finds no room on
  \* settings
  maint, auto,
  \* memory of the process
  known,        \* pendingMigrations: guests in flight that this SiteState knows of
  hs,           \* hysteresisStates: consecutiveBreaches, up to Polls
  cool,         \* migrationCooldowns: ticks left
  seen, cached, \* the list of guests, and whether the GET cache may answer it again
  \* locals of the tick
  pc,
  scored, hot,  \* nodes with a score, and those above the threshold
  todo,         \* nodes the current loop has not visited
  decisions,
  \* bookkeeping of the model
  rest,         \* ticks each node should rest for after the last migration off it
  faults

proxmox == <<loc, flight, full>>
settings == <<maint, auto>>
memory == <<known, hs, cool>>
locals == <<pc, scored, hot, todo, decisions>>
vars == <<loc, flight, full, maint, auto, known, hs, cool, seen, cached, pc, scored, hot, todo,
          decisions, rest, faults>>

Disturb(f) == f \in Faults /\ faults < MaxFaults /\ faults' = faults + 1

(* What is left of a cooldown, whichever loop set it. *)
Left == 0..Cooldown \cup 0..Spacing

Decision == [guest : Guests, src : Nodes, dst : Nodes, cause : {"drain", "overload"}]

TypeOK ==
  /\ loc \in [Guests -> Nodes] /\ flight \in [Guests -> Nodes \cup {NoNode}]
  /\ full \subseteq Nodes /\ maint \subseteq Nodes /\ auto \in BOOLEAN
  /\ known \subseteq Guests /\ hs \in [Nodes -> 0..Polls]
  /\ cool \in [Nodes -> Left]
  /\ seen \in [Guests -> Nodes] /\ cached \in BOOLEAN
  /\ pc \in {"idle", "listed", "drain", "balance", "fire"}
  /\ scored \subseteq Nodes /\ hot \subseteq scored /\ todo \subseteq Nodes
  /\ decisions \subseteq Decision
  /\ rest \in [Nodes -> Left]
  /\ faults \in 0..MaxFaults

Together(groups, g, h) == g # h /\ \E G \in groups : {g, h} \subseteq G

Init ==
  /\ loc \in [Guests -> Nodes]
  /\ \A g, h \in Guests : Together(Anti, g, h) => loc[g] # loc[h]
  /\ flight = [g \in Guests |-> NoNode]
  /\ full = {} /\ maint = {} /\ auto \in BOOLEAN
  /\ known = {} /\ hs = [n \in Nodes |-> 0] /\ cool = [n \in Nodes |-> 0]
  /\ seen = loc /\ cached = FALSE
  /\ pc = "idle" /\ scored = {} /\ hot = {} /\ todo = {} /\ decisions = {}
  /\ rest = [n \in Nodes |-> 0] /\ faults = 0

-----------------------------------------------------------------------------
(* Proxmox and the operator *)

Evaluating == pc \in {"drain", "balance"}
InFlight == {g \in Guests : flight[g] # NoNode}
Toggle(S, n) == (S \ {n}) \cup ({n} \ S)

Land(g) ==
  /\ ~Evaluating /\ g \in InFlight
  /\ \/ loc' = [loc EXCEPT ![g] = flight[g]] /\ UNCHANGED faults
     \/ Disturb("fails") /\ UNCHANGED loc
  /\ flight' = [flight EXCEPT ![g] = NoNode] /\ known' = known \ {g}
  /\ UNCHANGED <<full, settings, hs, cool, seen, cached, locals, rest>>

Fills(n) ==
  /\ ~Evaluating /\ Disturb("full")
  /\ full' = Toggle(full, n)
  /\ UNCHANGED <<loc, flight, settings, memory, seen, cached, locals, rest>>

Settings ==
  /\ ~Evaluating
  /\ \/ Disturb("maintenance") /\ (\E n \in Serviced : maint' = Toggle(maint, n)) /\ UNCHANGED auto
     \/ Disturb("auto") /\ auto' = ~auto /\ UNCHANGED maint
  /\ UNCHANGED <<proxmox, memory, seen, cached, locals, rest>>

(* A restart, or the balancer switched off and on: the SiteState is a new one. *)
Restart ==
  /\ ~Evaluating /\ Disturb("restart")
  /\ known' = {} /\ hs' = [n \in Nodes |-> 0] /\ cool' = [n \in Nodes |-> 0]
  /\ cached' = FALSE
  /\ pc' = "idle" /\ scored' = {} /\ hot' = {} /\ todo' = {} /\ decisions' = {}
  /\ rest' = [n \in Nodes |-> 0]
  /\ UNCHANGED <<proxmox, settings, seen>>

-----------------------------------------------------------------------------
(* A tick up to the evaluation *)

Less_Endless(f) == [n \in Nodes |-> f[n] - 1]
Less(f) == [n \in Nodes |-> IF f[n] > 0 THEN f[n] - 1 ELSE 0]

(* The next tick: getDeploymentIndex answers from Proxmox, or once more from the GET
   cache, whose TTL is as long as the tick interval. *)
List ==
  /\ pc = "idle"
  /\ \/ seen' = loc /\ cached' = TRUE
     \/ cached /\ UNCHANGED seen /\ cached' = FALSE
  /\ cool' = Less(cool) /\ rest' = Less(rest)
  /\ pc' = "listed"
  /\ UNCHANGED <<proxmox, settings, known, hs, scored, hot, todo, decisions, faults>>

Evaluate ==
  /\ pc = "listed"
  /\ IF auto \/ maint # {}
       THEN /\ pc' = "drain" /\ todo' = maint
            /\ \/ scored' = Nodes /\ UNCHANGED faults
               \/ Disturb("silent") /\ \E n \in Nodes : scored' = Nodes \ {n}
       ELSE pc' = "idle" /\ UNCHANGED <<todo, scored, faults>>
  /\ UNCHANGED <<proxmox, settings, memory, seen, cached, hot, decisions, rest>>

-----------------------------------------------------------------------------
(* Choosing a guest and a target *)

HasBudget_FlightsOnly == Cardinality(known) < MaxConcurrent
HasBudget == Cardinality(known) + Cardinality(decisions) < MaxConcurrent

(* baseExclusions: what this evaluation must not move a guest to. *)
Barred_OnlyMaintenance == maint
Barred == maint \cup {d.dst : d \in decisions}

AntiNodes(g) == {seen[h] : h \in {h \in Guests : Together(Anti, g, h)}}
PeerNodes(g) == {seen[h] : h \in {h \in Guests : Together(Affine, g, h)}}

(* findValidTarget: selectNodeP2C draws one of the candidates, and the guest stays
   where it is if that one has no room. *)
Drawn(candidates) ==
  (candidates \ full) \cup (IF candidates = {} \/ candidates \cap full # {} THEN {NoNode} ELSE {})

Candidates(g) == scored \ ({seen[g]} \cup Barred \cup AntiNodes(g))

(* Where a drain may send g.  A node with a peer of its affinity group, if it has room,
   comes before any draw. *)
DrainTargets(g) ==
  LET peers == PeerNodes(g) \ ({seen[g]} \cup Barred)
      good == (peers \cap scored) \ full
  IN good \cup (IF peers = {} \/ peers # good THEN Drawn(Candidates(g)) ELSE {})

Drainable_NotManual(n) == {g \in Guests \ (Exempt \cup Manual) : seen[g] = n}
Drainable(n) == {g \in Guests \ Exempt : seen[g] = n}

(* The largest guest that has a target. *)
DrainChoices(n) ==
  {m \in [guest : Drainable(n), dst : Nodes] :
     /\ m.dst \in DrainTargets(m.guest)
     /\ \A h \in Drainable(n) : Rank[h] < Rank[m.guest] => NoNode \in DrainTargets(h)}

(* isAutoMovable *)
AutoMovable(n) ==
  {g \in Guests \ (Exempt \cup Manual) :
     seen[g] = n /\ \A h \in Guests : Together(Affine, g, h) => seen[h] # n}

(* A target of an automatic move scores below the average. *)
AutoChoices(n) ==
  {m \in [guest : AutoMovable(n), dst : Nodes] : m.dst \in Candidates(m.guest) \ (hot \cup full)}

(* Decide on move m off node n; its cooldown starts now. *)
Decided(n, m, cause) ==
  /\ decisions' = decisions \cup {[guest |-> m.guest, src |-> n, dst |-> m.dst, cause |-> cause]}

Ready_Always(n) == HasBudget
Ready(n) == HasBudget /\ cool[n] = 0

-----------------------------------------------------------------------------
(* The three loops of evaluateMigrationDecisions *)

(* The loops go through the nodes in the order that the settings or Proxmox list them
   in, which is any. *)
DrainNode(n) ==
  /\ pc = "drain" /\ n \in todo
  /\ todo' = todo \ {n}
  /\ \/ /\ Ready(n)
        /\ \E m \in DrainChoices(n) : Decided(n, m, "drain")
        /\ cool' = [cool EXCEPT ![n] = Spacing]
     \/ /\ ~Ready(n) \/ \A g \in Drainable(n) : NoNode \in DrainTargets(g)
        /\ UNCHANGED <<decisions, cool>>
  /\ UNCHANGED <<proxmox, settings, known, hs, seen, cached, pc, scored, hot, rest, faults>>

(* Each of the hot nodes scores more than the average by the threshold, and no score is
   negative: that bounds how many of them there can be. *)
MayBeHot(H, S) == Cardinality(H) * (100 + Threshold) < 100 * Cardinality(S)

(* The judgement of the nodes that have a score and are not in maintenance; a node
   without a score loses its count, one in maintenance keeps it. *)
Breaches(n, H) == IF n \notin H THEN 0 ELSE IF hs[n] < Polls THEN hs[n] + 1 ELSE Polls
Judged(H) ==
  [n \in Nodes |-> IF n \notin scored THEN 0 ELSE IF n \in maint THEN hs[n] ELSE Breaches(n, H)]

AfterDecisions(D) == IF D = {} THEN "idle" ELSE "fire"

(* The end of the locals of a tick that has nothing left to do. *)
Over(D) ==
  /\ pc' = AfterDecisions(D)
  /\ scored' = {} /\ hot' = {}

(* Automatic moves, if they are on and there are nodes to compare. *)
Balance ==
  /\ pc = "drain" /\ todo = {}
  /\ auto /\ Cardinality(scored) >= 2
  /\ \E H \in SUBSET scored :
       /\ MayBeHot(H, scored)
       /\ hot' = H /\ hs' = Judged(H)
       /\ todo' = {n \in H \ maint : hs'[n] = Polls}
  /\ pc' = "balance"
  /\ UNCHANGED <<proxmox, settings, known, cool, seen, cached, scored, decisions, rest, faults>>

NoBalance ==
  /\ pc = "drain" /\ todo = {}
  /\ ~auto \/ Cardinality(scored) < 2
  /\ Over(decisions)
  /\ UNCHANGED <<proxmox, settings, memory, seen, cached, todo, decisions, rest, faults>>

(* An overload decision starts the count again; without a target the count stays. *)
OverloadNode(n) ==
  /\ pc = "balance" /\ n \in todo
  /\ todo' = todo \ {n}
  /\ \/ /\ Ready(n)
        /\ \E m \in AutoChoices(n) : Decided(n, m, "overload")
        /\ cool' = [cool EXCEPT ![n] = Cooldown]
        /\ hs' = [hs EXCEPT ![n] = 0]
     \/ UNCHANGED <<decisions, cool, hs>>
  /\ UNCHANGED <<proxmox, settings, known, seen, cached, pc, scored, hot, rest, faults>>

(* Then a node that is forecast to cross the threshold, and has decided nothing. *)
Predictable == scored \ (maint \cup hot \cup {d.src : d \in decisions})

PredictNode(n) ==
  /\ pc = "balance" /\ todo = {} /\ n \in Predictable
  /\ Disturb("forecast") /\ Ready(n)
  /\ \E m \in AutoChoices(n) : Decided(n, m, "overload")
  /\ cool' = [cool EXCEPT ![n] = Cooldown]
  /\ UNCHANGED <<proxmox, settings, known, hs, seen, cached, pc, scored, hot, todo, rest>>

BalanceOver ==
  /\ pc = "balance" /\ todo = {}
  /\ Over(decisions)
  /\ UNCHANGED <<proxmox, settings, memory, seen, cached, todo, decisions, rest, faults>>

-----------------------------------------------------------------------------
(* The loop over the decisions in tickSite: Proxmox starts the migration, or refuses it
   because the guest is elsewhere or on its way by now, or cannot be migrated. *)
Fire(d) ==
  /\ pc = "fire" /\ d \in decisions
  /\ decisions' = decisions \ {d}
  /\ IF loc[d.guest] = d.src /\ d.guest \notin InFlight \cup Stuck
       THEN /\ flight' = [flight EXCEPT ![d.guest] = d.dst] /\ known' = known \cup {d.guest}
            /\ rest' = [rest EXCEPT ![d.src] = IF d.cause = "drain" THEN Spacing ELSE Cooldown]
       ELSE UNCHANGED <<flight, known, rest>>
  /\ pc' = AfterDecisions(decisions \ {d})
  /\ UNCHANGED <<loc, full, settings, hs, cool, seen, cached, scored, hot, todo, faults>>

-----------------------------------------------------------------------------
Tick ==
  \/ List \/ Evaluate \/ Balance \/ NoBalance \/ BalanceOver
  \/ \E n \in Nodes : DrainNode(n) \/ OverloadNode(n) \/ PredictNode(n)
  \/ \E d \in decisions : Fire(d)

Next ==
  \/ Tick
  \/ \E g \in Guests : Land(g)
  \/ \E n \in Crowded : Fills(n)
  \/ Settings \/ Restart

(* The interval timer keeps calling tick, and a migration that began comes to its end. *)
Spec == Init /\ [][Next]_vars /\ WF_vars(Tick) /\ \A g \in Guests : []<>(g \notin InFlight)

-----------------------------------------------------------------------------
(* What module LoadBalancer assumes of the decisions it leaves open: together with the
   migrations in flight they keep to the limit, one off a node, and no two to one node. *)
DecisionsBounded ==
  /\ Cardinality(known) + Cardinality(decisions) <= MaxConcurrent
  /\ \A d, e \in decisions : d.src = e.src \/ d.dst = e.dst \/ d.guest = e.guest => d = e

(* A decision does not bring two members of an anti-affinity group together, not with
   another decision of the same tick either; as long as the list tells where the other
   members are, which are not in flight, and the guest has no affinity tag, which a
   drain follows first.  findValidTarget and baseExclusions. *)
Known(g) ==
  \A h \in Guests : Together(Anti, g, h) => h \notin InFlight /\ loc[h] = seen[h]
AntiAffinityKept ==
  [][\A d \in decisions' \ decisions, h \in Guests :
       /\ Together(Anti, d.guest, h) /\ Known(d.guest)
       /\ d.cause = "drain" => \A f \in Guests : ~Together(Affine, d.guest, f)
       => /\ d.dst # loc[h]
          /\ \A e \in decisions : e.guest = h => e.dst # d.dst]_vars

(* A node that sent a guest away rests before it sends the next: the cooldown after an
   automatic move, the spacing after a drain, whatever the two loops, settings and lists
   in between did.  Only the loss of the SiteState ends the rest early (Restart). *)
Paced ==
  [][\A g \in Guests : flight[g] = NoNode /\ flight'[g] # NoNode => rest[loc[g]] = 0]_vars

(* A drain gets a guest off the node and keeps it off: if the node stays in maintenance,
   the guest may be moved, every node it could be sent to has room, and no node being
   drained has a guest that Proxmox refuses to migrate. *)
CanLeave(g, n) ==
  LET others == Nodes \ (maint \cup {n} \cup {loc[h] : h \in {h \in Guests : Together(Anti, g, h)}})
  IN /\ n \in maint /\ g \notin Exempt
     /\ others # {} /\ full = {}
     /\ \A s \in Stuck : loc[s] \notin maint
DrainEnds ==
  \A g \in Guests, n \in Serviced : <>[]CanLeave(g, n) => <>[](loc[g] # n)
=============================================================================
