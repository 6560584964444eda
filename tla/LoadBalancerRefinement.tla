----------------------- MODULE LoadBalancerRefinement -----------------------
(* The load balancer carries out a plan as RebalancePlan promises. *)
EXTENDS LoadBalancer, Sequences

(* The tasks Proxmox has run for move i of the stored plan. *)
TasksOf(i) == {k \in Tasks : task[k].st # "free" /\ task[k].plan = plan.id
                             /\ task[k].guest = plan.moves[i].guest}

(* What became of move i; RebalancePlan knows no move that ran twice. *)
RunOf(i) ==
  CASE TasksOf(i) = {} -> "no"
    [] Cardinality(TasksOf(i)) = 1 -> task[CHOOSE k \in TasksOf(i) : TRUE].st
    [] OTHER -> "twice"

Abstract == INSTANCE RebalancePlan WITH
  status <- plan.status,
  guest <- [i \in DOMAIN plan.moves |-> plan.moves[i].guest],
  report <- [i \in DOMAIN plan.moves |-> plan.moves[i].st],
  run <- [i \in DOMAIN plan.moves |-> RunOf(i)]

(* Through the ticks' own copies, their awaits and the operator's requests, the stored
   plan and the migrations run for it are a behaviour of RebalancePlan: no move runs
   twice, and none is reported before, or otherwise than, it ended. *)
PlanRefines == Abstract!Spec
=============================================================================
