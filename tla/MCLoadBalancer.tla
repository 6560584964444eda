--------------------------- MODULE MCLoadBalancer ---------------------------
(* Instances of LoadBalancer for TLC. *)
EXTENDS LoadBalancerRefinement, TLC

(* Guests, nodes, UPIDs and ticks are interchangeable. *)
Symmetry == Permutations(Guests) \cup Permutations(Nodes) \cup Permutations(Tasks)
              \cup Permutations(Ticks)
=============================================================================
