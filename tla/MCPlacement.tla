---------------------------- MODULE MCPlacement ----------------------------
(***************************************************************************)
(* An instance of Placement for TLC: three nodes and three guests, two of  *)
(* them to be kept apart and two to be kept together.                      *)
(***************************************************************************)
EXTENDS Placement, TLC

CONSTANTS g1, g2, g3

MCRank == g3 :> 1 @@ g1 :> 2 @@ g2 :> 3
=============================================================================
