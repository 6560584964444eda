---------------------------- MODULE MCCopilot ----------------------------
(***************************************************************************)
(* An instance of Copilot for TLC: one user with two tabs.                 *)
(***************************************************************************)
EXTENDS Copilot, TLC

(* Turns, approvals and cards are interchangeable. *)
Symmetry == Permutations(Turns) \cup Permutations(Cards)
=============================================================================
