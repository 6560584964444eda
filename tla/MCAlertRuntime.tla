--------------------------- MODULE MCAlertRuntime ---------------------------
(* Instances of AlertRuntime for TLC. *)
EXTENDS AlertRuntime
=============================================================================
