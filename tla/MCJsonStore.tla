---------------------------- MODULE MCJsonStore ----------------------------
(* Instances of JsonStore for TLC. *)
EXTENDS JsonStore

AllKinds == {"direct", "cached", "closed"}
CachedOnly == {"cached"}
=============================================================================
