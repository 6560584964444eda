--------------------------- MODULE MCBackupEngine ---------------------------
(* Instances of BackupEngine for TLC. *)
EXTENDS BackupEngine

(* The scheduler's policies have every guest in scope, the site's one of them; or a
   policy's tags fit no guest. *)
AllOneOrNone ==
  [p \in Policies |-> {IF p \in EnvPolicies THEN Guests ELSE {CHOOSE g \in Guests : TRUE}, {}}]
AllGuests == [p \in Policies |-> {Guests}]
=============================================================================
