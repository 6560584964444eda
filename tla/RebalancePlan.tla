--------------------------- MODULE RebalancePlan ---------------------------
(***************************************************************************)
(* What a rebalance plan promises the operator, without ticks, copies or   *)
(* files: each queued move is carried out at most once or given up, its    *)
(* outcome is reported after the migration ended and as it ended, and the  *)
(* plan is completed when every move has its outcome.                      *)
(***************************************************************************)
EXTENDS Naturals, Sequences

CONSTANT Guests

VARIABLES
  status,  \* of the plan: "none", "draft", "active", "completed"
  guest,   \* the guest of each move
  report,  \* what the plan says of each move
  run      \* what became of each move: "no", "running", "ok" or "error"

vars == <<status, guest, report, run>>

Ended == {"done", "failed", "skipped"}

Init == status = "none" /\ guest = << >> /\ report = << >> /\ run = << >>

(* A new draft, or none, takes the place of a plan that is not running. *)
Replace ==
  /\ status # "active"
  /\ \/ status' = "none" /\ guest' = << >>
     \/ status' = "draft" /\ guest' \in Seq(Guests) \ {<< >>}
  /\ report' = [i \in DOMAIN guest' |-> "queued"]
  /\ run' = [i \in DOMAIN guest' |-> "no"]

Apply == status = "draft" /\ status' = "active" /\ UNCHANGED <<guest, report, run>>

(* Report of move i becomes s. *)
Say(i, s) == report' = [report EXCEPT ![i] = s] /\ UNCHANGED <<status, guest, run>>

(* Migration of move i becomes s. *)
Go(i, s) == run' = [run EXCEPT ![i] = s] /\ UNCHANGED <<status, guest, report>>

Start(i) == status = "active" /\ report[i] = "queued" /\ run[i] = "no" /\ Go(i, "running")
End(i) == run[i] = "running" /\ \E s \in {"ok", "error"} : Go(i, s)

GiveUp(i) ==
  /\ status = "active" /\ report[i] = "queued" /\ run[i] = "no"
  /\ \E s \in {"skipped", "failed"} : Say(i, s)
Announce(i) ==
  status = "active" /\ report[i] = "queued" /\ run[i] # "no" /\ Say(i, "migrating")
Conclude(i) ==
  /\ status = "active" /\ report[i] = "migrating"
  /\ \/ run[i] = "ok" /\ Say(i, "done")
     \/ run[i] = "error" /\ Say(i, "failed")

Complete ==
  /\ status = "active" /\ \A i \in DOMAIN report : report[i] \in Ended
  /\ status' = "completed" /\ UNCHANGED <<guest, report, run>>

Next ==
  \/ Replace \/ Apply \/ Complete
  \/ \E i \in DOMAIN guest : Start(i) \/ End(i) \/ GiveUp(i) \/ Announce(i) \/ Conclude(i)

Spec == Init /\ [][Next]_vars
=============================================================================
