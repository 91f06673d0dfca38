------------------------------ MODULE Delivery ------------------------------
(***************************************************************************)
(* What a send promises its caller, without rails, nonces and endpoints:   *)
(* its calls run as a whole, or revert, at most once, and the receipt says *)
(* confirmed or failed after that and never takes it back.  A send that    *)
(* throws has promised nothing: its calls may still run.                   *)
(***************************************************************************)
CONSTANT Sends

VARIABLES outcome, report

Init ==
  /\ outcome = [s \in Sends |-> "open"]
  /\ report = [s \in Sends |-> "none"]

HandOff(s) ==
  /\ report[s] = "none"
  /\ report' = [report EXCEPT ![s] = "handed off"]
  /\ UNCHANGED outcome

(* One transaction may stand for several sends of the same bytes. *)
Settle ==
  /\ outcome' \in [Sends -> {"open", "executed", "reverted"}]
  /\ \A s \in Sends : outcome'[s] # outcome[s] => outcome[s] = "open"
  /\ UNCHANGED report

Tell(s) ==
  /\ report[s] = "handed off" /\ outcome[s] # "open"
  /\ report' = [report EXCEPT ![s] = IF outcome[s] = "executed" THEN "confirmed" ELSE "failed"]
  /\ UNCHANGED outcome

Next ==
  \/ \E s \in Sends : HandOff(s) \/ Tell(s)
  \/ Settle

Spec == Init /\ [][Next]_<<outcome, report>>
=============================================================================
