----------------------------- MODULE ScanPromise -----------------------------
(***************************************************************************)
(* What the file scanning service promises of the extracted files, with no *)
(* scanner, message or clock in it: a request is decided at most once, a   *)
(* decision is final, it is one the preservation policy allows, and a file *)
(* is deleted only on a decision to drop it.                               *)
(***************************************************************************)
CONSTANTS Requests, Files, FileOf, Policy

VARIABLES
  verdict,   \* the decision on record for each request
  present    \* the files that exist

Init ==
  /\ verdict = [q \in Requests |-> "pending"]
  /\ present = Files

Allowed == CASE Policy = "all"  -> {"keep"}
             [] Policy = "none" -> {"drop"}
             [] OTHER           -> {"keep", "drop"}

Decide(q) ==
  /\ verdict[q] = "pending"
  /\ \E v \in Allowed : verdict' = [verdict EXCEPT ![q] = v]
  /\ UNCHANGED present

Delete(f) ==
  /\ \E q \in Requests : FileOf[q] = f /\ verdict[q] = "drop"
  /\ present' = present \ {f}
  /\ UNCHANGED verdict

Next == (\E q \in Requests : Decide(q)) \/ (\E f \in Files : Delete(f))

Spec == Init /\ [][Next]_<<verdict, present>>
=============================================================================
