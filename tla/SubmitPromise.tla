---------------------------- MODULE SubmitPromise ----------------------------
(***************************************************************************)
(* What the submission of captures to Suricata promises, with no socket,   *)
(* reply or retry in it: a capture is acted on at most once and reported   *)
(* at most once, and one reported as submitted has been acted on.  One     *)
(* reported as failed may still be acted on: its answer was lost.          *)
(***************************************************************************)
EXTENDS Naturals

CONSTANTS Captures

VARIABLES
  acted,     \* how often an instance has queued each capture
  verdict    \* what the worker has reported of each capture

Init ==
  /\ acted   = [c \in Captures |-> 0]
  /\ verdict = [c \in Captures |-> "none"]

Act(c) ==
  /\ acted[c] = 0
  /\ acted' = [acted EXCEPT ![c] = 1]
  /\ UNCHANGED verdict

Report(c) ==
  /\ verdict[c] = "none"
  /\ \E v \in {"failed"} \cup IF acted[c] = 1 THEN {"submitted"} ELSE {} :
       verdict' = [verdict EXCEPT ![c] = v]
  /\ UNCHANGED acted

\* Captures passed over, or lost with the process.
Drop(S) ==
  /\ \A c \in S : verdict[c] = "none"
  /\ verdict' = [c \in Captures |-> IF c \in S THEN "dropped" ELSE verdict[c]]
  /\ UNCHANGED acted

Next ==
  \/ \E c \in Captures : Act(c) \/ Report(c)
  \/ \E S \in SUBSET Captures : Drop(S)

Spec == Init /\ [][Next]_<<acted, verdict>>
=============================================================================
