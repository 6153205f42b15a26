----------------------------- MODULE MCFileScan ------------------------------
(* Instances of FileScan for TLC. *)
EXTENDS FileScan, TLC

CONSTANTS q1, q2, w1, w2, f1, f2

O(rs, l) == [results |-> rs, last |-> l]

\* All outcomes with at most one finding before the error.
MCOutcomes == {O(<<"hit">>, "end"), O(<<"miss">>, "end"), O(<<"hit", "error">>, "timeout"),
               O(<<"error">>, "end")}
FewOutcomes == {O(<<"hit">>, "end"), O(<<"error">>, "timeout")}

OneFile  == [q \in Requests |-> f1]

ScannerSymmetry == Permutations(Scanners)
RequestSymmetry == Permutations(Requests) \cup Permutations(Scanners)
=============================================================================
