------------------------------ MODULE MCSuricata ------------------------------
(* Instances of SuricataSubmit for TLC. *)
EXTENDS SuricataSubmit, TLC

CONSTANTS p1, p2, c1, c2

CaptureSymmetry == Permutations(Captures)
=============================================================================
