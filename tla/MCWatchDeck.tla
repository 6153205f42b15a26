----------------------------- MODULE MCWatchDeck -----------------------------
(* Instances of WatchDeck for TLC. *)
EXTENDS WatchDeck

CONSTANTS f1, f2

FileSymmetry == Permutations(Files)
=============================================================================
