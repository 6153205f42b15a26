---------------------------- MODULE MCLogLifecycle ----------------------------
(* Instances of LogLifecycle for TLC. *)
EXTENDS LogLifecycle

CONSTANTS u1, u2, n1, r1, r2

MCComes == [u \in {u1, u2} |->
  IF u = u1 THEN {"damaged", "archive"} \X {"recent"} \cup {<<"torn", "old">>}
  ELSE {<<"archive", "old">>, <<"evtx", "recent">>, <<"other", "recent">>}]
=============================================================================
