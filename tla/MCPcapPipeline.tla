--------------------------- MODULE MCPcapPipeline ---------------------------
(* Instances of PcapPipeline for TLC. *)
EXTENDS PcapPipeline

CONSTANTS u1, u2, a, agz, b

MCPlain == [n \in {a, agz, b} |-> IF n = agz THEN a ELSE n]

File(n, k, s) == [name |-> n, kind |-> k, size |-> s]

\* A capture or its compressed form, and another upload of the same name,
\* of the name it is unpacked to, or of a name of its own.
MCFirst == {File(a, "capture", 1), File(agz, "packed", 1)}
MCSecond ==
  {File(a, "capture", 1), File(a, "capture", 2), File(agz, "packed", 2), File(a, "other", 2),
   File(agz, "archive", 1), File(agz, "broken", 1), File(b, "packed", 1), File(b, "archive", 1)}
MCComes == {[u \in {u1, u2} |-> IF u = u1 THEN f ELSE g] : f \in MCFirst, g \in MCSecond}
=============================================================================
