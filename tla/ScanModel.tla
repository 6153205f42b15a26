------------------------------ MODULE ScanModel ------------------------------
(***************************************************************************)
(* The data model shared by the filescan processes (filescan/model.py):    *)
(* the messages they exchange over redis, and the logger's book-keeping of *)
(* one scan (FileScan), of one scanner's contribution to it (FileResult)   *)
(* and of all scans in progress (FileScanMap).  No variables: every        *)
(* operator maps a value to a value.                                       *)
(*                                                                         *)
(* A dictionary is a function whose domain varies.  Times are abstract:    *)
(* the age of a scan, now - start, is counted in units such that the two   *)
(* thresholds of the code are MinScanTime and MaxScanTime.                 *)
(***************************************************************************)
EXTENDS Integers, FiniteSets, Sequences

CONSTANTS
  Requests,      \* the UUIDs of scan requests
  Scanners,      \* the scanners, one process for each scanner name
  MinScanTime,   \* FileScan.min_scan_time (5 minutes)
  MaxScanTime,   \* logger.max_scan_time, NoLimit when it is not configured
  MaxAge         \* bound: ages at and above it are not told apart

NoLimit == -1

ASSUME ScanModelAssumption ==
  /\ IsFiniteSet(Requests) /\ IsFiniteSet(Scanners)
  /\ MinScanTime \in Nat
  /\ MaxScanTime \in Nat \cup {NoLimit}
  /\ MaxAge \in Nat

Ages == 0 .. MaxAge

-----------------------------------------------------------------------------
(* Messages.  A result is told apart only by what the logger does with it: *)
(* a non-empty "rules" list (hit), a result without one (miss), an error.  *)

Findings == {"hit", "miss", "error"}

SubmitMsg(q, n)    == [type |-> "submit", id |-> q, count |-> n]
Note(t, q, w)      == [type |-> t, id |-> q, name |-> w]
ResultMsg(q, w, f) == [type |-> "result", id |-> q, name |-> w, finding |-> f]
CompleteMsg(q)     == [type |-> "complete", id |-> q]

Message ==
       [type : {"submit"}, id : Requests, count : Nat]
  \cup [type : {"begin", "end", "timeout"}, id : Requests, name : Scanners]
  \cup [type : {"result"}, id : Requests, name : Scanners, finding : Findings]
  \cup [type : {"complete"}, id : Requests]

-----------------------------------------------------------------------------
(* FileResult: one scanner's part of a scan, "absent" until its begin.     *)

FileResult == [state   : {"absent", "open", "done"},
               hit     : BOOLEAN,
               error   : BOOLEAN,
               errored : BOOLEAN]

NoResult == [state |-> "absent", hit |-> FALSE, error |-> FALSE, errored |-> FALSE]

\* (mutant) Completion keeps the type of the note it came with.
UpdateResult_KeepsType(r, m) ==
  CASE m.type = "result" -> [r EXCEPT !.hit = @ \/ m.finding = "hit"]
    [] OTHER -> [r EXCEPT !.state = m.type]

\* A result is stored whether or not the end has been seen; only the first
\* end or timeout counts.
UpdateResult(r, m) ==
  CASE m.type = "result" ->
         [r EXCEPT !.hit = @ \/ m.finding = "hit", !.error = @ \/ m.finding = "error"]
    [] m.type \in {"end", "timeout"} /\ r.state = "open" ->
         [r EXCEPT !.state = "done", !.errored = m.type = "timeout" \/ r.error]
    [] OTHER -> r

-----------------------------------------------------------------------------
(* FileScan: what the logger knows of one request.                         *)

FileScan == [file     : BOOLEAN,
             expected : Nat \cup {-1},
             age      : Ages,
             results  : [Scanners -> FileResult]]

\* A scan comes into being with the first message that names it.
ForEvent(age) ==
  [file |-> FALSE, expected |-> -1, age |-> age, results |-> [w \in Scanners |-> NoResult]]

Begun(s)   == {w \in Scanners : s.results[w].state # "absent"}
AllDone(s) == \A w \in Scanners : s.results[w].state # "open"

Expired(s) == MaxScanTime # NoLimit /\ s.age > MaxScanTime

\* (mutants) Results still open are not waited for; one more is expected
\* than the submit announced.
Complete_IgnoresOpen(s) ==
  \/ s.expected >= 0 /\ Cardinality(Begun(s)) >= s.expected
  \/ s.age >= MinScanTime /\ ~Expired(s)
Complete_OneMore(s) ==
  /\ \/ s.expected >= 0 /\ Cardinality(Begun(s)) > s.expected
     \/ s.age >= MinScanTime /\ ~Expired(s)
  /\ AllDone(s)

Complete(s) ==
  /\ \/ s.expected >= 0 /\ Cardinality(Begun(s)) >= s.expected
     \/ s.age >= MinScanTime /\ ~Expired(s)
  /\ AllDone(s)

\* The value FileScan.update returns: did the message change the scan?
Accepts(s, m) ==
  \/ m.type = "submit"
  \/ m.type = "begin" /\ s.results[m.name].state = "absent"
  \/ m.type = "result" /\ s.results[m.name].state # "absent"
  \/ m.type \in {"end", "timeout"} /\ s.results[m.name].state = "open"

UpdateScan(s, m) ==
  IF ~Accepts(s, m) THEN s
  ELSE IF m.type = "submit"
  THEN [s EXCEPT !.file = TRUE, !.expected = IF @ > m.count THEN @ ELSE m.count]
  ELSE IF m.type = "begin"
  THEN [s EXCEPT !.results[m.name] = [NoResult EXCEPT !.state = "open"]]
  ELSE [s EXCEPT !.results[m.name] = UpdateResult(@, m)]

-----------------------------------------------------------------------------
(* FileScanMap: the scans in progress.                                     *)

IsScanMap(map) ==
  /\ DOMAIN map \subseteq Requests
  /\ map = [q \in DOMAIN map |-> map[q]]
  /\ \A q \in DOMAIN map : map[q] \in FileScan

EmptyMap == [q \in {} |-> ForEvent(0)]

\* The map a message is applied to, as it is at the given ages.  A submit may
\* move the start of its scan back, so an age may only grow.
Aged(map, m, ages) ==
  [q \in DOMAIN map \cup {m.id} |->
     IF q \in DOMAIN map THEN [map[q] EXCEPT !.age = ages[q]] ELSE ForEvent(ages[q])]

UpdateMap(map, m) == [map EXCEPT ![m.id] = UpdateScan(@, m)]

\* FileScanMap.update drops "complete": it does not come back as a scan.
Ignored_Nothing(m) == FALSE   \* (mutant)
Ignored(m) == m.type = "complete"

\* get_completed_scans splits the map: it yields what is complete or expired
\* and keeps the rest.
Finished(map) == {q \in DOMAIN map : Complete(map[q]) \/ Expired(map[q])}

Part(map, S) == [q \in S |-> map[q]]

Working_All(map) == map   \* (mutant) the map is not cleared
Working(map) == Part(map, DOMAIN map \ Finished(map))
=============================================================================
