--------------------------- MODULE LogLifecycleProofs ---------------------------
(***************************************************************************)
(* Proofs about LogLifecycle, for any uploads, names and processes.  First *)
(* its types, that one process of the preparer works at a time, and that   *)
(* no upload is overwritten.  These need each other: the preparer looks at *)
(* a destination and moves there later, which is only safe while nobody    *)
(* else moves files into processed/.  On them rests the second part: what  *)
(* filebeat is given is whole, and removed only after it was read.  The    *)
(* third: what is due to be read gets there.                               *)
(***************************************************************************)
EXTENDS LogLifecycle, TLAPS

\* What a process of the preparer and the cleaner have in hand.
Shape ==
  /\ \A r \in Runs :
       prep[r].at \notin {"off", "listed"} =>
         prep[r].from \in Paths /\ prep[r].to \in Places /\ prep[r].file \in Uploads
  /\ cleaner.at = "sure" => cleaner.item \in Items

\* An upload is in one place at most, and nowhere before it comes.
NotYet ==
  \A u \in Uploads : kind[u] = "none" =>
    (\A n \in Names : upload[n] # u) /\ (\A p \in Paths : zeek[p] # u) /\ ~Stored(u)

Apart ==
  /\ \A m, n \in Names : upload[m] = upload[n] /\ upload[m] # None => m = n
  /\ \A p, q \in Paths : zeek[p] = zeek[q] /\ zeek[p] # None => p = q
  /\ \A n \in Names, p \in Paths : upload[n] = zeek[p] => upload[n] = None
  /\ \A n \in Names, p \in Places : upload[n] = processed[p] => upload[n] = None
  /\ \A p \in Paths, q \in Places : zeek[p] = processed[q] => zeek[p] = None

\* What has a time in its name was taken at that time.
Stamped == \A p \in Places : p[3] # None => processed[p] \in {None, p[3]}

\* A move that was decided on still has a source, and a free destination.
MoverReady == mover # NoMove => upload[mover[1]] # None /\ zeek[mover[2]] = None

TakenReady ==
  \A r \in Runs : prep[r].at = "taken" =>
    /\ zeek[prep[r].from] = prep[r].file
    /\ processed[prep[r].to] = None
    /\ prep[r].to[3] \in {None, prep[r].file}

Safe ==
  /\ NotYet /\ Apart /\ Stamped /\ MoverReady /\ TakenReady
  /\ OnePreparer /\ NothingIsOverwritten

IInv == TypeOK /\ Shape /\ Safe

-----------------------------------------------------------------------------
LEMMA InitOK == Init => IInv
<1> SUFFICES ASSUME Init PROVE IInv
  OBVIOUS
<1>1. TypeOK
  <2>1. prep \in [Runs -> [at : {"off", "listed", "taken", "moved", "extracting", "extracted"},
                          todo : SUBSET Paths, from : Paths \cup {<<>>},
                          to : Places \cup {<<>>}, file : Files]]
    BY DEF Init, Idle, Files
  <2>2. cleaner \in [at : {"off", "on", "sure"}, todo : SUBSET Items, item : Items \cup {<<>>}]
    BY DEF Init, Asleep
  <2>3. /\ mover \in (Names \X Paths) \cup {NoMove} /\ faults \in 0..MaxFaults
        /\ reading \in [Uploads -> {"no", "reading", "closed", "read", "forgotten"}]
        /\ log \in [Uploads -> {"none", "part", "whole", "empty"}]
    BY LogLifecycleAssumption DEF Init
  <2> QED BY <2>1, <2>2, <2>3 DEF Init, TypeOK, Files
<1>2. Shape
  BY DEF Init, Shape, Idle, Asleep
<1>3. Safe
  BY LogLifecycleAssumption
  DEF Init, Safe, NotYet, Apart, Stamped, MoverReady, TakenReady, OnePreparer,
      NothingIsOverwritten, Busy, Stored, Idle
<1> QED BY <1>1, <1>2, <1>3 DEF IInv

\* A step that leaves the files, who moves them and what is known of the
\* uploads alone preserves Safe.
SafeVars == <<kind, moverVars, zeek, processed, prepVars, pruned>>

LEMMA SafeKept == ASSUME Safe, UNCHANGED SafeVars PROVE Safe'
BY DEF Safe, SafeVars, moverVars, prepVars, NotYet, Apart, Stamped, MoverReady,
       TakenReady, OnePreparer, NothingIsOverwritten, Busy, Stored

-----------------------------------------------------------------------------
(* The users and the watcher.                                              *)

\* The users put a file where none is.
LEMMA UploadOK ==
  ASSUME IInv, NEW u \in Uploads, NEW n \in Names, Upload(u, n)
  PROVE  IInv'
<1> USE DEF Upload, world, moverVars, prepVars, logVars, cleanVars
<1>1. PICK k \in Kinds : kind' = [kind EXCEPT ![u] = k]
  OBVIOUS
<1>2. TypeOK'
  BY <1>1 DEF IInv, TypeOK, Files, Items, Original
<1>3. Shape'
  BY DEF IInv, Shape
<1>4. k # "none"
  BY <1>1 DEF Kinds
<1>5. u # None
  BY LogLifecycleAssumption
<1>6. /\ upload \in [Names -> Files] /\ kind \in [Uploads -> Kinds \cup {"none"}]
      /\ NotYet /\ kind[u] = "none"
  BY DEF IInv, TypeOK, Safe
<1>7. NotYet'
  <2>1. \A v \in Uploads : kind'[v] = "none" => v # u /\ kind[v] = "none"
    BY <1>1, <1>4, <1>6
  <2>2. \A v \in Uploads, m \in Names : v # u /\ upload[m] # v => upload'[m] # v
    BY <1>6
  <2> QED BY <2>1, <2>2, <1>6 DEF NotYet, Stored
<1>8. Apart'
  BY <1>5, <1>6 DEF IInv, Safe, Apart, NotYet, Stored
<1>9. Stamped' /\ TakenReady' /\ OnePreparer'
  BY DEF IInv, Safe, Stamped, TakenReady, OnePreparer, Busy
<1>10. MoverReady'
  BY <1>5, <1>6 DEF IInv, Safe, MoverReady, TypeOK, NoMove
<1>11. NothingIsOverwritten'
  <2> SUFFICES ASSUME NEW v \in Uploads, kind'[v] # "none"
               PROVE  \/ v \in rejected' \cup pruned' \/ Stored(v)'
                      \/ \E m \in Names : upload'[m] = v
                      \/ \E p \in Paths : zeek'[p] = v
    BY DEF NothingIsOverwritten
  <2>1. CASE v = u
    BY <2>1, <1>6
  <2>2. CASE v # u
    <3>1. kind[v] # "none"
      BY <2>2, <1>1, <1>6
    <3>2. /\ upload[n] = None /\ upload' = [upload EXCEPT ![n] = u]
          /\ UNCHANGED <<rejected, pruned, zeek, processed>>
      OBVIOUS
    <3>3. \/ v \in rejected \cup pruned \/ Stored(v)
          \/ \E m \in Names : upload[m] = v
          \/ \E p \in Paths : zeek[p] = v
      BY <3>1 DEF IInv, Safe, NothingIsOverwritten
    <3>4. \A m \in Names : upload[m] = v => upload'[m] = v
      BY <3>2, <1>6, LogLifecycleAssumption
    <3> QED BY <3>2, <3>3, <3>4 DEF Stored
  <2> QED BY <2>1, <2>2
<1> QED BY <1>2, <1>3, <1>7, <1>8, <1>9, <1>10, <1>11 DEF IInv, Safe

\* Time changes no place of a file.
LEMMA AgeOK ==
  ASSUME IInv, NEW u \in Uploads, OriginalAges(u) \/ LogAges(u)
  PROVE  IInv'
<1> USE DEF OriginalAges, LogAges, world, moverVars, prepVars, logVars, cleanVars
<1>1. TypeOK'
  BY DEF IInv, TypeOK, Items, Original, LogOf
<1>2. Shape'
  BY DEF IInv, Shape
<1>3. Safe'
  BY SafeKept DEF IInv, SafeVars
<1> QED BY <1>1, <1>2, <1>3 DEF IInv

\* The watcher chooses a free path.
LEMMA LookOK ==
  ASSUME IInv, NEW n \in Names, Look(n)
  PROVE  IInv'
<1> USE DEF Look, world, moverVars, prepVars, logVars, cleanVars
<1>1. PICK t \in Paths : zeek[t] = None /\ mover' = <<n, t>>
  BY DEF Target
<1>2. TypeOK'
  BY <1>1 DEF IInv, TypeOK
<1>3. Shape'
  BY DEF IInv, Shape
<1>4. MoverReady'
  BY <1>1 DEF MoverReady
<1>5. /\ NotYet' /\ Apart' /\ Stamped' /\ TakenReady' /\ OnePreparer'
      /\ NothingIsOverwritten'
  BY DEF IInv, Safe, NotYet, Apart, Stamped, TakenReady, OnePreparer,
         NothingIsOverwritten, Busy, Stored
<1> QED BY <1>2, <1>3, <1>4, <1>5 DEF IInv, Safe

\* A refused file is gone, and known to be.
LEMMA RejectOK ==
  ASSUME IInv, NEW n \in Names, Reject(n)
  PROVE  IInv'
<1> USE DEF Reject, world, moverVars, prepVars, logVars, cleanVars
<1>1. upload[n] \in Uploads /\ upload \in [Names -> Files] /\ None \in Files
  BY DEF IInv, TypeOK, Files
<1>2. TypeOK'
  BY <1>1 DEF IInv, TypeOK
<1>3. Shape'
  BY DEF IInv, Shape
<1>4. \A m \in Names : upload'[m] = IF m = n THEN None ELSE upload[m]
  BY <1>1
<1>5. NotYet' /\ Apart'
  BY <1>1, <1>4, LogLifecycleAssumption DEF IInv, Safe, NotYet, Apart, Stored
<1>6. Stamped' /\ TakenReady' /\ OnePreparer' /\ MoverReady'
  BY DEF IInv, Safe, Stamped, TakenReady, OnePreparer, MoverReady, Busy
<1>7. NothingIsOverwritten'
  BY <1>4 DEF IInv, Safe, NothingIsOverwritten, Stored
<1> QED BY <1>2, <1>3, <1>5, <1>6, <1>7 DEF IInv, Safe

\* The path the watcher chose is still free: only it moves files there.
LEMMA MoveOK == ASSUME IInv, Move PROVE IInv'
<1> USE DEF Move, world, moverVars, prepVars, logVars, cleanVars
<1>1. PICK n \in Names, t \in Paths : mover = <<n, t>>
  BY DEF IInv, TypeOK
<1>2. /\ upload \in [Names -> Files] /\ zeek \in [Paths -> Files]
      /\ upload[n] \in Uploads /\ zeek[t] = None
  BY <1>1 DEF IInv, TypeOK, Files, Safe, MoverReady
<1>3. /\ \A m \in Names : upload'[m] = IF m = n THEN None ELSE upload[m]
      /\ \A p \in Paths : zeek'[p] = IF p = t THEN upload[n] ELSE zeek[p]
  BY <1>1, <1>2
<1>4. TypeOK'
  BY <1>1, <1>2 DEF IInv, TypeOK, Files
<1>5. Shape'
  BY DEF IInv, Shape
<1>6. NotYet' /\ Apart'
  <2>1. NotYet'
    BY <1>2, <1>3, LogLifecycleAssumption DEF IInv, Safe, NotYet, Stored
  <2>2. Apart'
    BY <1>2, <1>3, LogLifecycleAssumption DEF IInv, Safe, Apart
  <2> QED BY <2>1, <2>2
<1>7. Stamped' /\ OnePreparer' /\ MoverReady'
  BY DEF IInv, Safe, Stamped, OnePreparer, MoverReady, Busy
<1>8. TakenReady'
  BY <1>2, <1>3, LogLifecycleAssumption DEF IInv, Safe, TakenReady, Shape
<1>9. NothingIsOverwritten'
  BY <1>2, <1>3, LogLifecycleAssumption DEF IInv, Safe, NothingIsOverwritten, Stored
<1> QED BY <1>4, <1>5, <1>6, <1>7, <1>8, <1>9 DEF IInv, Safe

-----------------------------------------------------------------------------
(* The preparer.                                                           *)

\* What a step makes of one process when nothing but the process moves on:
\* it is not left with a file it has yet to move.
LEMMA TurnOK ==
  ASSUME IInv, NEW r \in Runs, Busy(r), NEW q, q.at # "taken",
         prep' = [prep EXCEPT ![r] = q], lock' \in BOOLEAN,
         q.at = "off" \/ lock' = lock,
         UNCHANGED <<kind, moverVars, zeek, processed, pruned>>
  PROVE  Safe'
<1> USE DEF moverVars
<1>1. prep \in [Runs -> [at : {"off", "listed", "taken", "moved", "extracting", "extracted"},
                        todo : SUBSET Paths, from : Paths \cup {<<>>},
                        to : Places \cup {<<>>}, file : Files]]
  BY DEF IInv, TypeOK
<1>2. \A s \in Runs : prep'[s] = IF s = r THEN q ELSE prep[s]
  BY <1>1
<1>3. /\ NotYet' /\ Apart' /\ Stamped' /\ MoverReady' /\ NothingIsOverwritten'
  BY DEF IInv, Safe, NotYet, Apart, Stamped, MoverReady, NothingIsOverwritten, Stored
<1>4. TakenReady'
  BY <1>2 DEF IInv, Safe, TakenReady
<1>5. OnePreparer'
  BY <1>2 DEF IInv, Safe, OnePreparer, Busy
<1> QED BY <1>3, <1>4, <1>5 DEF Safe

PrepType == [at : {"off", "listed", "taken", "moved", "extracting", "extracted"},
             todo : SUBSET Paths, from : Paths \cup {<<>>}, to : Places \cup {<<>>},
             file : Files]

\* Who makes the lock directory is alone.
LEMMA StartOK ==
  ASSUME IInv, NEW r \in Runs, Start(r) PROVE IInv'
<1> USE DEF Start, world, moverVars, prepVars, logVars, cleanVars
<1>1. prep \in [Runs -> PrepType]
  BY DEF IInv, TypeOK, PrepType
<1>2. PICK T \in SUBSET Paths : prep' = [prep EXCEPT ![r] = [Idle EXCEPT !.at = "listed", !.todo = T]]
  OBVIOUS
<1>3. DEFINE q == [Idle EXCEPT !.at = "listed", !.todo = T]
<1>4. q \in PrepType /\ q.at = "listed"
  BY DEF PrepType, Idle, Files
<1>5. \A s \in Runs : prep'[s] = IF s = r THEN q ELSE prep[s]
  BY <1>1, <1>2
<1> HIDE DEF q
<1>6. prep' \in [Runs -> PrepType]
  BY <1>1, <1>2, <1>4 DEF q
<1>7. TypeOK'
  BY <1>6 DEF IInv, TypeOK, PrepType
<1>8. Shape'
  BY <1>4, <1>5 DEF IInv, Shape
<1>9. NotYet' /\ Apart' /\ Stamped' /\ MoverReady' /\ NothingIsOverwritten'
  BY DEF IInv, Safe, NotYet, Apart, Stamped, MoverReady, NothingIsOverwritten, Stored
<1>10. TakenReady'
  <2>1. UNCHANGED <<zeek, processed>> /\ TakenReady
    BY DEF IInv, Safe
  <2> HIDE DEF Start
  <2>2. \A s \in Runs : prep'[s].at = "taken" => prep'[s] = prep[s]
    BY <1>4, <1>5
  <2> QED BY <2>1, <2>2 DEF TakenReady
<1>11. OnePreparer'
  BY <1>4, <1>5 DEF IInv, Safe, OnePreparer, Busy
<1> QED BY <1>7, <1>8, <1>9, <1>10, <1>11 DEF IInv, Safe

\* Who is refused leaves the lock alone.
LEMMA RefusedOK ==
  ASSUME IInv, NEW r \in Runs, Refused(r) PROVE IInv'
<1> USE DEF Refused, world, moverVars, prepVars, logVars, cleanVars
<1>1. lock' = lock
  BY DEF Trap
<1>2. TypeOK' /\ Shape'
  BY <1>1 DEF IInv, TypeOK, Shape
<1>3. Safe'
  BY <1>1, SafeKept DEF IInv, SafeVars
<1> QED BY <1>2, <1>3 DEF IInv

\* The destination is free when it is chosen.
LEMMA TakeOK ==
  ASSUME IInv, NEW r \in Runs, Take(r) PROVE IInv'
<1> USE DEF world, moverVars, prepVars, logVars, cleanVars
<1>1. prep \in [Runs -> PrepType] /\ prep[r].at = "listed"
  BY DEF IInv, TypeOK, PrepType, Take
<1>2. PICK p \in prep[r].todo :
        prep' = [prep EXCEPT ![r] =
          IF zeek[p] = None THEN [prep[r] EXCEPT !.todo = @ \ {p}]
          ELSE [at |-> "taken", todo |-> prep[r].todo \ {p}, from |-> p,
                to |-> Place(p, zeek[p]), file |-> zeek[p]]]
  BY DEF Take
<1>3. /\ p \in Paths /\ p[1] \in Names /\ p[2] \in Copies /\ zeek[p] \in Files
      /\ processed \in [Places -> Files]
  BY <1>1 DEF IInv, TypeOK, PrepType, Paths
<1>4. UNCHANGED <<world, moverVars, zeek, lock, processed, logVars, old, reading, cleanVars>>
  BY DEF Take
<1>5. CASE zeek[p] = None
  <2> DEFINE q == [prep[r] EXCEPT !.todo = @ \ {p}]
  <2>1. q \in PrepType /\ q.at = "listed"
    BY <1>1 DEF PrepType
  <2>2. prep' = [prep EXCEPT ![r] = q]
    BY <1>2, <1>5
  <2> HIDE DEF q
  <2>3. prep' \in [Runs -> PrepType] /\ \A s \in Runs : prep'[s] = IF s = r THEN q ELSE prep[s]
    BY <1>1, <2>1, <2>2
  <2>4. TypeOK' /\ Shape'
    BY <1>4, <2>1, <2>3 DEF IInv, TypeOK, PrepType, Shape
  <2>5. Safe'
    BY <1>1, <1>4, <2>1, <2>2, TurnOK DEF Busy, IInv, TypeOK
  <2> QED BY <2>4, <2>5 DEF IInv
<1>6. CASE zeek[p] # None
  <2> DEFINE u == zeek[p]
             d == Place(p, u)
             q == [at |-> "taken", todo |-> prep[r].todo \ {p}, from |-> p, to |-> d, file |-> u]
  <2>1. u \in Uploads
    BY <1>3, <1>6 DEF Files
  <2>2. d \in Places /\ d[3] \in {None, u}
    BY <1>3, <2>1 DEF Place, Places, Stamps
  <2>3. processed[d] = None
    <3>1. CASE d[3] = None
      BY <3>1, <2>1, <1>3, LogLifecycleAssumption DEF Place, Places, Stamps
    <3>2. CASE d[3] = u
      <4>1. processed[d] \in {None, u}
        BY <3>2, <2>1, <2>2, LogLifecycleAssumption DEF IInv, Safe, Stamped
      <4>2. processed[d] # u
        BY <1>3, <1>6, <2>2 DEF IInv, Safe, Apart
      <4> QED BY <4>1, <4>2
    <3> QED BY <3>1, <3>2, <2>2
  <2>4. q \in PrepType
    BY <1>1, <1>3, <2>1, <2>2 DEF PrepType, Files
  <2>5. prep' = [prep EXCEPT ![r] = q]
    BY <1>2, <1>6
  <2>6. /\ q.at = "taken" /\ q.from = p /\ q.to = d /\ q.file = u
    OBVIOUS
  <2> HIDE DEF q, d
  <2>7. prep' \in [Runs -> PrepType] /\ \A s \in Runs : prep'[s] = IF s = r THEN q ELSE prep[s]
    BY <1>1, <2>4, <2>5
  <2>8. TypeOK'
    BY <1>4, <2>7 DEF IInv, TypeOK, PrepType
  <2>9. Shape'
    BY <1>3, <1>4, <2>1, <2>2, <2>6, <2>7 DEF IInv, Shape
  <2>10. NotYet' /\ Apart' /\ Stamped' /\ MoverReady' /\ NothingIsOverwritten'
    BY <1>4 DEF IInv, Safe, NotYet, Apart, Stamped, MoverReady, NothingIsOverwritten, Stored
  <2>11. TakenReady'
    BY <1>4, <2>2, <2>3, <2>6, <2>7 DEF IInv, Safe, TakenReady
  <2>12. OnePreparer'
    BY <1>1, <1>4, <2>6, <2>7 DEF IInv, Safe, OnePreparer, Busy
  <2> QED BY <2>8, <2>9, <2>10, <2>11, <2>12 DEF IInv, Safe
<1> QED BY <1>5, <1>6

\* And when the file is moved, since nobody else moves files there.
LEMMA MoveInOK ==
  ASSUME IInv, NEW r \in Runs, MoveIn(r) PROVE IInv'
<1> USE DEF MoveIn, Turned, world, moverVars, prepVars, logVars, cleanVars
<1> DEFINE a == prep[r].from
           d == prep[r].to
           u == prep[r].file
           q == [prep[r] EXCEPT !.at = "moved"]
<1>1. prep \in [Runs -> PrepType] /\ prep[r].at = "taken"
  BY DEF IInv, TypeOK, PrepType
<1>2. a \in Paths /\ d \in Places /\ u \in Uploads
  BY <1>1 DEF IInv, Shape
<1>3. zeek[a] = u /\ processed[d] = None /\ d[3] \in {None, u}
  BY <1>1 DEF IInv, Safe, TakenReady
<1>4. q \in PrepType /\ q.at = "moved" /\ q.from = a /\ q.to = d /\ q.file = u
  BY <1>1 DEF PrepType
<1>5. /\ prep' = [prep EXCEPT ![r] = q]
      /\ zeek \in [Paths -> Files] /\ processed \in [Places -> Files]
  BY <1>1 DEF IInv, TypeOK
<1> HIDE DEF q
<1>6. /\ \A s \in Runs : prep'[s] = IF s = r THEN q ELSE prep[s]
      /\ prep' \in [Runs -> PrepType]
  BY <1>1, <1>4, <1>5
<1>7. /\ \A p \in Paths : zeek'[p] = IF p = a THEN None ELSE zeek[p]
      /\ \A p \in Places : processed'[p] = IF p = d THEN u ELSE processed[p]
      /\ zeek' \in [Paths -> Files] /\ processed' \in [Places -> Files]
  BY <1>2, <1>3, <1>5 DEF Files
<1> HIDE DEF a, d, u
<1>8. UNCHANGED <<world, moverVars, lock, logVars, old, reading, cleanVars>>
  OBVIOUS
<1>9. TypeOK'
  BY <1>6, <1>7, <1>8 DEF IInv, TypeOK, PrepType
<1>10. Shape'
  BY <1>2, <1>4, <1>6, <1>8 DEF IInv, Shape
<1>11. u # None
  BY <1>2, LogLifecycleAssumption
<1>12. NotYet'
  BY <1>2, <1>3, <1>7, <1>8, <1>11 DEF IInv, Safe, NotYet, Stored
<1>13. Apart'
  BY <1>2, <1>3, <1>7, <1>8, <1>11 DEF IInv, Safe, Apart
<1>14. Stamped'
  BY <1>3, <1>7 DEF IInv, Safe, Stamped
<1>15. MoverReady'
  BY <1>2, <1>7, <1>8 DEF IInv, Safe, MoverReady, TypeOK
<1>16. OnePreparer'
  BY <1>1, <1>4, <1>6, <1>8 DEF IInv, Safe, OnePreparer, Busy
<1>17. TakenReady'
  <2>1. \A s \in Runs : s # r => prep[s].at # "taken"
    BY <1>1 DEF IInv, Safe, OnePreparer, Busy
  <2> QED BY <2>1, <1>4, <1>6 DEF TakenReady
<1>18. NothingIsOverwritten'
  BY <1>2, <1>3, <1>7, <1>8, <1>11 DEF IInv, Safe, NothingIsOverwritten, Stored
<1> QED BY <1>9, <1>10, <1>12, <1>13, <1>14, <1>15, <1>16, <1>17, <1>18 DEF IInv, Safe

Empty(T) == [Idle EXCEPT !.at = "listed", !.todo = T]
Later(r) == {[prep[r] EXCEPT !.at = "extracting"], [prep[r] EXCEPT !.at = "extracted"],
             Empty(prep[r].todo), Idle}
LaterStep(r, q) ==
  /\ prep' = [prep EXCEPT ![r] = q]
  /\ q.at = "off" \/ lock' = lock
  /\ q.at \in {"extracting", "extracted"} => prep[r].at # "listed"

\* The rest of its steps leave the files it has yet to take alone.
LEMMA LaterStepsOK ==
  ASSUME IInv, NEW r \in Runs,
         Open(r) \/ Extracted(r) \/ ExtractionFails(r) \/ ConversionStops(r)
         \/ NothingToConvert(r) \/ Link(r) \/ Finish(r)
  PROVE  IInv'
<1> USE DEF world, moverVars, prepVars, logVars, cleanVars
<1>1. prep \in [Runs -> PrepType] /\ prep[r] \in PrepType
  BY DEF IInv, TypeOK, PrepType
<1>2. prep[r].at \notin {"off", "taken"}
  BY DEF Open, Extracted, ExtractionFails, ConversionStops, NothingToConvert, Link, Finish
<1>3. /\ Dropped(r) = [prep EXCEPT ![r] = Empty(prep[r].todo)]
      /\ Turned(r, "extracting") = [prep EXCEPT ![r] = [prep[r] EXCEPT !.at = "extracting"]]
      /\ Turned(r, "extracted") = [prep EXCEPT ![r] = [prep[r] EXCEPT !.at = "extracted"]]
  BY <1>1 DEF Dropped, Turned, Empty
<1>4. /\ UNCHANGED <<world, moverVars, zeek, processed, reading, cleanVars>>
      /\ log' \in [Uploads -> {"none", "part", "whole", "empty"}]
      /\ links' \subseteq Uploads /\ old' \subseteq Items /\ lock' \in BOOLEAN
  <2>1. CASE Open(r) \/ Extracted(r) \/ ConversionStops(r) \/ NothingToConvert(r)
    BY <2>1 DEF Open, Extracted, ConversionStops, NothingToConvert, IInv, TypeOK
  <2>2. CASE ExtractionFails(r)
    BY <2>2 DEF ExtractionFails, Failed, IInv, TypeOK
  <2>3. CASE Link(r) \/ Finish(r)
    BY <2>3 DEF Link, Finish, Trap, IInv, TypeOK, Shape
  <2> QED BY <2>1, <2>2, <2>3
<1>5. PICK q \in Later(r) : LaterStep(r, q)
  <2>1. CASE /\ prep' = Turned(r, "extracting") \/ prep' = Turned(r, "extracted")
             /\ prep[r].at # "listed" /\ lock' = lock
    <3>1. PICK q \in {[prep[r] EXCEPT !.at = "extracting"], [prep[r] EXCEPT !.at = "extracted"]} :
            prep' = [prep EXCEPT ![r] = q]
      BY <1>3, <2>1
    <3>2. q \in Later(r)
      BY <3>1 DEF Later
    <3> QED BY <2>1, <3>1, <3>2 DEF LaterStep
  <2>2. CASE prep' = Dropped(r) /\ lock' = lock
    <3>1. Empty(prep[r].todo) \in Later(r) /\ Empty(prep[r].todo).at = "listed"
      BY DEF Later, Empty, Idle
    <3> QED BY <1>3, <2>2, <3>1 DEF LaterStep
  <2>3. CASE prep' = [prep EXCEPT ![r] = Idle]
    BY <2>3 DEF Later, LaterStep, Idle
  <2>4. \/ /\ prep' = Turned(r, "extracting") \/ prep' = Turned(r, "extracted")
           /\ prep[r].at # "listed" /\ lock' = lock
        \/ prep' = Dropped(r) /\ lock' = lock
        \/ prep' = [prep EXCEPT ![r] = Idle]
    BY DEF Open, Extracted, ExtractionFails, Failed, ConversionStops, NothingToConvert, Link, Finish
  <2> QED BY <2>1, <2>2, <2>3, <2>4
<1>6. /\ q \in PrepType /\ q.at # "taken"
      /\ q.at \notin {"off", "listed"} =>
           q.from = prep[r].from /\ q.to = prep[r].to /\ q.file = prep[r].file
           /\ q.at \in {"extracting", "extracted"}
  <2>1. CASE q = [prep[r] EXCEPT !.at = "extracting"] \/ q = [prep[r] EXCEPT !.at = "extracted"]
    BY <1>1, <2>1 DEF PrepType
  <2>2. CASE q = Empty(prep[r].todo) \/ q = Idle
    <3>1. Empty(prep[r].todo) \in PrepType /\ Empty(prep[r].todo).at = "listed"
      BY <1>1 DEF PrepType, Empty, Idle, Files
    <3>2. Idle \in PrepType /\ Idle.at = "off"
      BY DEF PrepType, Idle, Files
    <3> QED BY <2>2, <3>1, <3>2
  <2> QED BY <2>1, <2>2 DEF Later
<1>7. /\ \A s \in Runs : prep'[s] = IF s = r THEN q ELSE prep[s]
      /\ prep' \in [Runs -> PrepType]
  BY <1>1, <1>5, <1>6 DEF LaterStep
<1>8. TypeOK'
  BY <1>4, <1>7 DEF IInv, TypeOK, PrepType
<1>9. Shape'
  BY <1>2, <1>4, <1>5, <1>6, <1>7 DEF IInv, Shape, LaterStep
<1>10. Safe'
  BY <1>2, <1>4, <1>5, <1>6, TurnOK DEF Busy, LaterStep
<1> QED BY <1>8, <1>9, <1>10 DEF IInv

-----------------------------------------------------------------------------
(* The cleaner, filebeat and the faults.                                   *)

\* The cleaner only takes files away from processed/, and notes it.
LEMMA CleanerOK ==
  ASSUME IInv, Wake \/ CleanerStep PROVE IInv'
<1> USE DEF world, moverVars, prepVars, logVars, cleanVars
<1>1. cleaner \in [at : {"off", "on", "sure"}, todo : SUBSET Items, item : Items \cup {<<>>}]
  BY DEF IInv, TypeOK
<1>2. CASE Wake
  <2>1. Candidates \subseteq Items
    BY DEF Candidates, IInv, TypeOK
  <2>2. TypeOK' /\ Shape'
    BY <1>2, <2>1 DEF Wake, IInv, TypeOK, Shape
  <2>3. Safe'
    BY <1>2, SafeKept DEF Wake, IInv, SafeVars
  <2> QED BY <2>2, <2>3 DEF IInv
<1>3. CASE Check
  <2>1. PICK i \in Items : cleaner' =
          [at |-> IF Exists(i) /\ i \in old /\ ~InUse(i) THEN "sure" ELSE "on",
           todo |-> cleaner.todo \ {i},
           item |-> IF Exists(i) /\ i \in old /\ ~InUse(i) THEN i ELSE <<>>]
    BY <1>1, <1>3 DEF Check
  <2>2. TypeOK' /\ Shape'
    BY <1>1, <1>3, <2>1 DEF Check, IInv, TypeOK, Shape
  <2>3. Safe'
    BY <1>3, SafeKept DEF Check, IInv, SafeVars
  <2> QED BY <2>2, <2>3 DEF IInv
<1>4. CASE RemoveLog
  <2>1. TypeOK' /\ Shape'
    BY <1>1, <1>4 DEF RemoveLog, IInv, TypeOK, Shape
  <2>2. Safe'
    BY <1>4, SafeKept DEF RemoveLog, IInv, SafeVars
  <2> QED BY <2>1, <2>2 DEF IInv
<1>5. CASE Tidy
  <2>1. TypeOK' /\ Shape'
    BY <1>1, <1>5 DEF Tidy, Alive, Asleep, IInv, TypeOK, Shape
  <2>2. Safe'
    BY <1>5, SafeKept DEF Tidy, IInv, SafeVars
  <2> QED BY <2>1, <2>2 DEF IInv
<1>6. CASE RemoveOriginal
  <2> DEFINE u == cleaner.item[2]
  <2>1. u \in Uploads
    BY <1>6 DEF RemoveOriginal, IInv, Shape, Items
  <2>2. /\ \A p \in Places : processed'[p] = IF processed[p] = u THEN None ELSE processed[p]
        /\ processed' \in [Places -> Files] /\ pruned' = pruned \cup {u}
        /\ UNCHANGED <<world, moverVars, zeek, prepVars, logVars, reading>>
    BY <1>6 DEF RemoveOriginal, IInv, TypeOK, Files
  <2>3. TypeOK' /\ Shape'
    BY <1>1, <1>6, <2>1, <2>2 DEF RemoveOriginal, IInv, TypeOK, Shape
  <2>4. NotYet' /\ MoverReady' /\ OnePreparer'
    BY <2>2, LogLifecycleAssumption
    DEF IInv, Safe, NotYet, MoverReady, OnePreparer, Busy, Stored
  <2>5. Apart' /\ Stamped'
    BY <2>2 DEF IInv, Safe, Apart, Stamped
  <2>6. TakenReady'
    BY <2>2 DEF IInv, Safe, Shape, TakenReady
  <2>7. NothingIsOverwritten'
    BY <2>2, LogLifecycleAssumption DEF IInv, Safe, NothingIsOverwritten, Stored
  <2> QED BY <2>3, <2>4, <2>5, <2>6, <2>7 DEF IInv, Safe
<1> QED BY <1>2, <1>3, <1>4, <1>5, <1>6 DEF CleanerStep

LEMMA FilebeatOK ==
  ASSUME IInv, Filebeat PROVE IInv'
<1> USE DEF world, moverVars, prepVars, logVars, cleanVars
<1>1. PICK u \in Uploads : PickUp(u) \/ CloseEarly(u) \/ ReadAll(u) \/ Forget(u)
  BY DEF Filebeat
<1>2. TypeOK' /\ Shape'
  BY <1>1, LogLifecycleAssumption
  DEF PickUp, CloseEarly, ReadAll, Forget, IInv, TypeOK, Shape
<1>3. Safe'
  BY <1>1, SafeKept DEF PickUp, CloseEarly, ReadAll, Forget, IInv, SafeVars
<1> QED BY <1>2, <1>3 DEF IInv

LEMMA KillOK ==
  ASSUME IInv, NEW r \in Runs, Kill(r) PROVE IInv'
<1> USE DEF Kill, world, moverVars, prepVars, logVars, cleanVars
<1>1. prep \in [Runs -> PrepType] /\ Idle \in PrepType /\ Idle.at = "off"
  BY DEF IInv, TypeOK, PrepType, Idle, Files
<1>2. /\ \A s \in Runs : prep'[s] = IF s = r THEN Idle ELSE prep[s]
      /\ prep' \in [Runs -> PrepType]
  BY <1>1
<1>3. TypeOK'
  BY <1>2, LogLifecycleAssumption DEF IInv, TypeOK, PrepType
<1>4. Shape'
  BY <1>1, <1>2 DEF IInv, Shape
<1>5. Safe'
  BY <1>1, TurnOK DEF IInv, TypeOK
<1> QED BY <1>3, <1>4, <1>5 DEF IInv

LEMMA ReplaceOK ==
  ASSUME IInv, Replace PROVE IInv'
<1> USE DEF Replace, world, moverVars, prepVars, logVars, cleanVars
<1>1. Idle \in PrepType /\ Idle.at = "off"
  BY DEF PrepType, Idle, Files
<1>2. prep' \in [Runs -> PrepType] /\ \A s \in Runs : prep'[s] = Idle
  BY <1>1
<1>3. TypeOK'
  <2>1. faults' \in 0..MaxFaults /\ killed' \in BOOLEAN
    BY LogLifecycleAssumption DEF IInv, TypeOK
  <2>2. cleaner' \in [at : {"off", "on", "sure"}, todo : SUBSET Items, item : Items \cup {<<>>}]
    BY DEF Asleep
  <2>3. reading' \in [Uploads -> {"no", "reading", "closed", "read", "forgotten"}]
    BY DEF IInv, TypeOK
  <2> QED BY <1>2, <2>1, <2>2, <2>3 DEF IInv, TypeOK, PrepType
<1>4. Shape'
  BY <1>1, <1>2 DEF Shape, Asleep
<1>5. NotYet' /\ Apart' /\ Stamped' /\ MoverReady' /\ NothingIsOverwritten'
  BY DEF IInv, Safe, NotYet, Apart, Stamped, MoverReady, NothingIsOverwritten, Stored
<1>6. TakenReady' /\ OnePreparer'
  BY <1>1, <1>2 DEF TakenReady, OnePreparer, Busy
<1> QED BY <1>3, <1>4, <1>5, <1>6 DEF IInv, Safe

-----------------------------------------------------------------------------
LEMMA StutterOK == ASSUME IInv, UNCHANGED vars PROVE IInv'
<1> USE DEF vars, world, moverVars, prepVars, logVars, cleanVars
<1>1. TypeOK' /\ Shape'
  BY DEF IInv, TypeOK, Shape
<1>2. Safe'
  BY SafeKept DEF IInv, SafeVars
<1> QED BY <1>1, <1>2 DEF IInv

\* In every reachable state: the types, what the watcher and the preparer
\* have looked at is still so when they act on it, and every upload is in one
\* place.
THEOREM Invariant == Spec => []IInv
<1>1. Init => IInv
  BY InitOK
<1>2. IInv /\ [Next]_vars => IInv'
  <2> SUFFICES ASSUME IInv, [Next]_vars PROVE IInv'
    OBVIOUS
  <2>1. CASE Users
    BY <2>1, UploadOK, AgeOK DEF Users
  <2>2. CASE Watcher
    BY <2>2, LookOK, RejectOK, MoveOK DEF Watcher
  <2>3. CASE Preparer
    <3>1. PICK r \in Runs : Start(r) \/ Refused(r) \/ PreparerStep(r)
      BY <2>3 DEF Preparer
    <3> QED
      BY <3>1, StartOK, RefusedOK, TakeOK, MoveInOK, LaterStepsOK DEF PreparerStep
  <2>4. CASE Wake \/ CleanerStep
    BY <2>4, CleanerOK
  <2>5. CASE Filebeat
    BY <2>5, FilebeatOK
  <2>6. CASE Faults
    BY <2>6, KillOK, ReplaceOK DEF Faults
  <2>7. CASE UNCHANGED vars
    BY <2>7, StutterOK
  <2> QED BY <2>1, <2>2, <2>3, <2>4, <2>5, <2>6, <2>7 DEF Next
<1> QED BY <1>1, <1>2, PTL DEF Spec

\* Every variable keeps to its type, whatever is uploaded and whoever dies.
THEOREM Types == Spec => []TypeOK
<1>1. IInv => TypeOK
  BY DEF IInv
<1> QED BY <1>1, Invariant, PTL

\* However many processes cron starts, one prepares files at a time, and
\* none takes the lock away from it.
THEOREM OneAtATime == Spec => []OnePreparer
<1>1. IInv => OnePreparer
  BY DEF IInv, Safe
<1> QED BY <1>1, Invariant, PTL

\* No upload is overwritten, however many have one name.
THEOREM NoneIsOverwritten == Spec => []NothingIsOverwritten
<1>1. IInv => NothingIsOverwritten
  BY DEF IInv, Safe
<1> QED BY <1>1, Invariant, PTL

-----------------------------------------------------------------------------
(* What filebeat is given.  Behind(u): u has left the directories from     *)
(* which it is taken, so no process can get it in hand again.              *)

Behind(u) == (\A n \in Names : upload[n] # u) /\ (\A p \in Paths : zeek[p] # u)

Past ==
  \A u \in Uploads : log[u] # "none" \/ u \in links => Behind(u) /\ kind[u] # "none"

Hand ==
  \A r \in Runs :
    /\ prep[r].at \in {"moved", "extracting", "extracted"} =>
         Behind(prep[r].file) /\ prep[r].file \notin links /\ kind[prep[r].file] # "none"
    /\ prep[r].at = "extracted" =>
         /\ log[prep[r].file] # "none"
         /\ log[prep[r].file] = "part" => kind[prep[r].file] = "torn"
    /\ prep[r].at \in {"off", "listed"} => prep[r].file = None

Aged ==
  \A u \in Uploads : LogOf(u) \in old =>
    ~InHand(u) /\ log[u] # "none" /\ (u \in links => reading[u] # "no")

\* What the cleaner has decided on: nobody will link it any more.
Doomed ==
  \A u \in Uploads :
    LogOf(u) \in cleaner.todo \/ (cleaner.at = "sure" /\ cleaner.item = LogOf(u)) =>
      ~InHand(u) /\ Behind(u) /\ kind[u] # "none" /\ (u \in links => reading[u] = "forgotten")

PartsAreTorn == \A u \in links : log[u] = "part" => kind[u] = "torn"

FirstRead == \A u \in links : log[u] = "none" => reading[u] \in {"read", "forgotten"}

Given == Past /\ Hand /\ Aged /\ Doomed /\ PartsAreTorn /\ FirstRead

LEMMA GivenInit == Init => Given
BY DEF Init, Given, Past, Hand, Aged, Doomed, PartsAreTorn, FirstRead, Idle, Asleep

\* What comes has no log yet.
LEMMA UploadGiven ==
  ASSUME IInv, Given, NEW u \in Uploads, NEW n \in Names, Upload(u, n)
  PROVE  Given'
<1> USE DEF Upload, world, moverVars, prepVars, logVars, cleanVars
<1>1. PICK k \in Kinds : kind' = [kind EXCEPT ![u] = k]
  OBVIOUS
<1>2. /\ kind \in [Uploads -> Kinds \cup {"none"}] /\ upload \in [Names -> Files]
      /\ kind[u] = "none" /\ \A r \in Runs : prep[r].at \in
           {"off", "listed", "taken", "moved", "extracting", "extracted"}
  BY DEF IInv, TypeOK
<1>3. \A v \in Uploads : kind[v] # "none" => v # u /\ kind'[v] = kind[v]
  BY <1>1, <1>2
<1>4. \A v \in Uploads : kind[v] # "none" /\ Behind(v) => kind'[v] # "none" /\ Behind(v)'
  BY <1>2, <1>3 DEF Behind
<1>5. \A v : InHand(v)' <=> InHand(v)
  BY DEF InHand
<1>6. \A v \in Uploads : LogOf(v) \in old' => LogOf(v) \in old
  BY DEF LogOf, Original
<1>7. Past'
  BY <1>4 DEF Given, Past
<1>8. Hand'
  BY <1>3, <1>4 DEF Given, Hand, IInv, Shape
<1>9. Aged' /\ Doomed'
  BY <1>4, <1>5, <1>6 DEF Given, Aged, Doomed
<1>10. PartsAreTorn' /\ FirstRead'
  <2>1. \A v \in links : kind'[v] = kind[v]
    BY <1>3 DEF Given, Past, IInv, TypeOK
  <2> QED BY <2>1 DEF Given, PartsAreTorn, FirstRead
<1> QED BY <1>7, <1>8, <1>9, <1>10 DEF Given

\* A log gets old only when filebeat has opened it, or nobody ever will.
LEMMA AgeGiven ==
  ASSUME IInv, Given, NEW u \in Uploads, OriginalAges(u) \/ LogAges(u)
  PROVE  Given'
<1> USE DEF OriginalAges, LogAges, world, moverVars, prepVars, logVars, cleanVars
<1>1. Past' /\ Hand' /\ Doomed' /\ PartsAreTorn' /\ FirstRead'
  BY DEF Given, Past, Hand, Doomed, PartsAreTorn, FirstRead, Behind, InHand
<1>2. Aged'
  BY DEF Given, Aged, InHand, LogOf, Original
<1> QED BY <1>1, <1>2 DEF Given

LEMMA WatcherGiven ==
  ASSUME IInv, Given, Watcher PROVE Given'
<1> USE DEF world, moverVars, prepVars, logVars, cleanVars
<1>1. UNCHANGED <<kind, prep, log, links, old, reading, cleaner>>
  BY DEF Watcher, Look, Reject, Move
<1>2. \A u \in Uploads : Behind(u) => Behind(u)'
  <2> SUFFICES ASSUME NEW u \in Uploads, Behind(u) PROVE Behind(u)'
    OBVIOUS
  <2>1. CASE \E n \in Names : Look(n)
    BY <2>1 DEF Look, Behind
  <2>2. CASE \E n \in Names : Reject(n)
    BY <2>2, LogLifecycleAssumption DEF Reject, Behind, IInv, TypeOK
  <2>3. CASE Move
    <3>1. PICK n \in Names, t \in Paths : mover = <<n, t>>
      BY <2>3 DEF Move, IInv, TypeOK
    <3> QED BY <2>3, <3>1, LogLifecycleAssumption DEF Move, Behind, IInv, TypeOK
  <2> QED BY <2>1, <2>2, <2>3 DEF Watcher
<1>3. Past' /\ Aged' /\ PartsAreTorn' /\ FirstRead'
  BY <1>1, <1>2 DEF Given, Past, Aged, PartsAreTorn, FirstRead, InHand
<1>4. Hand'
  BY <1>1, <1>2 DEF Given, Hand, IInv, Shape
<1>5. Doomed'
  BY <1>1, <1>2 DEF Given, Doomed, InHand
<1> QED BY <1>3, <1>4, <1>5 DEF Given

\* A process that ends, or takes the next file, or drops the one it has.
LEMMA NextFileGiven ==
  ASSUME IInv, Given, NEW r \in Runs, NEW q, prep' = [prep EXCEPT ![r] = q],
         \/ q.at \in {"off", "listed"} /\ q.file = None
         \/ q.at = "taken" /\ q.file \in Uploads /\ ~Behind(q.file),
         UNCHANGED <<kind, upload, zeek, log, links, old, reading, cleaner>>
  PROVE  Given'
<1>1. \A s \in Runs : prep'[s] = IF s = r THEN q ELSE prep[s]
  BY DEF IInv, TypeOK
<1>2. \A u : Behind(u)' <=> Behind(u)
  BY DEF Behind
<1>3. \A u \in Uploads : InHand(u)' => InHand(u) \/ ~Behind(u)
  BY <1>1, LogLifecycleAssumption DEF InHand
<1>4. Past' /\ PartsAreTorn' /\ FirstRead'
  BY <1>2 DEF Given, Past, PartsAreTorn, FirstRead
<1>5. Hand'
  BY <1>1, <1>2 DEF Given, Hand
<1>6. Aged'
  BY <1>3 DEF Given, Aged, Past
<1>7. Doomed'
  BY <1>2, <1>3 DEF Given, Doomed
<1> QED BY <1>4, <1>5, <1>6, <1>7 DEF Given

\* A process that goes on with the archive or event log it has moved.
LEMMA ExtractGiven ==
  ASSUME IInv, Given, NEW r \in Runs, prep[r].at \in {"moved", "extracting"},
         NEW q, NEW x, prep' = [prep EXCEPT ![r] = q], log' = [log EXCEPT ![prep[r].file] = x],
         \/ q.at = "listed" /\ q.file = None
         \/ q.at = "extracting" /\ q.file = prep[r].file
         \/ q.at = "extracted" /\ q.file = prep[r].file /\ x # "none"
            /\ (x = "part" => kind[prep[r].file] = "torn"),
         UNCHANGED <<kind, upload, zeek, links, old, reading, cleaner>>
  PROVE  Given'
<1> DEFINE f == prep[r].file
<1>1. \A s \in Runs : prep'[s] = IF s = r THEN q ELSE prep[s]
  BY DEF IInv, TypeOK
<1>2. \A u : Behind(u)' <=> Behind(u)
  BY DEF Behind
<1>3. f \in Uploads /\ Behind(f) /\ f \notin links /\ kind[f] # "none"
  BY DEF IInv, Shape, Given, Hand
<1>4. InHand(f)
  BY DEF InHand
<1>5. \A u \in Uploads : log'[u] = IF u = f THEN x ELSE log[u]
  BY <1>3 DEF IInv, TypeOK
<1>6. \A u \in Uploads : InHand(u)' => InHand(u)
  BY <1>1, LogLifecycleAssumption DEF InHand
<1> HIDE DEF f
<1>7. Past'
  BY <1>2, <1>3, <1>5 DEF Given, Past
<1>8. PartsAreTorn' /\ FirstRead'
  BY <1>3, <1>5 DEF Given, PartsAreTorn, FirstRead, IInv, TypeOK
<1>9. Aged'
  BY <1>4, <1>5, <1>6 DEF Given, Aged
<1>10. Doomed'
  BY <1>2, <1>6 DEF Given, Doomed
<1>11. Hand'
  <2>1. \A s \in Runs : s # r => prep[s].at = "off"
    BY DEF IInv, Safe, OnePreparer, Busy
  <2>2. q.at \in {"extracting", "extracted"} => q.file = f
    BY DEF f
  <2> QED BY <1>1, <1>2, <1>3, <1>5, <2>1, <2>2 DEF Given, Hand
<1> QED BY <1>7, <1>8, <1>9, <1>10, <1>11 DEF Given

\* A file that was just moved in has no log and no link.
LEMMA MoveInGiven ==
  ASSUME IInv, Given, NEW r \in Runs, MoveIn(r) PROVE Given'
<1> USE DEF MoveIn, Turned, world, moverVars, prepVars, logVars, cleanVars
<1> DEFINE f == prep[r].file
           a == prep[r].from
<1>1. prep \in [Runs -> PrepType] /\ zeek \in [Paths -> Files]
  BY DEF IInv, TypeOK, PrepType
<1>2. f \in Uploads /\ a \in Paths /\ zeek[a] = f /\ f # None
  BY LogLifecycleAssumption DEF IInv, Shape, Safe, TakenReady
<1>3. \A s \in Runs : /\ prep'[s].file = prep[s].file
                      /\ prep'[s].at = IF s = r THEN "moved" ELSE prep[s].at
  BY <1>1 DEF PrepType
<1>4. \A p \in Paths : zeek'[p] = IF p = a THEN None ELSE zeek[p]
  BY <1>1
<1>5. UNCHANGED <<kind, upload, log, links, old, reading, cleaner>>
  OBVIOUS
<1> HIDE DEF f, a
<1>6. \A u \in Uploads : Behind(u) => Behind(u)'
  BY <1>4, <1>5, LogLifecycleAssumption DEF Behind
<1>7. \A u : InHand(u)' <=> InHand(u)
  BY <1>3 DEF InHand
<1>8. Behind(f)' /\ f \notin links /\ kind[f] # "none"
  <2>1. (\A n \in Names : upload'[n] # f) /\ (\A p \in Paths : zeek'[p] # f)
    BY <1>2, <1>4, <1>5 DEF IInv, Safe, Apart
  <2>2. f \notin links
    BY <1>2 DEF Given, Past, Behind
  <2>3. kind[f] # "none"
    BY <1>2 DEF IInv, Safe, NotYet
  <2>4. f' = f
    BY <1>3 DEF f
  <2> QED BY <2>1, <2>2, <2>3, <2>4 DEF Behind
<1>9. Past' /\ PartsAreTorn' /\ FirstRead'
  BY <1>5, <1>6 DEF Given, Past, PartsAreTorn, FirstRead
<1>10. Aged' /\ Doomed'
  BY <1>5, <1>6, <1>7 DEF Given, Aged, Doomed
<1>11. Hand'
  <2>1. \A s \in Runs : s # r => prep[s].at = "off"
    BY DEF IInv, Safe, OnePreparer, Busy
  <2> QED BY <1>3, <1>5, <1>8, <2>1 DEF Given, Hand, f
<1> QED BY <1>9, <1>10, <1>11 DEF Given

\* A log is linked when nobody writes it any more, and is young again.
LEMMA LinkGiven ==
  ASSUME IInv, Given, NEW r \in Runs, Link(r) PROVE Given'
<1> USE DEF Link, world, moverVars, prepVars, logVars, cleanVars
<1> DEFINE f == prep[r].file
           q == Empty(prep[r].todo)
<1>1. /\ f \in Uploads /\ Behind(f) /\ kind[f] # "none" /\ log[f] # "none"
      /\ log[f] = "part" => kind[f] = "torn"
      /\ f # None /\ InHand(f)
  BY LogLifecycleAssumption DEF IInv, Shape, Given, Hand, InHand
<1>2. q.at = "listed" /\ q.file = None
  BY DEF Empty, Idle
<1>3. prep' = [prep EXCEPT ![r] = q]
  BY DEF Dropped, Empty
<1> HIDE DEF q
<1>4. \A s \in Runs : prep'[s] = IF s = r THEN q ELSE prep[s]
  BY <1>3 DEF IInv, TypeOK
<1>5. /\ UNCHANGED <<kind, upload, zeek, log, reading, cleaner>>
      /\ links' = links \cup {f} /\ old' = old \ {LogOf(f)}
  OBVIOUS
<1> HIDE DEF f
<1>6. \A u : Behind(u)' <=> Behind(u)
  BY <1>5 DEF Behind
<1>7. \A u \in Uploads : InHand(u)' => InHand(u)
  BY <1>2, <1>4, LogLifecycleAssumption DEF InHand
<1>8. Past' /\ PartsAreTorn' /\ FirstRead'
  BY <1>1, <1>5, <1>6 DEF Given, Past, PartsAreTorn, FirstRead
<1>9. Aged'
  BY <1>1, <1>5, <1>7 DEF Given, Aged, LogOf
<1>10. Doomed'
  BY <1>1, <1>5, <1>6, <1>7 DEF Given, Doomed
<1>11. Hand'
  <2>1. \A s \in Runs : s # r => prep[s].at = "off"
    BY DEF IInv, Safe, OnePreparer, Busy
  <2> QED BY <1>2, <1>4, <2>1 DEF Given, Hand
<1> QED BY <1>8, <1>9, <1>10, <1>11 DEF Given

LEMMA PreparerGiven ==
  ASSUME IInv, Given, NEW r \in Runs, Start(r) \/ Refused(r) \/ PreparerStep(r)
  PROVE  Given'
<1> USE DEF world, moverVars, prepVars, logVars, cleanVars
<1>1. CASE Start(r)
  <2> DEFINE q == [Idle EXCEPT !.at = "listed", !.todo = {p \in Paths : zeek[p] # None}]
  <2>1. q.at = "listed" /\ q.file = None
    BY DEF Idle
  <2>2. prep' = [prep EXCEPT ![r] = q]
    BY <1>1 DEF Start
  <2> HIDE DEF q
  <2> QED BY <1>1, <2>1, <2>2, NextFileGiven DEF Start
<1>2. CASE Refused(r)
  BY <1>2 DEF Refused, Given, Past, Hand, Aged, Doomed, PartsAreTorn, FirstRead,
              Behind, InHand
<1>3. CASE Take(r)
  <2>1. PICK p \in prep[r].todo : prep' = [prep EXCEPT ![r] =
          IF zeek[p] = None THEN [prep[r] EXCEPT !.todo = @ \ {p}]
          ELSE [at |-> "taken", todo |-> prep[r].todo \ {p}, from |-> p,
                to |-> Place(p, zeek[p]), file |-> zeek[p]]]
    BY <1>3 DEF Take
  <2>2. /\ p \in Paths /\ prep[r] \in PrepType /\ prep[r].at = "listed"
        /\ prep[r].file = None /\ zeek[p] \in Files
    BY <1>3 DEF Take, Given, Hand, IInv, TypeOK, PrepType
  <2>3. CASE zeek[p] = None
    <3> DEFINE q == [prep[r] EXCEPT !.todo = @ \ {p}]
    <3>1. q.at = "listed" /\ q.file = None /\ prep' = [prep EXCEPT ![r] = q]
      BY <2>1, <2>2, <2>3 DEF PrepType
    <3> HIDE DEF q
    <3> QED BY <1>3, <3>1, NextFileGiven DEF Take
  <2>4. CASE zeek[p] # None
    <3> DEFINE q == [at |-> "taken", todo |-> prep[r].todo \ {p}, from |-> p,
                     to |-> Place(p, zeek[p]), file |-> zeek[p]]
    <3>1. q.at = "taken" /\ q.file = zeek[p] /\ prep' = [prep EXCEPT ![r] = q]
      BY <2>1, <2>4
    <3>2. zeek[p] \in Uploads /\ ~Behind(zeek[p])
      BY <2>2, <2>4 DEF Files, Behind
    <3> HIDE DEF q
    <3> QED BY <1>3, <3>1, <3>2, NextFileGiven DEF Take
  <2> QED BY <2>3, <2>4
<1>4. CASE \/ Open(r) \/ Extracted(r) \/ ExtractionFails(r) \/ ConversionStops(r)
           \/ NothingToConvert(r) \/ Finish(r)
  <2> DEFINE T == prep[r].todo
  <2>1. /\ Empty(T).at = "listed" /\ Empty(T).file = None
        /\ Idle.at = "off" /\ Idle.file = None
        /\ Dropped(r) = [prep EXCEPT ![r] = Empty(T)]
    BY DEF Empty, Idle, Dropped
  <2>2. \A at \in {"extracting", "extracted"} :
          \E q : q.at = at /\ q.file = prep[r].file /\ Turned(r, at) = [prep EXCEPT ![r] = q]
    <3> SUFFICES ASSUME NEW at \in {"extracting", "extracted"}
                 PROVE \E q : q.at = at /\ q.file = prep[r].file /\ Turned(r, at) = [prep EXCEPT ![r] = q]
      OBVIOUS
    <3> DEFINE q == [prep[r] EXCEPT !.at = at]
    <3>1. q.at = at /\ q.file = prep[r].file
      BY DEF IInv, TypeOK
    <3>2. Turned(r, at) = [prep EXCEPT ![r] = q]
      BY DEF Turned, IInv, TypeOK
    <3> QED BY <3>1, <3>2
  <2> HIDE DEF T
  <2>3. CASE Finish(r)
    BY <2>1, <2>3, NextFileGiven DEF Finish
  <2>4. CASE prep' = Dropped(r) /\ UNCHANGED <<log, kind, upload, zeek, links, old, reading, cleaner>>
    BY <2>1, <2>4, NextFileGiven
  <2>5. CASE Extracted(r)
    BY <2>2, <2>5, ExtractGiven DEF Extracted
  <2>6. CASE ExtractionFails(r)
    BY <2>1, <2>6, ExtractGiven DEF ExtractionFails, Failed
  <2>7. CASE Open(r) /\ log' = [log EXCEPT ![prep[r].file] = "part"] /\ prep' = Turned(r, "extracting")
    BY <2>2, <2>7, ExtractGiven DEF Open
  <2>8. CASE /\ NothingToConvert(r) /\ prep' = Turned(r, "extracted")
             /\ log' = [log EXCEPT ![prep[r].file] = "empty"]
    BY <2>2, <2>8, ExtractGiven DEF NothingToConvert
  <2>9. CASE ConversionStops(r)
    <3>1. PICK x \in {"part", "empty"} : log' = [log EXCEPT ![prep[r].file] = x]
      BY <2>9 DEF ConversionStops
    <3>2. PICK q : /\ q.at = "extracted" /\ q.file = prep[r].file
                   /\ prep' = [prep EXCEPT ![r] = q]
      BY <2>2, <2>9 DEF ConversionStops
    <3>3. /\ prep[r].at = "extracting" /\ kind[prep[r].file] = "torn"
          /\ UNCHANGED <<kind, upload, zeek, links, old, reading, cleaner>>
      BY <2>9 DEF ConversionStops
    <3> QED BY <3>1, <3>2, <3>3, ExtractGiven
  <2> QED BY <1>4, <2>3, <2>4, <2>5, <2>6, <2>7, <2>8, <2>9 DEF Open, NothingToConvert
<1> QED BY <1>1, <1>2, <1>3, <1>4, MoveInGiven, LinkGiven DEF PreparerStep

\* What is old and not in the registry has been read and forgotten.
LEMMA CleanerGiven ==
  ASSUME IInv, Given, Wake \/ CleanerStep PROVE Given'
<1> USE DEF world, moverVars, prepVars, logVars, cleanVars
<1>1. cleaner \in [at : {"off", "on", "sure"}, todo : SUBSET Items, item : Items \cup {<<>>}]
  BY DEF IInv, TypeOK
<1>2. \A u \in Uploads : <<>> # LogOf(u) /\ LogOf(u)[1] = "log" /\ LogOf(u)[2] = u
  BY DEF LogOf
<1>3. CASE Wake
  <2>1. UNCHANGED <<kind, upload, zeek, prep, log, links, old, reading>>
    BY <1>3 DEF Wake
  <2>2. Past' /\ Hand' /\ Aged' /\ PartsAreTorn' /\ FirstRead'
    BY <2>1 DEF Given, Past, Hand, Aged, PartsAreTorn, FirstRead, Behind, InHand
  <2>3. cleaner'.at = "on" /\ cleaner'.todo = Candidates
    BY <1>3 DEF Wake
  <2>4. \A u \in Uploads : LogOf(u) \in Candidates =>
          /\ ~InHand(u) /\ log[u] # "none" /\ Behind(u) /\ kind[u] # "none"
          /\ u \in links => reading[u] = "forgotten"
    BY <1>2 DEF Candidates, Registry, Given, Aged, Past, IInv, TypeOK
  <2>5. Doomed'
    BY <2>1, <2>3, <2>4 DEF Doomed, Behind, InHand
  <2> QED BY <2>2, <2>5 DEF Given
<1>4. CASE Check
  <2>1. UNCHANGED <<kind, upload, zeek, prep, log, links, old, reading>>
    BY <1>4 DEF Check
  <2>2. Past' /\ Hand' /\ Aged' /\ PartsAreTorn' /\ FirstRead'
    BY <2>1 DEF Given, Past, Hand, Aged, PartsAreTorn, FirstRead, Behind, InHand
  <2>3. PICK i \in cleaner.todo :
          cleaner'.todo = cleaner.todo \ {i} /\ cleaner'.item \in {i, <<>>}
    BY <1>4 DEF Check
  <2>4. \A u \in Uploads :
          LogOf(u) \in cleaner'.todo \/ cleaner'.item = LogOf(u) => LogOf(u) \in cleaner.todo
    BY <1>2, <2>3
  <2>5. Doomed'
    BY <2>1, <2>4 DEF Given, Doomed, Behind, InHand
  <2> QED BY <2>2, <2>5 DEF Given
<1>5. CASE RemoveLog
  <2> DEFINE v == cleaner.item[2]
  <2>1. v \in Uploads /\ cleaner.item = LogOf(v)
    BY <1>5 DEF RemoveLog, IInv, Shape, Items, LogOf
  <2>2. /\ ~InHand(v) /\ (v \in links => reading[v] = "forgotten")
    BY <1>5, <2>1 DEF RemoveLog, Given, Doomed
  <2>3. /\ UNCHANGED <<kind, upload, zeek, prep, links, reading>>
        /\ \A u \in Uploads : log'[u] = IF u = v THEN "none" ELSE log[u]
        /\ old' = old \ {LogOf(v)}
        /\ cleaner'.at = "on" /\ cleaner'.todo = cleaner.todo
    BY <1>1, <1>5, <2>1 DEF RemoveLog, IInv, TypeOK
  <2> HIDE DEF v
  <2>4. Past' /\ Aged' /\ Doomed'
    BY <2>3 DEF Given, Past, Aged, Doomed, Behind, InHand
  <2>5. PartsAreTorn' /\ FirstRead'
    BY <2>2, <2>3 DEF Given, PartsAreTorn, FirstRead, IInv, TypeOK
  <2>6. Hand'
    BY <2>2, <2>3 DEF Given, Hand, IInv, Shape, Behind, InHand
  <2> QED BY <2>4, <2>5, <2>6 DEF Given
<1>6. CASE RemoveOriginal
  <2>1. /\ UNCHANGED <<kind, upload, zeek, prep, log, links, reading>>
        /\ old' \subseteq old /\ cleaner'.at = "on" /\ cleaner'.todo = cleaner.todo
    BY <1>1, <1>6 DEF RemoveOriginal
  <2> QED
    BY <2>1 DEF Given, Past, Hand, Aged, Doomed, PartsAreTorn, FirstRead, Behind, InHand
<1>7. CASE Tidy
  <2>1. /\ UNCHANGED <<kind, upload, zeek, prep, log, old, reading>>
        /\ links' \subseteq links /\ cleaner'.at = "off" /\ cleaner'.todo = {}
    BY <1>7 DEF Tidy, Alive, Asleep
  <2> QED
    BY <2>1 DEF Given, Past, Hand, Aged, Doomed, PartsAreTorn, FirstRead, Behind, InHand
<1> QED BY <1>3, <1>4, <1>5, <1>6, <1>7 DEF CleanerStep

LEMMA FilebeatGiven ==
  ASSUME IInv, Given, Filebeat PROVE Given'
<1> USE DEF world, moverVars, prepVars, logVars, cleanVars
<1>1. PICK v \in Uploads : PickUp(v) \/ CloseEarly(v) \/ ReadAll(v) \/ Forget(v)
  BY DEF Filebeat
<1>2. UNCHANGED <<kind, upload, zeek, prep, log, links, old, cleaner>>
  BY <1>1 DEF PickUp, CloseEarly, ReadAll, Forget
<1>3. \A u \in Uploads :
        \/ reading'[u] = reading[u]
        \/ /\ reading[u] # "forgotten" /\ reading'[u] # "no"
           /\ reading[u] = "read" => reading'[u] = "forgotten"
  BY <1>1 DEF PickUp, CloseEarly, ReadAll, Forget, IInv, TypeOK
<1>4. Past' /\ Hand' /\ PartsAreTorn'
  BY <1>2 DEF Given, Past, Hand, PartsAreTorn, Behind
<1>5. Aged' /\ Doomed' /\ FirstRead'
  BY <1>2, <1>3 DEF Given, Aged, Doomed, FirstRead, Behind, InHand, IInv, TypeOK
<1> QED BY <1>4, <1>5 DEF Given

LEMMA FaultsGiven ==
  ASSUME IInv, Given, Faults PROVE Given'
<1> USE DEF world, moverVars, prepVars, logVars, cleanVars
<1>1. Idle.at = "off" /\ Idle.file = None
  BY DEF Idle
<1>2. CASE \E r \in Runs : Kill(r)
  BY <1>1, <1>2, NextFileGiven DEF Kill
<1>3. CASE Replace
  <2>1. /\ UNCHANGED <<kind, upload, zeek, log, links, old>>
        /\ \A r \in Runs : prep'[r] = Idle
        /\ \A u \in Uploads : /\ reading'[u] = "no" <=> reading[u] = "no"
                              /\ reading[u] # "reading" => reading'[u] = reading[u]
        /\ cleaner'.at = "off" /\ cleaner'.todo = {}
    BY <1>3 DEF Replace, Asleep, IInv, TypeOK
  <2>2. \A u \in Uploads : ~InHand(u)'
    BY <1>1, <2>1, LogLifecycleAssumption DEF InHand
  <2>3. Past' /\ Hand' /\ PartsAreTorn'
    BY <1>1, <2>1 DEF Given, Past, Hand, PartsAreTorn, Behind
  <2>4. Aged' /\ Doomed' /\ FirstRead'
    BY <2>1, <2>2 DEF Given, Aged, Doomed, FirstRead, IInv, TypeOK
  <2> QED BY <2>3, <2>4 DEF Given
<1> QED BY <1>2, <1>3 DEF Faults

\* In every reachable state: only what the preparer has finished is linked,
\* and a log the cleaner has chosen is one that nobody will read any more.
THEOREM GivenInvariant == Spec => [](IInv /\ Given)
<1>1. Init => Given
  BY GivenInit
<1>2. IInv /\ Given /\ [Next]_vars => Given'
  <2> SUFFICES ASSUME IInv, Given, [Next]_vars PROVE Given'
    OBVIOUS
  <2>1. CASE Users
    BY <2>1, UploadGiven, AgeGiven DEF Users
  <2>2. CASE Watcher
    BY <2>2, WatcherGiven
  <2>3. CASE Preparer
    BY <2>3, PreparerGiven DEF Preparer
  <2>4. CASE Wake \/ CleanerStep
    BY <2>4, CleanerGiven
  <2>5. CASE Filebeat
    BY <2>5, FilebeatGiven
  <2>6. CASE Faults
    BY <2>6, FaultsGiven
  <2>7. CASE UNCHANGED vars
    BY <2>7 DEF vars, world, moverVars, prepVars, logVars, cleanVars, Given, Past, Hand,
                Aged, Doomed, PartsAreTorn, FirstRead, Behind, InHand
  <2> QED BY <2>1, <2>2, <2>3, <2>4, <2>5, <2>6, <2>7 DEF Next
<1> QED BY <1>1, <1>2, Invariant, PTL DEF Spec

\* Nothing that is still being written is linked, and no part of an extraction that
\* failed or was broken off, but for what a conversion of an event log left.
THEOREM NoPartIsGiven == Spec => []NoPartIsLinked
<1>1. Given => NoPartIsLinked
  BY DEF Given, Hand, PartsAreTorn, NoPartIsLinked
<1> QED BY <1>1, GivenInvariant, PTL

-----------------------------------------------------------------------------
(* That nothing is lost on the way from upload/ to filebeat, which needs   *)
(* the cleaner to leave an archive alone that is not old and has yet to be *)
(* extracted.                                                              *)

\* What nobody has in hand, and nobody can get in hand again.
Away(u) == Behind(u) /\ ~InHand(u) /\ kind[u] # "none"

\* The archive of u is old, or the cleaner has chosen it.
Marked(u) ==
  \/ Original(u) \in old \/ Original(u) \in cleaner.todo
  \/ cleaner.at = "sure" /\ cleaner.item = Original(u)

Young == \A u \in Uploads : u \notin stale /\ Marked(u) => Away(u)

\* What the preparer works on is there, unless it came too old.
Ready ==
  \A r \in Runs :
    prep[r].file \notin stale =>
      /\ prep[r].at \in {"moved", "extracting"} => Stored(prep[r].file)
      /\ prep[r].at = "extracted" /\ kind[prep[r].file] # "torn" => log[prep[r].file] = "whole"

Due(u) == kind[u] \in {"archive", "evtx"} /\ u \notin stale
Well(u) == UnderWay(u) \/ reading[u] \in {"read", "forgotten"}
AllWell == ~killed => \A u \in Uploads : Due(u) => Well(u)

Road == Young /\ Ready /\ AllWell

LEMMA RoadInit == Init => Road
<1> SUFFICES ASSUME Init PROVE Road
  OBVIOUS
<1>1. Young
  BY DEF Init, Young, Marked, Asleep
<1>2. Ready
  BY DEF Init, Ready, Idle
<1>3. AllWell
  BY DEF Init, AllWell, Due
<1> QED BY <1>1, <1>2, <1>3 DEF Road

\* A step of the preparer takes in hand only what was in the volume's own
\* directory, and puts nothing there.
LEMMA PreparerHands ==
  ASSUME IInv, Given, NEW r \in Runs, Start(r) \/ Refused(r) \/ PreparerStep(r)
  PROVE  /\ UNCHANGED <<kind, stale, killed, upload, reading, cleaner>>
         /\ \A p \in Paths : zeek'[p] \in {zeek[p], None}
         /\ \A u \in Uploads : InHand(u)' => InHand(u) \/ ~Behind(u)
<1> USE DEF world, moverVars, prepVars, logVars, cleanVars
<1>1. /\ prep \in [Runs -> PrepType] /\ prep[r] \in PrepType /\ zeek \in [Paths -> Files]
      /\ None \notin Uploads
  BY LogLifecycleAssumption DEF IInv, TypeOK, PrepType
<1>2. UNCHANGED <<kind, stale, killed, upload, reading, cleaner>>
  BY DEF Start, Refused, PreparerStep, Take, MoveIn, Open, Extracted, ExtractionFails, ConversionStops, NothingToConvert,
         Link, Finish
<1>3. \A p \in Paths : zeek'[p] \in {zeek[p], None}
  <2>1. CASE MoveIn(r)
    BY <1>1, <2>1 DEF MoveIn
  <2>2. CASE ~MoveIn(r)
    BY <2>2 DEF Start, Refused, PreparerStep, Take, Open, Extracted, ExtractionFails, ConversionStops, NothingToConvert,
                Link, Finish
  <2> QED BY <2>1, <2>2
<1>4. ASSUME NEW q, prep' = [prep EXCEPT ![r] = q],
             q.file \notin Uploads \/ q.file = prep[r].file \/ ~Behind(q.file)
      PROVE  \A u \in Uploads : InHand(u)' => InHand(u) \/ ~Behind(u)
  BY <1>1, <1>4 DEF InHand
<1>5. /\ Idle.file = None /\ \A T : Empty(T).file = None
      /\ Dropped(r) = [prep EXCEPT ![r] = Empty(prep[r].todo)]
  BY DEF Idle, Empty, Dropped
<1>6. CASE Start(r)
  <2>1. PICK T : prep' = [prep EXCEPT ![r] = Empty(T)]
    BY <1>6 DEF Start, Empty
  <2> QED BY <1>1, <1>2, <1>3, <1>4, <1>5, <2>1
<1>7. CASE Refused(r)
  BY <1>2, <1>3, <1>7 DEF Refused, InHand
<1>8. CASE Take(r)
  <2>1. PICK p \in prep[r].todo : prep' = [prep EXCEPT ![r] =
          IF zeek[p] = None THEN [prep[r] EXCEPT !.todo = @ \ {p}]
          ELSE [at |-> "taken", todo |-> prep[r].todo \ {p}, from |-> p,
                to |-> Place(p, zeek[p]), file |-> zeek[p]]]
    BY <1>8 DEF Take
  <2>2. p \in Paths
    BY <1>1 DEF PrepType
  <2>3. CASE zeek[p] = None
    <3> DEFINE q == [prep[r] EXCEPT !.todo = @ \ {p}]
    <3>1. q.file = prep[r].file /\ prep' = [prep EXCEPT ![r] = q]
      BY <1>1, <2>1, <2>3 DEF PrepType
    <3> HIDE DEF q
    <3> QED BY <1>2, <1>3, <1>4, <3>1
  <2>4. CASE zeek[p] # None
    <3> DEFINE q == [at |-> "taken", todo |-> prep[r].todo \ {p}, from |-> p,
                     to |-> Place(p, zeek[p]), file |-> zeek[p]]
    <3>1. q.file = zeek[p] /\ prep' = [prep EXCEPT ![r] = q]
      BY <2>1, <2>4
    <3>2. ~Behind(zeek[p])
      BY <2>2 DEF Behind
    <3> HIDE DEF q
    <3> QED BY <1>2, <1>3, <1>4, <3>1, <3>2
  <2> QED BY <2>3, <2>4
<1>9. ASSUME NEW at, prep' = Turned(r, at)
      PROVE  \A u \in Uploads : InHand(u)' => InHand(u) \/ ~Behind(u)
  <2> DEFINE q == [prep[r] EXCEPT !.at = at]
  <2>1. q.file = prep[r].file /\ prep' = [prep EXCEPT ![r] = q]
    BY <1>1, <1>9 DEF Turned, PrepType
  <2> HIDE DEF q
  <2> QED BY <1>4, <2>1
<1>10. CASE MoveIn(r) \/ Extracted(r)
  BY <1>2, <1>3, <1>9, <1>10 DEF MoveIn, Extracted
<1>11. ASSUME prep' = Dropped(r)
       PROVE  \A u \in Uploads : InHand(u)' => InHand(u) \/ ~Behind(u)
  BY <1>1, <1>4, <1>5, <1>11
<1>12. CASE Open(r) \/ ConversionStops(r) \/ NothingToConvert(r) \/ ExtractionFails(r) \/ Link(r)
  <2>1. prep' = Dropped(r) \/ \E at \in {"extracting", "extracted"} : prep' = Turned(r, at)
    BY <1>12 DEF Open, ConversionStops, NothingToConvert, ExtractionFails, Failed, Link
  <2> QED BY <1>2, <1>3, <1>9, <1>11, <2>1
<1>13. CASE Finish(r)
  BY <1>1, <1>2, <1>3, <1>4, <1>5, <1>13 DEF Finish
<1> QED BY <1>6, <1>7, <1>8, <1>10, <1>12, <1>13 DEF PreparerStep

\* The files come one way: from upload/ to the volume's own directory, and
\* from there into the hands of the preparer.
LEMMA AwayStays ==
  ASSUME IInv, Given, Next, NEW u \in Uploads, Away(u)
  PROVE  Away(u)'
<1> USE DEF world, moverVars, prepVars, logVars, cleanVars
<1>1. CASE Users
  <2>1. PICK v \in Uploads : (\E n \in Names : Upload(v, n)) \/ OriginalAges(v) \/ LogAges(v)
    BY <1>1 DEF Users
  <2>2. CASE \E n \in Names : Upload(v, n)
    <3>1. PICK n \in Names : Upload(v, n)
      BY <2>2
    <3>2. u # v /\ kind'[u] = kind[u]
      BY <3>1 DEF Upload, Away, IInv, TypeOK
    <3>3. \A m \in Names : upload'[m] \in {upload[m], v}
      BY <3>1 DEF Upload, IInv, TypeOK
    <3>4. UNCHANGED <<zeek, prep>>
      BY <3>1 DEF Upload
    <3> QED BY <3>2, <3>3, <3>4 DEF Away, Behind, InHand
  <2>3. CASE OriginalAges(v) \/ LogAges(v)
    BY <2>3 DEF OriginalAges, LogAges, Away, Behind, InHand
  <2> QED BY <2>1, <2>2, <2>3
<1>2. CASE Watcher
  <2>1. UNCHANGED <<kind, prep>>
    BY <1>2 DEF Watcher, Look, Reject, Move
  <2>2. CASE \E n \in Names : Look(n)
    BY <2>1, <2>2 DEF Look, Away, Behind, InHand
  <2>3. CASE \E n \in Names : Reject(n)
    BY <2>1, <2>3, LogLifecycleAssumption DEF Reject, Away, Behind, InHand, IInv, TypeOK
  <2>4. CASE Move
    <3>1. PICK n \in Names, t \in Paths : mover = <<n, t>>
      BY <2>4 DEF Move, IInv, TypeOK
    <3> QED
      BY <2>1, <2>4, <3>1, LogLifecycleAssumption DEF Move, Away, Behind, InHand, IInv, TypeOK
  <2> QED BY <1>2, <2>2, <2>3, <2>4 DEF Watcher
<1>3. CASE Preparer
  <2>1. PICK r \in Runs : Start(r) \/ Refused(r) \/ PreparerStep(r)
    BY <1>3 DEF Preparer
  <2>2. /\ UNCHANGED <<kind, upload>> /\ \A p \in Paths : zeek'[p] \in {zeek[p], None}
        /\ InHand(u)' => InHand(u) \/ ~Behind(u)
    BY <2>1, PreparerHands
  <2> QED BY <2>2, LogLifecycleAssumption DEF Away, Behind
<1>4. CASE Wake \/ CleanerStep \/ Filebeat
  <2>1. UNCHANGED <<kind, upload, zeek, prep>>
    BY <1>4 DEF Wake, CleanerStep, Check, RemoveLog, RemoveOriginal, Tidy, Filebeat, PickUp,
                CloseEarly, ReadAll, Forget
  <2> QED BY <2>1 DEF Away, Behind, InHand
<1>5. CASE Faults
  <2>1. UNCHANGED <<kind, upload, zeek>>
    BY <1>5 DEF Faults, Kill, Replace
  <2>2. \A r \in Runs : prep'[r] \in {prep[r], Idle}
    BY <1>5 DEF Faults, Kill, Replace, IInv, TypeOK
  <2>3. Idle.file = None
    BY DEF Idle
  <2> QED BY <2>1, <2>2, <2>3, LogLifecycleAssumption DEF Away, Behind, InHand
<1> QED BY <1>1, <1>2, <1>3, <1>4, <1>5 DEF Next

\* An archive is old if it came so, or when nobody works on it any more.
LEMMA MarkedSteps ==
  ASSUME IInv, Given, Next, NEW u \in Uploads, Marked(u)'
  PROVE  Marked(u) \/ u \in stale' \/ Away(u)
<1> USE DEF world, moverVars, prepVars, logVars, cleanVars
<1>1. \A v, w \in Uploads : Original(v) # LogOf(w) /\ (Original(v) = Original(w) => v = w)
  BY DEF Original, LogOf
<1>2. <<>> # Original(u)
  BY DEF Original
<1>3. CASE Users
  <2>1. PICK v \in Uploads : (\E n \in Names : Upload(v, n)) \/ OriginalAges(v) \/ LogAges(v)
    BY <1>3 DEF Users
  <2>2. cleaner' = cleaner
    BY <2>1 DEF Upload, OriginalAges, LogAges
  <2>3. CASE \E n \in Names : Upload(v, n)
    <3>1. old' = old \/ (old' = old \cup {Original(v)} /\ v \in stale')
      BY <2>3 DEF Upload
    <3> QED BY <1>1, <2>2, <3>1 DEF Marked
  <2>4. CASE OriginalAges(v)
    <3>1. old' = old \cup {Original(v)} /\ Stored(v) /\ ~InHand(v)
      BY <2>4 DEF OriginalAges
    <3>2. Away(v)
      BY <3>1, LogLifecycleAssumption DEF Away, Behind, Stored, IInv, Safe, Apart, NotYet
    <3> QED BY <1>1, <2>2, <3>1, <3>2 DEF Marked
  <2>5. CASE LogAges(v)
    BY <1>1, <2>2, <2>5 DEF LogAges, Marked
  <2> QED BY <2>1, <2>3, <2>4, <2>5
<1>4. CASE Watcher \/ Filebeat
  BY <1>4 DEF Watcher, Look, Reject, Move, Filebeat, PickUp, CloseEarly, ReadAll, Forget, Marked
<1>5. CASE Preparer
  <2>1. PICK r \in Runs : Start(r) \/ Refused(r) \/ PreparerStep(r)
    BY <1>5 DEF Preparer
  <2>2. cleaner' = cleaner
    BY <2>1, PreparerHands
  <2>3. old' \subseteq old
    BY <2>1 DEF Start, Refused, PreparerStep, Take, MoveIn, Open, Extracted, ExtractionFails,
                ConversionStops, NothingToConvert, Link, Finish
  <2> QED BY <2>2, <2>3 DEF Marked
<1>6. CASE Wake
  <2>1. old' = old /\ cleaner'.at = "on" /\ cleaner'.todo \subseteq old
    BY <1>6 DEF Wake, Candidates
  <2> QED BY <2>1 DEF Marked
<1>7. CASE Check
  <2>1. old' = old
    BY <1>7 DEF Check
  <2>2. PICK i \in cleaner.todo :
          cleaner'.todo = cleaner.todo \ {i} /\ cleaner'.item \in {i, <<>>}
    BY <1>7 DEF Check
  <2> QED BY <1>2, <2>1, <2>2 DEF Marked
<1>8. CASE RemoveLog \/ RemoveOriginal
  <2>1. old' \subseteq old /\ cleaner'.at = "on" /\ cleaner'.todo = cleaner.todo
    BY <1>8 DEF RemoveLog, RemoveOriginal, IInv, TypeOK
  <2> QED BY <2>1 DEF Marked
<1>9. CASE Tidy \/ Faults
  <2>1. old' = old
    BY <1>9 DEF Tidy, Faults, Kill, Replace
  <2>2. cleaner' = cleaner \/ cleaner' = Asleep
    BY <1>9 DEF Tidy, Faults, Kill, Replace
  <2>3. Asleep.at = "off" /\ Asleep.todo = {}
    BY DEF Asleep
  <2> QED BY <2>1, <2>2, <2>3 DEF Marked
<1> QED BY <1>3, <1>4, <1>5, <1>6, <1>7, <1>8, <1>9 DEF Next, CleanerStep

LEMMA StaleStays == Next => stale \subseteq stale'
<1> SUFFICES ASSUME Next PROVE stale \subseteq stale'
  OBVIOUS
<1> USE DEF world, moverVars, prepVars, logVars, cleanVars
<1>1. CASE Users
  BY <1>1 DEF Users, Upload, OriginalAges, LogAges
<1>2. CASE Watcher
  BY <1>2 DEF Watcher, Look, Reject, Move
<1>3. CASE Preparer
  BY <1>3 DEF Preparer, Start, Refused, PreparerStep, Take, MoveIn, Open, Extracted,
              ExtractionFails, ConversionStops, NothingToConvert, Link, Finish
<1>4. CASE Wake \/ CleanerStep
  BY <1>4 DEF Wake, CleanerStep, Check, RemoveLog, RemoveOriginal, Tidy
<1>5. CASE Filebeat \/ Faults
  BY <1>5 DEF Filebeat, PickUp, CloseEarly, ReadAll, Forget, Faults, Kill, Replace
<1> QED BY <1>1, <1>2, <1>3, <1>4, <1>5 DEF Next

LEMMA YoungKept == ASSUME IInv, Given, Young, Next PROVE Young'
<1> SUFFICES ASSUME NEW u \in Uploads, u \notin stale', Marked(u)' PROVE Away(u)'
  BY DEF Young
<1>1. u \notin stale
  BY StaleStays
<1>2. Marked(u) \/ Away(u)
  BY MarkedSteps
<1>3. Away(u)
  BY <1>1, <1>2 DEF Young
<1> QED BY <1>3, AwayStays

\* The cleaner takes nothing from the preparer that did not come too old,
\* and no log that was not read.
LEMMA CleanerLeaves ==
  ASSUME IInv, Given, Young, Wake \/ CleanerStep
  PROVE  /\ UNCHANGED <<kind, stale, killed, upload, zeek, prep, reading>>
         /\ \A u \in Uploads : InHand(u) => log'[u] = log[u]
         /\ \A u \in Uploads : u \notin stale /\ InHand(u) /\ Stored(u) => Stored(u)'
         /\ \A u \in links : reading[u] # "forgotten" /\ log[u] # "none" =>
              u \in links' /\ log'[u] = log[u]
<1> USE DEF world, moverVars, prepVars, logVars, cleanVars
<1>1. UNCHANGED <<kind, stale, killed, upload, zeek, prep, reading>>
  BY DEF Wake, CleanerStep, Check, RemoveLog, RemoveOriginal, Tidy
<1>2. CASE Wake \/ Check
  <2>1. UNCHANGED <<log, links, processed>>
    BY <1>2 DEF Wake, Check
  <2> QED BY <1>1, <2>1 DEF Stored
<1>3. CASE Tidy
  <2>1. UNCHANGED <<log, processed>> /\ links' = Alive
    BY <1>3 DEF Tidy
  <2> QED BY <1>1, <2>1 DEF Stored, Alive
<1>4. CASE RemoveLog
  <2> DEFINE v == cleaner.item[2]
  <2>1. v \in Uploads /\ cleaner.item = LogOf(v)
    BY <1>4 DEF RemoveLog, IInv, Shape, Items, LogOf
  <2>2. ~InHand(v) /\ (v \in links => reading[v] = "forgotten")
    BY <1>4, <2>1 DEF RemoveLog, Given, Doomed
  <2>3. /\ \A u \in Uploads : log'[u] = IF u = v THEN "none" ELSE log[u]
        /\ UNCHANGED <<links, processed>>
    BY <1>4, <2>1 DEF RemoveLog, IInv, TypeOK
  <2> HIDE DEF v
  <2>4. links \subseteq Uploads
    BY DEF IInv, TypeOK
  <2> QED BY <1>1, <2>2, <2>3, <2>4 DEF Stored
<1>5. CASE RemoveOriginal
  <2> DEFINE v == cleaner.item[2]
  <2>1. v \in Uploads /\ cleaner.item = Original(v)
    BY <1>5 DEF RemoveOriginal, IInv, Shape, Items, Original
  <2>2. v \in stale \/ ~InHand(v)
    BY <1>5, <2>1 DEF RemoveOriginal, Young, Marked, Away
  <2>3. /\ \A p \in Places : processed'[p] = IF processed[p] = v THEN None ELSE processed[p]
        /\ UNCHANGED <<log, links>>
    BY <1>5 DEF RemoveOriginal
  <2> HIDE DEF v
  <2> QED BY <1>1, <2>2, <2>3 DEF Stored
<1> QED BY <1>2, <1>3, <1>4, <1>5 DEF CleanerStep

\* Only one process works, so what holds of its new state holds of all.
LEMMA ReadyTurn ==
  ASSUME IInv, NEW r \in Runs, Busy(r) \/ ~lock, NEW q, prep' = [prep EXCEPT ![r] = q],
         q.at \in {"moved", "extracting"} /\ q.file \notin stale' => Stored(q.file)',
         q.at = "extracted" /\ q.file \notin stale' /\ kind'[q.file] # "torn" => log'[q.file] = "whole"
  PROVE  Ready'
<1>1. \A s \in Runs : prep'[s] = IF s = r THEN q ELSE prep[s]
  BY DEF IInv, TypeOK
<1>2. \A s \in Runs : s # r => prep[s].at = "off"
  BY DEF IInv, Safe, OnePreparer, Busy
<1>3. \A s \in Runs : prep'[s] = q \/ prep'[s].at = "off"
  BY <1>1, <1>2
<1> QED
  <2> SUFFICES ASSUME NEW s \in Runs
               PROVE  prep'[s].file \notin stale' =>
                        /\ prep'[s].at \in {"moved", "extracting"} => Stored(prep[s].file)'
                        /\ prep'[s].at = "extracted" /\ kind'[prep'[s].file] # "torn" =>
                             log'[prep'[s].file] = "whole"
    BY DEF Ready
  <2>1. CASE prep'[s] = q
    BY <2>1 DEF Stored
  <2>2. CASE prep'[s].at = "off"
    BY <2>2
  <2> QED BY <1>3, <2>1, <2>2

LEMMA PreparerReady ==
  ASSUME IInv, Given, Road, NEW r \in Runs, Start(r) \/ Refused(r) \/ PreparerStep(r)
  PROVE  Ready'
<1> USE DEF world, moverVars, prepVars, logVars, cleanVars
<1> DEFINE f == prep[r].file
<1>1. prep \in [Runs -> PrepType] /\ prep[r] \in PrepType
  BY DEF IInv, TypeOK, PrepType
<1>2. /\ UNCHANGED <<kind, stale>>
  BY PreparerHands
<1>3. ASSUME NEW q, prep' = [prep EXCEPT ![r] = q], q.at \in {"off", "listed", "taken"},
             Busy(r) \/ ~lock
      PROVE  Ready'
  BY <1>3, ReadyTurn
<1>4. ASSUME NEW at, prep' = Turned(r, at)
      PROVE  \E q : prep' = [prep EXCEPT ![r] = q] /\ q.at = at /\ q.file = f
  <2> DEFINE q == [prep[r] EXCEPT !.at = at]
  <2>1. q.at = at /\ q.file = f /\ prep' = [prep EXCEPT ![r] = q]
    BY <1>1, <1>4 DEF Turned, PrepType
  <2> HIDE DEF q, f
  <2> QED BY <2>1
<1>5. /\ Idle.at = "off" /\ \A T : Empty(T).at = "listed"
      /\ Dropped(r) = [prep EXCEPT ![r] = Empty(prep[r].todo)]
  BY DEF Idle, Empty, Dropped
<1>6. CASE Start(r)
  <2>1. PICK T : prep' = [prep EXCEPT ![r] = Empty(T)]
    BY <1>6 DEF Start, Empty
  <2> QED BY <1>3, <1>5, <1>6, <2>1 DEF Start
<1>7. CASE Refused(r)
  BY <1>7 DEF Refused, Road, Ready, Stored
<1>8. CASE Take(r)
  <2>1. PICK p \in prep[r].todo : prep' = [prep EXCEPT ![r] =
          IF zeek[p] = None THEN [prep[r] EXCEPT !.todo = @ \ {p}]
          ELSE [at |-> "taken", todo |-> prep[r].todo \ {p}, from |-> p,
                to |-> Place(p, zeek[p]), file |-> zeek[p]]]
    BY <1>8 DEF Take
  <2>2. Busy(r) /\ prep[r].at = "listed"
    BY <1>8 DEF Take, Busy
  <2>3. CASE zeek[p] = None
    <3> DEFINE q == [prep[r] EXCEPT !.todo = @ \ {p}]
    <3>1. q.at = "listed" /\ prep' = [prep EXCEPT ![r] = q]
      BY <1>1, <2>1, <2>2, <2>3 DEF PrepType
    <3> HIDE DEF q
    <3> QED BY <1>3, <2>2, <3>1
  <2>4. CASE zeek[p] # None
    <3> DEFINE q == [at |-> "taken", todo |-> prep[r].todo \ {p}, from |-> p,
                     to |-> Place(p, zeek[p]), file |-> zeek[p]]
    <3>1. q.at = "taken" /\ prep' = [prep EXCEPT ![r] = q]
      BY <2>1, <2>4
    <3> HIDE DEF q
    <3> QED BY <1>3, <2>2, <3>1
  <2> QED BY <2>3, <2>4
<1>9. CASE Finish(r)
  BY <1>3, <1>5, <1>9 DEF Finish, Busy
<1>10. CASE prep' = Dropped(r) /\ Busy(r)
  BY <1>3, <1>5, <1>10
<1>11. CASE MoveIn(r)
  <2>1. /\ Busy(r) /\ f \in Uploads /\ prep[r].to \in Places /\ zeek[prep[r].from] = f
    BY <1>11 DEF MoveIn, Busy, IInv, Shape, Safe, TakenReady
  <2>2. processed'[prep[r].to] = f
    BY <1>11, <2>1 DEF MoveIn, IInv, TypeOK
  <2>3. PICK q : prep' = [prep EXCEPT ![r] = q] /\ q.at = "moved" /\ q.file = f
    BY <1>4, <1>11 DEF MoveIn
  <2> HIDE DEF f
  <2>4. Stored(q.file)'
    BY <2>1, <2>2, <2>3 DEF Stored
  <2> QED BY <2>1, <2>3, <2>4, ReadyTurn
<1>12. CASE Open(r) /\ prep' = Turned(r, "extracting")
  <2>1. /\ Busy(r) /\ processed' = processed
        /\ f \notin stale => Stored(f)
    BY <1>12 DEF Open, Busy, Road, Ready
  <2>2. PICK q : prep' = [prep EXCEPT ![r] = q] /\ q.at = "extracting" /\ q.file = f
    BY <1>4, <1>12
  <2> HIDE DEF f
  <2>3. q.file \notin stale' => Stored(q.file)'
    BY <1>2, <2>1, <2>2 DEF Stored
  <2> QED BY <1>2, <2>1, <2>2, <2>3, ReadyTurn
<1>13. CASE Extracted(r)
  <2>1. Busy(r) /\ f \in Uploads
    BY <1>13 DEF Extracted, Busy, IInv, Shape
  <2>2. log'[f] = "whole"
    BY <1>13, <2>1 DEF Extracted, IInv, TypeOK
  <2>3. PICK q : prep' = [prep EXCEPT ![r] = q] /\ q.at = "extracted" /\ q.file = f
    BY <1>4, <1>13 DEF Extracted
  <2> HIDE DEF f
  <2> QED BY <2>1, <2>2, <2>3, ReadyTurn
<1>14. CASE NothingToConvert(r) /\ prep' = Turned(r, "extracted")
  <2>1. Busy(r) /\ f \in stale
    BY <1>14 DEF NothingToConvert, Busy, Road, Ready
  <2>2. PICK q : prep' = [prep EXCEPT ![r] = q] /\ q.at = "extracted" /\ q.file = f
    BY <1>4, <1>14
  <2> HIDE DEF f
  <2> QED BY <1>2, <2>1, <2>2, ReadyTurn
<1>15. CASE ConversionStops(r)
  <2>1. Busy(r) /\ kind[f] = "torn"
    BY <1>15 DEF ConversionStops, Busy
  <2>2. PICK q : prep' = [prep EXCEPT ![r] = q] /\ q.at = "extracted" /\ q.file = f
    BY <1>4, <1>15 DEF ConversionStops
  <2> HIDE DEF f
  <2> QED BY <1>2, <2>1, <2>2, ReadyTurn
<1>16. CASE Open(r) \/ NothingToConvert(r) \/ ExtractionFails(r) \/ Link(r)
  <2>1. Busy(r)
    BY <1>16 DEF Busy, Open, NothingToConvert, ExtractionFails, Link
  <2>2. \/ prep' = Dropped(r)
        \/ Open(r) /\ prep' = Turned(r, "extracting")
        \/ NothingToConvert(r) /\ prep' = Turned(r, "extracted")
    BY <1>16 DEF Open, NothingToConvert, ExtractionFails, Failed, Link
  <2> QED BY <1>10, <1>12, <1>14, <2>1, <2>2
<1> QED BY <1>6, <1>7, <1>8, <1>9, <1>11, <1>13, <1>15, <1>16 DEF PreparerStep

\* And nothing that is due is lost by it.
LEMMA PreparerWell ==
  ASSUME IInv, Given, Road, NEW r \in Runs, Start(r) \/ Refused(r) \/ PreparerStep(r)
  PROVE  AllWell'
<1> USE DEF world, moverVars, prepVars, logVars, cleanVars
<1> DEFINE f == prep[r].file
<1>1. /\ prep \in [Runs -> PrepType] /\ prep[r] \in PrepType /\ None \notin Uploads
      /\ zeek \in [Paths -> Files] /\ log \in [Uploads -> {"none", "part", "whole", "empty"}]
      /\ links \subseteq Uploads
  BY LogLifecycleAssumption DEF IInv, TypeOK, PrepType
<1>2. UNCHANGED <<kind, stale, killed, upload, reading, cleaner>>
  BY PreparerHands
<1> SUFFICES ASSUME ~killed, NEW u \in Uploads, Due(u)
             PROVE  Well(u)'
  BY <1>2 DEF AllWell, Due
<1>3. Well(u)
  BY DEF Road, AllWell
<1>4. (\E p \in Paths : zeek[p] = u) => (\E p \in Paths : zeek'[p] = u) \/ InHand(u)'
  <2>1. CASE MoveIn(r)
    <3>1. /\ \A p \in Paths : p # prep[r].from => zeek'[p] = zeek[p]
          /\ zeek[prep[r].from] = f
      BY <1>1, <2>1 DEF MoveIn, IInv, Safe, TakenReady
    <3>2. prep'[r].file = f
      BY <1>1, <2>1 DEF MoveIn, Turned, PrepType
    <3> QED BY <3>1, <3>2 DEF InHand
  <2>2. CASE ~MoveIn(r)
    BY <2>2 DEF Start, Refused, PreparerStep, Take, Open, Extracted, ExtractionFails, ConversionStops, NothingToConvert,
                Link, Finish
  <2> QED BY <2>1, <2>2
<1>5. u \in links => u \in links' /\ log'[u] = log[u]
  <2>1. links \subseteq links'
    BY DEF Start, Refused, PreparerStep, Take, MoveIn, Open, Extracted, ExtractionFails, ConversionStops, NothingToConvert,
           Link, Finish
  <2>2. \/ log' = log
        \/ prep[r].at \in {"moved", "extracting"} /\ \E x : log' = [log EXCEPT ![f] = x]
    BY DEF Start, Refused, PreparerStep, Take, MoveIn, Open, Extracted, ExtractionFails, Failed,
           ConversionStops, NothingToConvert, Link, Finish
  <2>3. prep[r].at \in {"moved", "extracting"} => f \notin links /\ f \in Uploads
    BY DEF Given, Hand, IInv, Shape
  <2> HIDE DEF f
  <2> QED BY <1>1, <2>1, <2>2, <2>3
<1>6. \A s \in Runs : s # r => prep'[s] = prep[s]
  <2>1. prep' = prep \/ \E q : prep' = [prep EXCEPT ![r] = q]
    BY DEF Start, Refused, PreparerStep, Take, MoveIn, Open, Extracted, ExtractionFails, Failed,
           ConversionStops, NothingToConvert, Link, Finish, Turned, Dropped
  <2> QED BY <1>1, <2>1
<1>7. ASSUME f = u
      PROVE  InHand(u)' \/ (u \in links' /\ log'[u] = "whole")
  <2>1. prep[r].at \notin {"off", "listed"}
    BY <1>1, <1>7 DEF Given, Hand
  <2>2. \A at : prep' = Turned(r, at) => InHand(u)'
    <3> SUFFICES ASSUME NEW at, prep' = Turned(r, at) PROVE InHand(u)'
      OBVIOUS
    <3>1. prep'[r].file = u
      BY <1>1, <1>7 DEF Turned, PrepType
    <3> QED BY <3>1 DEF InHand
  <2>3. CASE MoveIn(r) \/ Extracted(r)
    BY <2>2, <2>3 DEF MoveIn, Extracted
  <2>4. CASE Open(r)
    <3>1. Stored(f)
      BY <1>7, <2>4 DEF Open, Road, Ready, Due
    <3> QED BY <2>2, <2>4, <3>1 DEF Open
  <2>5. CASE NothingToConvert(r)
    BY <1>7, <2>5 DEF NothingToConvert, Road, Ready, Due
  <2>6. CASE ExtractionFails(r) \/ ConversionStops(r)
    BY <1>7, <2>6 DEF ExtractionFails, ConversionStops, Due
  <2>7. CASE Link(r)
    BY <1>7, <2>7 DEF Link, Road, Ready, Due
  <2>8. CASE Refused(r)
    BY <1>7, <2>8 DEF Refused, InHand
  <2> QED BY <2>1, <2>3, <2>4, <2>5, <2>6, <2>7, <2>8 DEF PreparerStep, Start, Busy, Take, Finish
<1>8. InHand(u) => InHand(u)' \/ (u \in links' /\ log'[u] = "whole")
  <2> SUFFICES ASSUME NEW s \in Runs, prep[s].file = u
               PROVE  InHand(u)' \/ (u \in links' /\ log'[u] = "whole")
    BY DEF InHand
  <2>1. CASE s = r
    BY <1>7, <2>1
  <2>2. CASE s # r
    BY <1>6, <2>2 DEF InHand
  <2> QED BY <2>1, <2>2
<1> QED BY <1>2, <1>3, <1>4, <1>5, <1>8 DEF Well, UnderWay

-----------------------------------------------------------------------------
(* The other steps.                                                        *)

LEMMA UsersRoad == ASSUME IInv, Given, Road, Users PROVE Ready' /\ AllWell'
<1> USE DEF world, moverVars, prepVars, logVars, cleanVars
<1>1. /\ UNCHANGED <<killed, zeek, prep, processed, log, links, reading>>
      /\ stale \subseteq stale'
  BY DEF Users, Upload, OriginalAges, LogAges
<1>2. PICK v \in Uploads : (\E n \in Names : Upload(v, n)) \/ OriginalAges(v) \/ LogAges(v)
  BY DEF Users
<1>3. CASE OriginalAges(v) \/ LogAges(v)
  <2>1. UNCHANGED <<kind, stale, upload>>
    BY <1>3 DEF OriginalAges, LogAges
  <2> QED
    BY <1>1, <2>1 DEF Road, Ready, AllWell, Due, Well, UnderWay, Stored, InHand
<1>4. CASE \E n \in Names : Upload(v, n)
  <2>1. PICK n \in Names : Upload(v, n)
    BY <1>4
  <2>2. /\ kind[v] = "none" /\ upload[n] = None /\ v # None
        /\ \A u \in Uploads : u # v => kind'[u] = kind[u]
        /\ \A m \in Names : upload'[m] = IF m = n THEN v ELSE upload[m]
    BY <2>1, LogLifecycleAssumption DEF Upload, IInv, TypeOK
  <2>3. Ready'
    <3> SUFFICES ASSUME NEW r \in Runs
                 PROVE  prep[r].file \notin stale' =>
                          /\ prep[r].at \in {"moved", "extracting"} => Stored(prep[r].file)
                          /\ prep[r].at = "extracted" /\ kind'[prep[r].file] # "torn" =>
                               log[prep[r].file] = "whole"
      BY <1>1 DEF Ready, Stored
    <3>1. prep[r].at = "extracted" => prep[r].file \in Uploads /\ kind[prep[r].file] # "none"
      BY DEF IInv, Shape, Given, Hand
    <3>2. prep[r].at = "extracted" => kind'[prep[r].file] = kind[prep[r].file]
      BY <2>2, <3>1
    <3> QED BY <1>1, <3>2 DEF Road, Ready
  <2>4. AllWell'
    <3> SUFFICES ASSUME ~killed, NEW u \in Uploads, Due(u)' PROVE Well(u)'
      BY <1>1 DEF AllWell
    <3>1. CASE u = v
      BY <2>2, <3>1 DEF Well, UnderWay
    <3>2. CASE u # v
      <4>1. Well(u)
        BY <1>1, <2>2, <3>2 DEF Road, AllWell, Due
      <4>2. \A m \in Names : upload[m] = u => upload'[m] = u
        BY <2>2, LogLifecycleAssumption
      <4> QED BY <1>1, <4>1, <4>2 DEF Well, UnderWay, InHand
    <3> QED BY <3>1, <3>2
  <2> QED BY <2>3, <2>4
<1> QED BY <1>2, <1>3, <1>4

LEMMA WatcherRoad == ASSUME IInv, Given, Road, Watcher PROVE Ready' /\ AllWell'
<1> USE DEF world, moverVars, prepVars, logVars, cleanVars
<1>1. UNCHANGED <<kind, stale, killed, prep, processed, log, links, reading>>
  BY DEF Watcher, Look, Reject, Move
<1>2. Ready'
  BY <1>1 DEF Road, Ready, Stored
<1>3. /\ upload \in [Names -> Files] /\ zeek \in [Paths -> Files]
  BY DEF IInv, TypeOK
<1>4. \A u \in Uploads : Due(u) /\ UnderWay(u) => UnderWay(u)'
  <2> SUFFICES ASSUME NEW u \in Uploads, Due(u), UnderWay(u) PROVE UnderWay(u)'
    OBVIOUS
  <2>1. u # None
    BY LogLifecycleAssumption
  <2>2. CASE \E n \in Names : Look(n)
    BY <1>1, <2>2 DEF Look, UnderWay, InHand
  <2>3. CASE \E n \in Names : Reject(n)
    <3>1. PICK n \in Names : Reject(n)
      BY <2>3
    <3>2. upload[n] # u /\ zeek' = zeek
      BY <3>1 DEF Reject, Due, Kinds, Supported
    <3>3. \A m \in Names : m # n => upload'[m] = upload[m]
      BY <1>3, <3>1 DEF Reject
    <3> QED BY <1>1, <3>2, <3>3 DEF UnderWay, InHand
  <2>4. CASE Move
    <3>1. PICK n \in Names, t \in Paths : mover = <<n, t>>
      BY <2>4 DEF Move, IInv, TypeOK
    <3>2. zeek[t] = None
      BY <3>1, <2>4 DEF Move, IInv, Safe, MoverReady
    <3>3. /\ \A m \in Names : m # n => upload'[m] = upload[m]
          /\ \A p \in Paths : zeek'[p] = IF p = t THEN upload[n] ELSE zeek[p]
      BY <1>3, <2>4, <3>1 DEF Move
    <3> QED BY <1>1, <2>1, <3>2, <3>3 DEF UnderWay, InHand
  <2> QED BY <2>2, <2>3, <2>4 DEF Watcher
<1>5. AllWell'
  BY <1>1, <1>4 DEF Road, AllWell, Due, Well
<1> QED BY <1>2, <1>5

LEMMA CleanerRoad ==
  ASSUME IInv, Given, Road, Wake \/ CleanerStep PROVE Ready' /\ AllWell'
<1>1. /\ UNCHANGED <<kind, stale, killed, upload, zeek, prep, reading>>
      /\ \A u \in Uploads : InHand(u) => log'[u] = log[u]
      /\ \A u \in Uploads : u \notin stale /\ InHand(u) /\ Stored(u) => Stored(u)'
      /\ \A u \in links : reading[u] # "forgotten" /\ log[u] # "none" =>
           u \in links' /\ log'[u] = log[u]
  BY CleanerLeaves DEF Road
<1>2. Ready'
  <2> SUFFICES ASSUME NEW r \in Runs
               PROVE  prep[r].file \notin stale =>
                        /\ prep[r].at \in {"moved", "extracting"} => Stored(prep[r].file)'
                        /\ prep[r].at = "extracted" /\ kind[prep[r].file] # "torn" => log'[prep[r].file] = "whole"
    BY <1>1 DEF Ready, Stored
  <2>1. prep[r].at \in {"moved", "extracting", "extracted"} =>
          prep[r].file \in Uploads /\ InHand(prep[r].file)
    BY DEF IInv, Shape, InHand
  <2>2. prep[r].file \notin stale =>
          /\ prep[r].at \in {"moved", "extracting"} => Stored(prep[r].file)
          /\ prep[r].at = "extracted" /\ kind[prep[r].file] # "torn" => log[prep[r].file] = "whole"
    BY DEF Road, Ready
  <2> QED BY <1>1, <2>1, <2>2
<1>3. AllWell'
  <2> SUFFICES ASSUME ~killed, NEW u \in Uploads, Due(u) PROVE Well(u)'
    BY <1>1 DEF AllWell, Due
  <2>1. Well(u)
    BY DEF Road, AllWell
  <2> QED BY <1>1, <2>1 DEF Well, UnderWay, InHand
<1> QED BY <1>2, <1>3

LEMMA FilebeatRoad == ASSUME IInv, Given, Road, Filebeat PROVE Ready' /\ AllWell'
<1> USE DEF world, moverVars, prepVars, logVars, cleanVars
<1>1. UNCHANGED <<kind, stale, killed, upload, zeek, prep, processed, log, links>>
  BY DEF Filebeat, PickUp, CloseEarly, ReadAll, Forget
<1>2. \A u \in Uploads :
        reading[u] \in {"read", "forgotten"} => reading'[u] \in {"read", "forgotten"}
  BY DEF Filebeat, PickUp, CloseEarly, ReadAll, Forget, IInv, TypeOK
<1>3. Ready'
  BY <1>1 DEF Road, Ready, Stored
<1>4. AllWell'
  BY <1>1, <1>2 DEF Road, AllWell, Due, Well, UnderWay, InHand
<1> QED BY <1>3, <1>4

LEMMA FaultsRoad == ASSUME IInv, Given, Road, Faults PROVE Ready' /\ AllWell'
<1> USE DEF world, moverVars, prepVars, logVars, cleanVars
<1>1. UNCHANGED <<kind, stale, processed, log>> /\ killed'
  BY DEF Faults, Kill, Replace
<1>2. \A r \in Runs : prep'[r] \in {prep[r], Idle}
  BY DEF Faults, Kill, Replace, IInv, TypeOK
<1>3. Idle.at = "off"
  BY DEF Idle
<1>4. \A r \in Runs : prep'[r] = prep[r] \/ prep'[r].at = "off"
  BY <1>2, <1>3
<1>5. Ready'
  <2> SUFFICES ASSUME NEW r \in Runs
               PROVE  prep'[r].file \notin stale =>
                        /\ prep'[r].at \in {"moved", "extracting"} => Stored(prep'[r].file)
                        /\ prep'[r].at = "extracted" /\ kind[prep'[r].file] # "torn" => log[prep'[r].file] = "whole"
    BY <1>1 DEF Ready, Stored
  <2>1. CASE prep'[r] = prep[r]
    BY <2>1 DEF Road, Ready
  <2>2. CASE prep'[r].at = "off"
    BY <2>2
  <2> QED BY <1>4, <2>1, <2>2
<1>6. AllWell'
  BY <1>1 DEF AllWell
<1> QED BY <1>5, <1>6

\* In every reachable state: the preparer has what it works on, and what is
\* due to be read is on its way.
THEOREM RoadInvariant == Spec => [](IInv /\ Given /\ Road)
<1>1. Init => Road
  BY RoadInit
<1>2. IInv /\ Given /\ Road /\ [Next]_vars => Road'
  <2> SUFFICES ASSUME IInv, Given, Road, [Next]_vars PROVE Road'
    OBVIOUS
  <2>1. CASE Next
    <3>1. Young'
      BY <2>1, YoungKept DEF Road
    <3>2. Ready' /\ AllWell'
      <4>1. CASE Preparer
        BY <4>1, PreparerReady, PreparerWell DEF Preparer
      <4> QED
        BY <2>1, <4>1, UsersRoad, WatcherRoad, CleanerRoad, FilebeatRoad, FaultsRoad DEF Next
    <3> QED BY <3>1, <3>2 DEF Road
  <2>2. CASE UNCHANGED vars
    BY <2>2 DEF vars, world, moverVars, prepVars, logVars, cleanVars, Road, Young, Marked, Away,
                Ready, AllWell, Due, Well, UnderWay, Behind, InHand, Stored
  <2> QED BY <2>1, <2>2
<1> QED BY <1>1, <1>2, GivenInvariant, PTL DEF Spec

\* A log that was linked is removed only after filebeat has read all of it,
\* and what is due to be read is never lost on the way to filebeat.
THEOREM ReadFirst == Spec => []ReadBeforeRemoved
<1>1. Given /\ Road => ReadBeforeRemoved
  BY DEF Given, FirstRead, Road, AllWell, Due, Well, ReadBeforeRemoved
<1> QED BY <1>1, RoadInvariant, PTL
=============================================================================
