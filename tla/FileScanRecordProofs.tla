------------------------- MODULE FileScanRecordProofs -------------------------
(***************************************************************************)
(* What the records of FileScan are worth, for any requests, scanners,     *)
(* policy, limits and stops: a file is put on record once and deleted only *)
(* on record, with that the service implements ScanPromise, and a verdict  *)
(* on record is that of the results.                                       *)
(*                                                                         *)
(* A submit message carries the file into the logger.  It is published     *)
(* once, and what it brought is in one place: on its way, in the map,      *)
(* about to be written or on record (FileOnce).  While no process stops,   *)
(* nothing published is lost and no entry waits for what has come, so that *)
(* a request with nothing under way is on record (CalmInv, WaitInv).       *)
(***************************************************************************)
EXTENDS FileScanProofs

-----------------------------------------------------------------------------
(* Publishing and handling a message.                                      *)

LEMMA PublishCases ==
  ASSUME TypeOK, NEW m \in Message, Publish(m)
  PROVE  \/ logger # "up" /\ inbox' = inbox
         \/ /\ logger = "up" /\ inbox' = Append(inbox, m)
            /\ Len(inbox) \in Nat /\ Len(inbox') = Len(inbox) + 1
            /\ inbox'[Len(inbox) + 1] = m
            /\ \A i \in 1 .. Len(inbox) : inbox'[i] = inbox[i]
BY DEF Publish, TypeOK

\* The entry of q before the message: with another age, or a new one.
Before(q, p) ==
  \E a \in Ages :
    p = IF q \in DOMAIN scans THEN [scans[q] EXCEPT !.age = a] ELSE ForEvent(a)

\* What the message makes of it.
After(q, s) ==
  \E p \in FileScan :
    /\ Before(q, p)
    /\ s = IF q = Head(inbox).id THEN UpdateScan(p, Head(inbox)) ELSE p

(* A message changes the entry it names, and an entry is kept or about to  *)
(* be written, never both.                                                 *)
LEMMA HandleCases ==
  ASSUME TypeOK, Handle
  PROVE  /\ Head(inbox) \in Message /\ inbox' = Tail(inbox) /\ inbox # <<>>
         /\ UNCHANGED <<present, watcherVars, scannerVars, logger, output, cleanup, stops>>
         /\ emitting = EmptyMap /\ logger = "up"
         /\ \/ Ignored(Head(inbox)) /\ UNCHANGED <<scans, emitting>>
            \/ /\ ~Ignored(Head(inbox))
               /\ DOMAIN scans' \cap DOMAIN emitting' = {}
               /\ DOMAIN scans' \cup DOMAIN emitting' = DOMAIN scans \cup {Head(inbox).id}
               /\ \A q \in DOMAIN scans' : scans'[q] \in FileScan /\ After(q, scans'[q])
               /\ \A q \in DOMAIN emitting' : emitting'[q] \in FileScan /\ After(q, emitting'[q])
<1> DEFINE m == Head(inbox)
<1>1. m \in Message /\ inbox # <<>>
  BY DEF Handle, TypeOK
<1>2. /\ inbox' = Tail(inbox) /\ emitting = EmptyMap /\ logger = "up"
      /\ UNCHANGED <<present, watcherVars, scannerVars, logger, output, cleanup, stops>>
  BY DEF Handle
<1>3. CASE Ignored(m)
  BY <1>1, <1>2, <1>3 DEF Handle
<1>4. CASE ~Ignored(m)
  <2>1. PICK ages \in [Requests -> Ages] :
          LET aged == Aged(scans, m, ages)
              map  == UpdateMap(aged, m)
          IN  IF Accepts(aged[m.id], m)
              THEN scans' = Working(map) /\ emitting' = Part(map, Finished(map))
              ELSE scans' = aged /\ UNCHANGED emitting
    BY <1>4, Zenon DEF Handle
  <2> DEFINE aged == Aged(scans, m, ages)
             map  == UpdateMap(aged, m)
  <2> HIDE DEF m
  <2>2. IsScanMap(scans) /\ m.id \in Requests /\ DOMAIN scans \subseteq Requests
    BY <1>1, MessageFields DEF TypeOK, IsScanMap
  <2>3. /\ IsScanMap(aged) /\ DOMAIN aged = DOMAIN scans \cup {m.id}
        /\ \A q \in DOMAIN aged : aged[q] \in FileScan /\ Before(q, aged[q])
    <3> HIDE DEF map
    <3>1. \A q \in DOMAIN aged : aged[q] = IF q \in DOMAIN scans THEN [scans[q] EXCEPT !.age = ages[q]] ELSE ForEvent(ages[q])
      BY DEF Aged
    <3>2. IsScanMap(aged) /\ DOMAIN aged = DOMAIN scans \cup {m.id}
      BY <1>1, <2>2, AgedType
    <3> HIDE DEF aged
    <3>3. \A q \in DOMAIN aged : aged[q] \in FileScan /\ ages[q] \in Ages
      BY <2>2, <3>2 DEF IsScanMap
    <3> QED BY <3>1, <3>2, <3>3, Zenon DEF Before
  <2>4. /\ IsScanMap(map) /\ DOMAIN map = DOMAIN aged
        /\ \A q \in DOMAIN aged : map[q] = IF q = m.id THEN UpdateScan(aged[q], m) ELSE aged[q]
    <3> HIDE DEF aged
    <3> QED BY <1>1, <2>3, UpdateMapType
  <2>5. \A q \in DOMAIN map : map[q] \in FileScan /\ After(q, map[q])
    <3> HIDE DEF aged, map
    <3>1. \A q \in DOMAIN map : map[q] \in FileScan
      BY <2>4 DEF IsScanMap
    <3> QED BY <2>3, <2>4, <3>1, Zenon DEF After, m
  <2>6. CASE ~Accepts(aged[m.id], m)
    <3>1. scans' = aged /\ emitting' = EmptyMap
      BY <1>2, <2>1, <2>6
    <3>2. UpdateScan(aged[m.id], m) = aged[m.id]
      BY <2>6 DEF UpdateScan
    <3> HIDE DEF aged, map
    <3>3. \A q \in DOMAIN aged : map[q] = aged[q]
      BY <2>4, <3>2
    <3> QED BY <1>1, <1>2, <1>4, <2>3, <2>4, <2>5, <3>1, <3>3, EmptyMapType DEF m
  <2>7. CASE Accepts(aged[m.id], m)
    <3>1. scans' = Part(map, DOMAIN map \ Finished(map)) /\ emitting' = Part(map, Finished(map))
      BY <2>1, <2>7 DEF Working
    <3> HIDE DEF aged, map
    <3>2. Finished(map) \subseteq DOMAIN map
      BY DEF Finished
    <3>3. /\ DOMAIN scans' = DOMAIN map \ Finished(map)
          /\ \A q \in DOMAIN scans' : scans'[q] = map[q]
          /\ DOMAIN emitting' = Finished(map)
          /\ \A q \in DOMAIN emitting' : emitting'[q] = map[q]
      BY <2>4, <3>1, <3>2, PartType
    <3> QED BY <1>1, <1>2, <1>4, <2>3, <2>4, <2>5, <3>2, <3>3 DEF m
  <2> QED BY <2>6, <2>7
<1> QED BY <1>3, <1>4

\* What the messages leave alone.
LEMMA TailFacts ==
  ASSUME TypeOK, inbox # <<>>, inbox' = Tail(inbox)
  PROVE  /\ Len(inbox) \in Nat /\ Len(inbox') = Len(inbox) - 1 /\ Head(inbox) = inbox[1]
         /\ 1 \in 1 .. Len(inbox)
         /\ \A i \in 1 .. Len(inbox') : i + 1 \in 1 .. Len(inbox) /\ inbox'[i] = inbox[i + 1]
<1>1. inbox \in Seq(Message) /\ Len(inbox) \in Nat /\ Len(inbox) # 0
  BY DEF TypeOK
<1>2. Len(inbox') = Len(inbox) - 1
  BY <1>1, HeadTailProperties
<1>3. \A i \in 1 .. Len(inbox') : i + 1 \in 1 .. Len(inbox) /\ inbox'[i] = inbox[i + 1]
  BY <1>1, <1>2, HeadTailProperties
<1> QED BY <1>1, <1>2, <1>3

(* FileScan.update: the file, and the part of each scanner.                *)
LEMMA UpdateFields ==
  ASSUME NEW s \in FileScan, NEW m \in Message
  PROVE  /\ UpdateScan(s, m).file = (s.file \/ m.type = "submit")
         /\ \A w \in Scanners :
              UpdateScan(s, m).results[w] =
                IF m.type \in {"submit", "complete"} \/ m.name # w \/ ~Accepts(s, m) THEN s.results[w]
                ELSE IF m.type = "begin" THEN [NoResult EXCEPT !.state = "open"]
                ELSE UpdateResult(s.results[w], m)
<1>1. CASE ~Accepts(s, m)
  BY <1>1 DEF UpdateScan, Accepts, FileScan
<1>2. CASE Accepts(s, m) /\ m.type = "submit"
  BY <1>2, MessageFields DEF UpdateScan, FileScan
<1>3. CASE Accepts(s, m) /\ m.type # "submit"
  <2>1. m.name \in Scanners /\ m.type \in {"begin", "result", "end", "timeout"}
    BY <1>3, MessageFields DEF Accepts
  <2>2. PICK x : /\ x = IF m.type = "begin" THEN [NoResult EXCEPT !.state = "open"] ELSE UpdateResult(s.results[m.name], m)
                 /\ UpdateScan(s, m) = [s EXCEPT !.results = [s.results EXCEPT ![m.name] = x]]
    <3>1. CASE m.type = "begin"
      BY <1>3, <3>1, Zenon DEF UpdateScan
    <3>2. CASE m.type # "begin"
      BY <1>3, <3>2 DEF UpdateScan
    <3> QED BY <3>1, <3>2
  <2>3. /\ UpdateScan(s, m).file = s.file
        /\ \A w \in Scanners : UpdateScan(s, m).results[w] = IF w = m.name THEN x ELSE s.results[w]
    BY <2>1, <2>2 DEF FileScan
  <2>4. ASSUME NEW w \in Scanners
        PROVE  UpdateScan(s, m).results[w] =
                 IF m.name # w THEN s.results[w]
                 ELSE IF m.type = "begin" THEN [NoResult EXCEPT !.state = "open"]
                 ELSE UpdateResult(s.results[w], m)
    <3>1. CASE m.name # w
      BY <2>3, <3>1
    <3>2. CASE m.name = w
      <4>1. UpdateScan(s, m).results[w] = x
        BY <2>3, <3>2
      <4> QED BY <2>2, <3>2, <4>1, Zenon
    <3> QED BY <3>1, <3>2
  <2>5. ~(m.type = "submit") /\ ~(m.type \in {"submit", "complete"})
    BY <1>3, <2>1
  <2>6. UpdateScan(s, m).file = (s.file \/ m.type = "submit")
    BY <2>3, <2>5 DEF FileScan
  <2> QED BY <1>3, <2>4, <2>5, <2>6, Zenon
<1> QED BY <1>1, <1>2, <1>3

\* A message of the task of w for q.
Of(m, w, q) == m.type \in {"begin", "result", "end", "timeout"} /\ m.name = w /\ m.id = q

LEMMA TaskPublish ==
  ASSUME TypeOK, SentInv, NEW w \in Scanners, NEW q \in Requests, ScannerStep(w, q)
  PROVE  inbox' = inbox \/ \E m \in Message : Publish(m) /\ Of(m, w, q)
<1>1. CASE Begin(w, q)
  <2>1. Note("begin", q, w) \in Message /\ Of(Note("begin", q, w), w, q)
    BY DEF Note, Message, Of
  <2> QED BY <1>1, <2>1 DEF Begin
<1>2. CASE OpenFile(w, q) \/ FinishScan(w, q)
  BY <1>2 DEF OpenFile, FinishScan
<1>3. ASSUME NEW t, SendNext(w, q, t) PROVE \E m \in Message : Publish(m) /\ Of(m, w, q)
  <2> DEFINE ms == Messages(outcome[w][q], q, w)
             n  == sent[w][q] + 1
  <2>1. Publish(ms[n]) /\ task[w][q] = "sending"
    BY <1>3, Zenon DEF SendNext
  <2>2. n \in 1 .. Len(ms) /\ outcome[w][q] \in Outcome
    BY <2>1, MessagesType DEF TypeOK, SentInv, Outcome
  <2>3. ms[n] \in Message /\ Of(ms[n], w, q)
    <3>1. \A k \in 1 .. Len(ms) :
            ms[k] \in Message /\ ms[k].id = q /\ ms[k].name = w /\ ms[k].type \in {"result", "end", "timeout"}
      BY <2>2, MessagesType
    <3> HIDE DEF ms, n
    <3> QED BY <2>2, <3>1 DEF Of
  <2> HIDE DEF ms, n
  <2> QED BY <2>1, <2>3
<1>4. ASSUME NEW f \in FirstFindings(w, q), Publish(ResultMsg(q, w, f))
      PROVE  \E m \in Message : Publish(m) /\ Of(m, w, q)
  <2>1. f \in Findings
    BY FileScanAssumption DEF FirstFindings, Outcome, Findings
  <2>2. ResultMsg(q, w, f) \in Message /\ Of(ResultMsg(q, w, f), w, q)
    BY <2>1 DEF ResultMsg, Message, Of
  <2> QED BY <1>4, <2>2
<1>5. CASE Send(w, q)
  BY <1>3, <1>5 DEF Send
<1>6. CASE CancelTask(w, q)
  BY <1>3, <1>4, <1>6 DEF CancelTask
<1> QED BY <1>1, <1>2, <1>5, <1>6 DEF ScannerStep

-----------------------------------------------------------------------------
(* The file of a request is in one place.                                  *)

SubmitAt(i, q) == inbox[i].type = "submit" /\ inbox[i].id = q

Coming(q)   == \E i \in 1 .. Len(inbox) : SubmitAt(i, q)
Tracked(q)  == q \in DOMAIN scans /\ scans[q].file
Writing(q)  == q \in DOMAIN emitting /\ emitting[q].file
OnRecord(q) == \E i \in 1 .. Len(output[q]) : output[q][i].file

FileOnce(q) ==
  /\ \A i, j \in 1 .. Len(inbox) : SubmitAt(i, q) /\ SubmitAt(j, q) => i = j
  /\ Coming(q)  => ~Tracked(q) /\ ~Writing(q) /\ ~OnRecord(q)
  /\ Tracked(q) => ~Writing(q) /\ ~OnRecord(q)
  /\ Writing(q) => ~OnRecord(q)
  /\ \A i, j \in 1 .. Len(output[q]) : output[q][i].file /\ output[q][j].file => i = j

FileOnceInv == \A q \in Requests : FileOnce(q)

\* Nothing brings a file before its submit.
LEMMA NothingBefore ==
  ASSUME IInv, NEW q \in Requests, phase[q] # "submitted"
  PROVE  ~Coming(q) /\ ~Tracked(q) /\ ~Writing(q) /\ ~OnRecord(q)
<1>1. ~Coming(q)
  BY DEF IInv, InboxInv, MessageOK, Coming, SubmitAt
<1>2. ~Tracked(q) /\ ~Writing(q)
  BY DEF IInv, ScansInv, EmittingInv, ScanOK, Tracked, Writing
<1>3. ~OnRecord(q)
  BY DEF IInv, OutputInv, ScanOK, OnRecord
<1> QED BY <1>1, <1>2, <1>3

\* Publishing something else changes nothing.
LEMMA OtherPublish ==
  ASSUME TypeOK, NEW q \in Requests, FileOnce(q), NEW m \in Message, Publish(m),
         ~(m.type = "submit" /\ m.id = q)
  PROVE  /\ \A i, j \in 1 .. Len(inbox') : SubmitAt(i, q)' /\ SubmitAt(j, q)' => i = j
         /\ Coming(q)' => Coming(q)
<1>1. CASE inbox' = inbox
  BY <1>1 DEF FileOnce, Coming, SubmitAt
<1>2. CASE /\ Len(inbox) \in Nat /\ Len(inbox') = Len(inbox) + 1
           /\ inbox'[Len(inbox) + 1] = m
           /\ \A i \in 1 .. Len(inbox) : inbox'[i] = inbox[i]
  <2>1. \A i \in 1 .. Len(inbox') : SubmitAt(i, q)' => i \in 1 .. Len(inbox) /\ SubmitAt(i, q)
    BY <1>2 DEF SubmitAt
  <2> QED BY <2>1 DEF FileOnce, Coming
<1> QED BY <1>1, <1>2, PublishCases

LEMMA EmitFacts ==
  ASSUME TypeOK, NEW q \in Requests, Emit(q)
  PROVE  /\ q \in DOMAIN emitting /\ emitting[q] \in FileScan
         /\ DOMAIN emitting' = DOMAIN emitting \ {q}
         /\ \A p \in DOMAIN emitting' : emitting'[p] = emitting[p]
         /\ \A p \in Requests : p # q => output'[p] = output[p]
         /\ Len(output[q]) \in Nat /\ Len(output'[q]) = Len(output[q]) + 1
         /\ output'[q][Len(output[q]) + 1] = emitting[q]
         /\ \A i \in 1 .. Len(output[q]) : output'[q][i] = output[q][i]
<1>1. q \in DOMAIN emitting /\ emitting[q] \in FileScan /\ IsScanMap(emitting) /\ output \in [Requests -> Seq(FileScan)]
  BY DEF Emit, TypeOK, IsScanMap
<1>2. output' = [output EXCEPT ![q] = Append(output[q], emitting[q])]
  BY DEF Emit
<1>3. output'[q] = Append(output[q], emitting[q]) /\ \A p \in Requests : p # q => output'[p] = output[p]
  BY <1>1, <1>2
<1>4. emitting' = Part(emitting, DOMAIN emitting \ {q})
  BY DEF Emit
<1>5. DOMAIN emitting' = DOMAIN emitting \ {q} /\ \A p \in DOMAIN emitting' : emitting'[p] = emitting[p]
  BY <1>1, <1>4, PartType
<1> QED BY <1>1, <1>3, <1>5, AppendProperties

(* Handling a message takes the file out of the inbox, into the map or, if *)
(* the scan is over with it, to what is about to be written.               *)
LEMMA HandleOnce ==
  ASSUME TypeOK, NEW q \in Requests, FileOnce(q), Handle
  PROVE  FileOnce(q)'
<1> DEFINE m == Head(inbox)
<1>1. \A i \in 1 .. Len(inbox') : i + 1 \in 1 .. Len(inbox) /\ (SubmitAt(i, q)' <=> SubmitAt(i + 1, q))
  BY HandleCases, TailFacts DEF SubmitAt
<1>2. \A i, j \in 1 .. Len(inbox') : SubmitAt(i, q)' /\ SubmitAt(j, q)' => i = j
  <2>1. \A i, j \in 1 .. Len(inbox') : SubmitAt(i, q)' /\ SubmitAt(j, q)' => i + 1 = j + 1
    BY <1>1 DEF FileOnce
  <2> QED BY <2>1
<1>3. Coming(q)' => Coming(q) /\ ~(m.type = "submit" /\ m.id = q)
  <2> SUFFICES ASSUME NEW i \in 1 .. Len(inbox'), SubmitAt(i, q)'
               PROVE  Coming(q) /\ ~(m.type = "submit" /\ m.id = q)
    BY DEF Coming
  <2>1. i + 1 \in 1 .. Len(inbox) /\ SubmitAt(i + 1, q) /\ i + 1 # 1
    BY <1>1
  <2>2. m = inbox[1] /\ 1 \in 1 .. Len(inbox)
    BY HandleCases, TailFacts
  <2> QED BY <2>1, <2>2 DEF FileOnce, Coming, SubmitAt
<1>4. m.type = "submit" /\ m.id = q => Coming(q)
  BY HandleCases, TailFacts DEF Coming, SubmitAt
<1>5. OnRecord(q)' = OnRecord(q) /\ UNCHANGED output
  BY HandleCases DEF OnRecord, loggerVars
<1>6. ASSUME NEW s \in FileScan, After(q, s), s.file
      PROVE  Tracked(q) \/ (m.type = "submit" /\ m.id = q)
  <2>1. PICK p \in FileScan : Before(q, p) /\ s = IF q = m.id THEN UpdateScan(p, m) ELSE p
    BY <1>6 DEF After
  <2>2. p.file => Tracked(q)
    <3>1. PICK a \in Ages : p = IF q \in DOMAIN scans THEN [scans[q] EXCEPT !.age = a] ELSE ForEvent(a)
      BY <2>1, Zenon DEF Before
    <3>2. q \in DOMAIN scans => p.file = scans[q].file
      BY <3>1 DEF TypeOK, IsScanMap, FileScan
    <3>3. q \notin DOMAIN scans => ~p.file
      BY <3>1 DEF ForEvent
    <3> QED BY <3>2, <3>3 DEF Tracked
  <2>3. m \in Message
    BY HandleCases
  <2> HIDE DEF m
  <2>4. CASE q = m.id
    BY <1>6, <2>1, <2>2, <2>3, <2>4, UpdateFields
  <2>5. CASE q # m.id
    BY <1>6, <2>1, <2>2, <2>5
  <2> QED BY <2>4, <2>5
<1>7. CASE Ignored(m)
  <2>1. UNCHANGED <<scans, emitting>>
    BY <1>7, HandleCases
  <2> QED BY <1>2, <1>3, <1>5, <2>1 DEF FileOnce, Tracked, Writing
<1>8. CASE ~Ignored(m)
  <2> HIDE DEF m
  <2>1. /\ DOMAIN scans' \cap DOMAIN emitting' = {}
        /\ \A p \in DOMAIN scans' : scans'[p] \in FileScan /\ After(p, scans'[p])
        /\ \A p \in DOMAIN emitting' : emitting'[p] \in FileScan /\ After(p, emitting'[p])
    BY <1>8, HandleCases DEF m
  <2>2. Tracked(q)' \/ Writing(q)' => Tracked(q) \/ (m.type = "submit" /\ m.id = q)
    BY <1>6, <2>1 DEF Tracked, Writing
  <2>3. ~(Tracked(q)' /\ Writing(q)')
    BY <2>1 DEF Tracked, Writing
  <2> QED BY <1>2, <1>3, <1>4, <1>5, <2>2, <2>3 DEF FileOnce
<1> QED BY <1>7, <1>8

LEMMA FileOnceStep ==
  ASSUME IInv, FileOnceInv, [Next]_vars
  PROVE  FileOnceInv'
<1> SUFFICES ASSUME NEW q \in Requests PROVE FileOnce(q)'
  BY DEF FileOnceInv
<1>1. TypeOK /\ SentInv /\ FileOnce(q)
  BY DEF IInv, TypeInv, FileOnceInv
<1>2. CASE UNCHANGED <<inbox, scans, emitting, output>>
  BY <1>1, <1>2 DEF FileOnce, Coming, SubmitAt, Tracked, Writing, OnRecord
<1>3. ASSUME NEW m \in Message, Publish(m), ~(m.type = "submit" /\ m.id = q),
             UNCHANGED <<scans, emitting, output>>
      PROVE  FileOnce(q)'
  BY <1>1, <1>3, OtherPublish DEF FileOnce, Tracked, Writing, OnRecord
<1>4. ASSUME NEW p \in Requests, PublishSubmit(p) PROVE FileOnce(q)'
  <2> DEFINE m == SubmitMsg(p, counted[p])
  <2>1. m \in Message /\ m.id = p /\ m.type = "submit"
    BY <1>1 DEF SubmitMsg, Message, TypeOK
  <2>2. Publish(m) /\ UNCHANGED <<scans, emitting, output>>
    BY <1>4 DEF PublishSubmit, loggerVars
  <2>3. CASE p # q
    BY <1>3, <2>1, <2>2, <2>3
  <2>4. CASE p = q
    <3>1. ~Coming(q) /\ ~Tracked(q) /\ ~Writing(q) /\ ~OnRecord(q)
      BY <1>4, <2>4, NothingBefore DEF PublishSubmit
    <3>2. ~Tracked(q)' /\ ~Writing(q)' /\ ~OnRecord(q)'
      BY <2>2, <3>1 DEF Tracked, Writing, OnRecord
    <3>3. \A i, j \in 1 .. Len(inbox') : SubmitAt(i, q)' /\ SubmitAt(j, q)' => i = j
      <4>1. CASE inbox' = inbox
        BY <3>1, <4>1 DEF Coming, SubmitAt
      <4>2. CASE /\ Len(inbox) \in Nat /\ Len(inbox') = Len(inbox) + 1
                 /\ \A i \in 1 .. Len(inbox) : inbox'[i] = inbox[i]
        <5>1. \A i \in 1 .. Len(inbox') : SubmitAt(i, q)' => i = Len(inbox) + 1
          BY <3>1, <4>2 DEF Coming, SubmitAt
        <5> QED BY <5>1
      <4> HIDE DEF m
      <4> QED BY <1>1, <2>1, <2>2, <4>1, <4>2, PublishCases
    <3>4. UNCHANGED output
      BY <2>2
    <3> QED BY <1>1, <3>1, <3>2, <3>3, <3>4 DEF FileOnce
  <2> QED BY <2>3, <2>4
<1>5. ASSUME NEW w \in Scanners, NEW p \in Requests, ScannerStep(w, p) PROVE FileOnce(q)'
  <2>1. UNCHANGED <<scans, emitting, output>>
    BY <1>1, <1>5, TaskStep
  <2>2. inbox' = inbox \/ \E m \in Message : Publish(m) /\ Of(m, w, p)
    BY <1>1, <1>5, TaskPublish
  <2> QED BY <1>2, <1>3, <2>1, <2>2 DEF Of
<1>6. CASE Handle
  BY <1>1, <1>6, HandleOnce
<1>7. ASSUME NEW p \in Requests, Emit(p) PROVE FileOnce(q)'
  <2>1. CompleteMsg(p) \in Message /\ CompleteMsg(p).type # "submit" /\ Publish(CompleteMsg(p))
    BY <1>7 DEF CompleteMsg, Message, Emit
  <2>2. /\ \A i, j \in 1 .. Len(inbox') : SubmitAt(i, q)' /\ SubmitAt(j, q)' => i = j
        /\ Coming(q)' => Coming(q)
    BY <1>1, <2>1, OtherPublish
  <2>3. Tracked(q)' = Tracked(q)
    BY <1>7 DEF Emit, Tracked
  <2>4. CASE p # q
    <3>1. Writing(q)' = Writing(q)
      BY <1>1, <1>7, <2>4, EmitFacts DEF Writing
    <3>2. output'[q] = output[q]
      BY <1>1, <1>7, <2>4, EmitFacts
    <3> QED BY <1>1, <2>2, <2>3, <3>1, <3>2 DEF FileOnce, OnRecord
  <2>5. CASE p = q
    <3>1. q \notin DOMAIN emitting' /\ q \in DOMAIN emitting
      BY <1>1, <1>7, <2>5, EmitFacts
    <3>2. \A i \in 1 .. Len(output'[q]) :
            \/ i \in 1 .. Len(output[q]) /\ output'[q][i] = output[q][i]
            \/ i = Len(output[q]) + 1 /\ output'[q][i] = emitting[q]
      <4>1. /\ Len(output[q]) \in Nat /\ Len(output'[q]) = Len(output[q]) + 1
            /\ output'[q][Len(output[q]) + 1] = emitting[q]
            /\ \A i \in 1 .. Len(output[q]) : output'[q][i] = output[q][i]
        BY <1>1, <1>7, <2>5, EmitFacts
      <4> QED BY <4>1
    <3>3. OnRecord(q)' => OnRecord(q) \/ Writing(q)
      BY <3>1, <3>2 DEF OnRecord, Writing
    <3>4. \A i, j \in 1 .. Len(output'[q]) : output'[q][i].file /\ output'[q][j].file => i = j
      BY <1>1, <3>1, <3>2 DEF FileOnce, OnRecord, Writing
    <3>5. ~Writing(q)'
      BY <3>1 DEF Writing
    <3> QED BY <1>1, <2>2, <2>3, <3>3, <3>4, <3>5 DEF FileOnce
  <2> QED BY <2>4, <2>5
<1>8. CASE KillLogger
  <2>1. inbox' = <<>> /\ scans' = EmptyMap /\ emitting' = EmptyMap /\ UNCHANGED output
    BY <1>8 DEF KillLogger
  <2>2. ~Coming(q)' /\ ~Tracked(q)' /\ ~Writing(q)' /\ Len(inbox') = 0
    BY <2>1, EmptyMapType DEF Coming, Tracked, Writing
  <2>3. OnRecord(q)' = OnRecord(q)
    BY <2>1 DEF OnRecord
  <2> QED BY <1>1, <2>1, <2>2, <2>3 DEF FileOnce
<1>9. ASSUME NEW p \in Requests, Observe(p) \/ PublishRequest(p) \/ StartDelete(p) \/ Unlink(p)
      PROVE  UNCHANGED <<inbox, scans, emitting, output>>
  BY <1>9 DEF Observe, PublishRequest, StartDelete, Unlink, loggerVars
<1>10. ASSUME NEW w \in Scanners, ExitScanner(w) \/ StartScanner(w) \/ StopScanner(w) \/ KillScanner(w)
       PROVE  UNCHANGED <<inbox, scans, emitting, output>>
  BY <1>10 DEF ExitScanner, StartScanner, StopScanner, KillScanner, loggerVars
<1>11. CASE CrashWatcher \/ StartLogger \/ Idle \/ UNCHANGED vars
  BY <1>2, <1>11 DEF CrashWatcher, StartLogger, Idle, vars, loggerVars
<1> QED BY <1>2, <1>4, <1>5, <1>6, <1>7, <1>8, <1>9, <1>10, <1>11 DEF Next, Stop, LoggerStep

LEMMA OnceInit == Init => FileOnceInv
<1> SUFFICES ASSUME Init, NEW q \in Requests PROVE FileOnce(q)
  BY DEF FileOnceInv
<1>1. Len(inbox) = 0 /\ Len(output[q]) = 0 /\ scans = EmptyMap /\ emitting = EmptyMap
  BY DEF Init
<1> QED BY <1>1, EmptyMapType DEF FileOnce, Coming, Tracked, Writing, OnRecord

\* Where the file is on record at all it is there once.
LEMMA OnceFromInv ==
  ASSUME IInv, FileOnceInv, NEW q \in Requests
  PROVE  LET n == Cardinality({i \in DOMAIN output[q] : output[q][i].file})
         IN  n <= 1 /\ (OnRecord(q) => n = 1)
<1> DEFINE S == {i \in DOMAIN output[q] : output[q][i].file}
<1>1. \A i, j \in S : i = j
  <2>1. DOMAIN output[q] = 1 .. Len(output[q])
    BY DEF IInv, TypeInv, TypeOK
  <2>2. \A i, j \in 1 .. Len(output[q]) : output[q][i].file /\ output[q][j].file => i = j
    BY DEF FileOnceInv, FileOnce
  <2> QED BY <2>1, <2>2
<1>2. OnRecord(q) => S # {}
  BY DEF OnRecord, IInv, TypeInv, TypeOK
<1> HIDE DEF S
<1>3. S = {} \/ \E i : S = {i}
  BY <1>1
<1>4. Cardinality(S) = 0 \/ Cardinality(S) = 1
  BY <1>3, FS_EmptySet, FS_Singleton, Zenon
<1>5. S # {} => Cardinality(S) = 1
  BY <1>3, FS_Singleton, Zenon
<1>6. Cardinality(S) <= 1 /\ (OnRecord(q) => Cardinality(S) = 1)
  BY <1>2, <1>4, <1>5
<1> QED BY <1>6 DEF S

-----------------------------------------------------------------------------
(* A cleanup that deletes has a record behind it.                          *)

ToDelete == {"waiting", "unlinking", "deleted"}

CleanupInv ==
  \A q \in Requests : cleanup[q] \in ToDelete => \E s \in Records(q) : Drop(s)

\* What a step does to the records.
LEMMA RecordsStep ==
  ASSUME TypeOK, [Next]_vars, NEW q \in Requests
  PROVE  \/ /\ Emit(q) /\ emitting[q] \in FileScan
            /\ Records(q)' = Records(q) \cup {emitting[q]}
         \/ Records(q)' = Records(q) /\ ~Emit(q)
<1>1. CASE UNCHANGED output
  <2>1. ~Emit(q)
    <3> SUFFICES ASSUME Emit(q) PROVE FALSE
      OBVIOUS
    <3>1. Len(output[q]) \in Nat /\ Len(output'[q]) = Len(output[q]) + 1
      BY EmitFacts
    <3> QED BY <1>1, <3>1
  <2> QED BY <1>1, <2>1 DEF Records
<1>2. ASSUME NEW p \in Requests, Emit(p), p # q PROVE UNCHANGED output \/ (Records(q)' = Records(q) /\ ~Emit(q))
  <2>1. output'[q] = output[q]
    BY <1>2, EmitFacts
  <2>2. ~Emit(q)
    <3> SUFFICES ASSUME Emit(q) PROVE FALSE
      OBVIOUS
    <3>1. Len(output[q]) \in Nat /\ Len(output'[q]) = Len(output[q]) + 1
      BY EmitFacts
    <3> QED BY <2>1, <3>1
  <2> QED BY <2>1, <2>2 DEF Records
<1>3. CASE Emit(q)
  <2>1. /\ emitting[q] \in FileScan /\ output'[q] \in Seq(FileScan) /\ output[q] \in Seq(FileScan)
        /\ Len(output[q]) \in Nat /\ Len(output'[q]) = Len(output[q]) + 1
        /\ output'[q][Len(output[q]) + 1] = emitting[q]
        /\ \A i \in 1 .. Len(output[q]) : output'[q][i] = output[q][i]
    BY <1>3, EmitFacts, EmitStep DEF TypeOK
  <2>2. DOMAIN output[q] = 1 .. Len(output[q]) /\ DOMAIN output'[q] = 1 .. Len(output[q]) + 1
    BY <2>1
  <2>3. \A i : i \in 1 .. Len(output[q]) + 1 <=> i \in 1 .. Len(output[q]) \/ i = Len(output[q]) + 1
    BY <2>1
  <2>4. Records(q)' = Records(q) \cup {emitting[q]}
    BY <2>1, <2>2, <2>3, Zenon DEF Records
  <2> QED BY <1>3, <2>1, <2>4
<1> QED BY <1>1, <1>2, <1>3, LoggerMovesStep DEF LoggerMoves, Handle

\* Deletion is decided as the record says.
LEMMA DeletesDrop ==
  ASSUME NEW s \in FileScan, s.file, Deletes(s)
  PROVE  Drop(s)
BY DEF Deletes, Qualifies, Drop, Hit

LEMMA DropStable ==
  ASSUME NEW s
  PROVE  Drop(s)' = Drop(s)
BY DEF Drop, Hit

LEMMA CleanupStep ==
  ASSUME TypeOK, CleanupInv, [Next]_vars
  PROVE  CleanupInv'
<1> SUFFICES ASSUME NEW q \in Requests, cleanup'[q] \in ToDelete
             PROVE  \E s \in Records(q)' : Drop(s)
  BY DropStable DEF CleanupInv, ToDelete
<1>1. Records(q) \subseteq Records(q)'
  BY RecordsStep
<1>2. CASE cleanup[q] \in ToDelete
  BY <1>1, <1>2 DEF CleanupInv
<1>3. CASE cleanup[q] \notin ToDelete
  <2>1. ASSUME UNCHANGED cleanup PROVE FALSE
    BY <1>3, <2>1
  <2>2. ASSUME NEW p \in Requests, Emit(p) PROVE \E s \in Records(q)' : Drop(s)
    <3>1. /\ p = q /\ emitting[q].file /\ Deletes(emitting[q])
      BY <1>3, <2>2 DEF Emit, TypeOK, ToDelete
    <3>2. emitting[q] \in FileScan /\ emitting[q] \in Records(q)'
      BY <2>2, <3>1, RecordsStep
    <3> QED BY <3>1, <3>2, DeletesDrop
  <2>3. ASSUME NEW p \in Requests, StartDelete(p) \/ Unlink(p) PROVE FALSE
    BY <1>3, <2>3 DEF StartDelete, Unlink, TypeOK, ToDelete
  <2>4. CASE KillLogger
    BY <1>3, <2>4 DEF KillLogger, TypeOK, ToDelete, Cleaning
  <2>5. ASSUME NEW p \in Requests, Observe(p) \/ PublishRequest(p) \/ PublishSubmit(p)
        PROVE  UNCHANGED cleanup
    BY <2>5 DEF Observe, PublishRequest, PublishSubmit
  <2>6. ASSUME NEW w \in Scanners, NEW p \in Requests, ScannerStep(w, p) PROVE UNCHANGED cleanup
    BY <2>6, TaskStep
  <2>7. ASSUME NEW w \in Scanners, ExitScanner(w) \/ StartScanner(w) \/ StopScanner(w) \/ KillScanner(w)
        PROVE  UNCHANGED cleanup
    BY <2>7 DEF ExitScanner, StartScanner, StopScanner, KillScanner
  <2>8. CASE Handle \/ CrashWatcher \/ StartLogger \/ Idle \/ UNCHANGED vars
    BY <2>1, <2>8 DEF Handle, CrashWatcher, StartLogger, Idle, vars
  <2> QED BY <2>1, <2>2, <2>3, <2>4, <2>5, <2>6, <2>7, <2>8 DEF Next, Stop, LoggerStep
<1> QED BY <1>2, <1>3

\* A step deletes at most one file, that of a cleanup under way.
LEMMA PresentStep ==
  ASSUME [Next]_vars
  PROVE  \/ UNCHANGED present
         \/ \E q \in Requests : Unlink(q)
<1>1. ASSUME NEW p \in Requests,
             Observe(p) \/ PublishRequest(p) \/ PublishSubmit(p) \/ Emit(p) \/ StartDelete(p)
      PROVE  UNCHANGED present
  BY <1>1 DEF Observe, PublishRequest, PublishSubmit, Emit, StartDelete
<1>2. ASSUME NEW w \in Scanners, NEW p \in Requests, ScannerStep(w, p) PROVE UNCHANGED present
  BY <1>2 DEF ScannerStep, Begin, OpenFile, FinishScan, Send, CancelTask
<1>3. ASSUME NEW w \in Scanners, ExitScanner(w) \/ StartScanner(w) \/ StopScanner(w) \/ KillScanner(w)
      PROVE  UNCHANGED present
  BY <1>3 DEF ExitScanner, StartScanner, StopScanner, KillScanner
<1>4. CASE \/ Handle \/ CrashWatcher \/ KillLogger \/ StartLogger
           \/ Idle \/ UNCHANGED vars
  BY <1>4 DEF Handle, CrashWatcher, KillLogger, StartLogger, Idle, vars
<1> QED BY <1>1, <1>2, <1>3, <1>4 DEF Next, Stop, LoggerStep

LEMMA UnlinkFacts ==
  ASSUME CleanupInv, NEW q \in Requests, Unlink(q)
  PROVE  present' = present \ {FileOf[q]} /\ \E s \in Records(q) : Drop(s)
BY DEF Unlink, CleanupInv, ToDelete

LEMMA DeletesStep ==
  ASSUME TypeOK, CleanupInv, DeletesAreOnRecord, [Next]_vars
  PROVE  DeletesAreOnRecord'
<1> SUFFICES ASSUME NEW f \in Files \ present'
             PROVE  \E q \in Requests : FileOf[q] = f /\ \E s \in Records(q)' : Drop(s)
  BY DropStable DEF DeletesAreOnRecord
<1>1. \E q \in Requests : FileOf[q] = f /\ \E s \in Records(q) : Drop(s)
  <2>1. CASE f \notin present
    BY <2>1 DEF DeletesAreOnRecord
  <2>2. ASSUME NEW q \in Requests, Unlink(q), f \in present
        PROVE  FileOf[q] = f /\ \E s \in Records(q) : Drop(s)
    BY <2>2, UnlinkFacts
  <2> QED BY <2>1, <2>2, PresentStep
<1>2. \A q \in Requests : Records(q) \subseteq Records(q)'
  BY RecordsStep
<1> QED BY <1>1, <1>2

LEMMA CleanupInit == Init => CleanupInv /\ DeletesAreOnRecord
BY DEF Init, CleanupInv, ToDelete, DeletesAreOnRecord

(* No file disappears before a record was written that the policy lets go, *)
(* for any policy and whatever is stopped or killed between the record,    *)
(* the start of its cleanup and the unlink.                                *)
THEOREM DeletesOnRecord == Spec => []DeletesAreOnRecord
<1>1. TypeOK /\ CleanupInv /\ [Next]_vars => CleanupInv'
  BY CleanupStep
<1>2. TypeOK /\ CleanupInv /\ DeletesAreOnRecord /\ [Next]_vars => DeletesAreOnRecord'
  BY DeletesStep
<1> QED BY TypeCorrect, CleanupInit, <1>1, <1>2, PTL DEF Spec

-----------------------------------------------------------------------------
(* The service implements ScanPromise.                                     *)

\* The verdict stands or falls with the records that name the file.
LEMMA VerdictIs ==
  ASSUME TypeOK, NEW q \in Requests
  PROVE  /\ ~OnRecord(q) => Verdict(q) = "pending"
         /\ (\E s \in Records(q) : Drop(s)) => Verdict(q) = "drop"
<1>1. \A s \in Records(q) : s.file => OnRecord(q)
  BY DEF Records, OnRecord, TypeOK
<1>2. \A s : Drop(s) => s.file
  BY DEF Drop
<1> QED BY <1>1, <1>2 DEF Verdict

LEMMA VerdictStep ==
  ASSUME TypeOK, FileOnceInv, [Next]_vars, NEW q \in Requests
  PROVE  \/ Verdict(q)' = Verdict(q)
         \/ /\ Emit(q) /\ Verdict(q) = "pending"
            /\ Verdict(q)' \in Promise!Allowed
<1>1. CASE Records(q)' = Records(q)
  BY <1>1, DropStable DEF Verdict
<1>2. CASE /\ Emit(q) /\ emitting[q] \in FileScan
           /\ Records(q)' = Records(q) \cup {emitting[q]}
  <2> DEFINE s == emitting[q]
  <2>1. Verdict(q)' = IF \A t \in Records(q) \cup {s} : ~t.file THEN "pending"
                      ELSE IF \E t \in Records(q) \cup {s} : Drop(t) THEN "drop"
                      ELSE "keep"
    BY <1>2, DropStable DEF Verdict
  <2> HIDE DEF s
  <2>2. CASE ~s.file
    <3>1. ~Drop(s)
      BY <2>2 DEF Drop
    <3> QED BY <2>1, <2>2, <3>1 DEF Verdict
  <2>3. CASE s.file
    <3>1. Writing(q)
      BY <1>2, <2>3 DEF Writing, Emit, s
    <3>2. ~OnRecord(q)
      BY <3>1 DEF FileOnceInv, FileOnce
    <3>3. Verdict(q) = "pending" /\ \A t \in Records(q) : ~t.file
      BY <3>2, VerdictIs DEF Records, OnRecord, TypeOK
    <3>4. \A t \in Records(q) : ~Drop(t)
      BY <3>3 DEF Drop
    <3>5. Verdict(q)' = IF Drop(s) THEN "drop" ELSE "keep"
      BY <2>1, <2>3, <3>4
    <3>6. Verdict(q)' \in Promise!Allowed
      BY <2>3, <3>5, FileScanAssumption DEF Promise!Allowed, Drop
    <3> QED BY <1>2, <3>3, <3>6
  <2> QED BY <2>2, <2>3
<1> QED BY <1>1, <1>2, RecordsStep

LEMMA PromiseInit == Init => Promise!Init
<1> SUFFICES ASSUME Init PROVE Promise!Init
  OBVIOUS
<1>1. \A q \in Requests : Records(q) = {}
  BY DEF Init, Records
<1>2. \A q \in Requests : Verdict(q) = "pending"
  BY <1>1 DEF Verdict
<1> QED BY <1>2 DEF Init, Promise!Init

LEMMA PromiseStep ==
  ASSUME TypeOK, FileOnceInv, CleanupInv, [Next]_vars
  PROVE  [Promise!Next]_<<[q \in Requests |-> Verdict(q)], present>>
<1> DEFINE verdict == [q \in Requests |-> Verdict(q)]
<1>1. ASSUME NEW q \in Requests, Emit(q) PROVE [Promise!Next]_<<verdict, present>>
  <2>1. UNCHANGED present
    BY <1>1 DEF Emit
  <2>2. \A p \in Requests : p # q => Verdict(p)' = Verdict(p)
    <3> SUFFICES ASSUME NEW p \in Requests, p # q PROVE Verdict(p)' = Verdict(p)
      OBVIOUS
    <3>1. output'[p] = output[p]
      BY <1>1, EmitFacts
    <3> QED BY <3>1, DropStable DEF Verdict, Records
  <2>3. CASE Verdict(q)' = Verdict(q)
    BY <2>1, <2>2, <2>3
  <2>4. CASE Verdict(q) = "pending" /\ Verdict(q)' \in Promise!Allowed
    <3>1. verdict' = [verdict EXCEPT ![q] = Verdict(q)']
      BY <2>2
    <3>2. Promise!Decide(q)
      BY <2>1, <2>4, <3>1 DEF Promise!Decide
    <3> QED BY <3>2 DEF Promise!Next
  <2> QED BY <2>3, <2>4, VerdictStep
<1>2. CASE ~\E q \in Requests : Emit(q)
  <2>1. \A q \in Requests : Verdict(q)' = Verdict(q)
    BY <1>2, VerdictStep
  <2>2. UNCHANGED verdict
    BY <2>1
  <2>3. ASSUME NEW q \in Requests, Unlink(q) PROVE Promise!Next
    <3>1. present' = present \ {FileOf[q]} /\ verdict[q] = "drop"
      BY <2>3, UnlinkFacts, VerdictIs
    <3>2. FileOf[q] \in Files
      BY FileScanAssumption
    <3>3. Promise!Delete(FileOf[q])
      BY <2>2, <3>1 DEF Promise!Delete
    <3> QED BY <3>2, <3>3 DEF Promise!Next
  <2> QED BY <2>2, <2>3, PresentStep
<1> QED BY <1>1, <1>2

(* The service implements its promise: a request is decided once, for good *)
(* and as the policy allows, and a file goes only on a decision to drop it.*)
THEOREM ImplementsPromise == Spec => KeepsPromise
<1>1. TypeOK /\ CleanupInv /\ [Next]_vars => CleanupInv'
  BY CleanupStep
<1>2. IInv /\ FileOnceInv /\ [Next]_vars => FileOnceInv'
  BY FileOnceStep
<1>3. IInv => TypeOK
  BY DEF IInv, TypeInv
<1>4. TypeOK /\ FileOnceInv /\ CleanupInv /\ [Next]_vars
      => [Promise!Next]_<<[q \in Requests |-> Verdict(q)], present>>
  BY PromiseStep
<1> QED BY Invariance, OnceInit, CleanupInit, PromiseInit, <1>1, <1>2, <1>3, <1>4, PTL
        DEF Spec, KeepsPromise, Promise!Spec

-----------------------------------------------------------------------------
(* What a record says of a scanner is what its scan found.  The logger     *)
(* follows the task of w for q from its begin: every result published      *)
(* since is noted or on its way, the end is behind them, and after the end *)
(* nothing comes.                                                          *)

\* What the logger has heard of w for q.
Heard(w, q) == IF q \in DOMAIN scans THEN scans[q].results[w] ELSE NoResult

Mine(i, w, q)      == Of(inbox[i], w, q)
BeginAt(i, w, q)   == Mine(i, w, q) /\ inbox[i].type = "begin"
EndAt(i, w, q)     == Mine(i, w, q) /\ inbox[i].type \in {"end", "timeout"}
ResultAt(i, w, q, f) == Mine(i, w, q) /\ inbox[i].type = "result" /\ inbox[i].finding = f

BeginComes(w, q)     == \E i \in 1 .. Len(inbox) : BeginAt(i, w, q)
ResultComes(w, q, f) == \E i \in 1 .. Len(inbox) : ResultAt(i, w, q, f)

\* The two findings that a verdict is made of.
Marks == {"hit", "error"}
Marked(r, f) == r.state = "open" /\ IF f = "hit" THEN r.hit ELSE r.error

Told(w, q, f) ==
  \E j \in 1 .. Len(outcome[w][q].results) : j <= sent[w][q] /\ outcome[w][q].results[j] = f

OrderOK(w, q) ==
  /\ \A i, j \in 1 .. Len(inbox) : BeginAt(i, w, q) /\ Mine(j, w, q) => i <= j
  /\ \A i, j \in 1 .. Len(inbox) : EndAt(i, w, q) /\ Mine(j, w, q) => j <= i
  /\ \A i \in 1 .. Len(inbox) : EndAt(i, w, q) => inbox[i].type = outcome[w][q].last
  /\ BeginComes(w, q) => Heard(w, q).state = "absent"
  /\ Heard(w, q).state = "done" => \A i \in 1 .. Len(inbox) : ~Mine(i, w, q)
  /\ task[w][q] \in {"none", "queued"} =>
       Heard(w, q).state = "absent" /\ \A i \in 1 .. Len(inbox) : ~Mine(i, w, q)

Followed(w, q) == BeginComes(w, q) \/ Heard(w, q).state = "open"

TallyOK(w, q) ==
  /\ task[w][q] = "finished" => Len(outcome[w][q].results) <= sent[w][q]
  /\ Followed(w, q) /\ task[w][q] \in {"begun", "scanning", "sending", "finished"} =>
       \A f \in Marks : Marked(Heard(w, q), f) \/ ResultComes(w, q, f) <=> Told(w, q, f)

Found(o, f) == \E i \in DOMAIN o.results : o.results[i] = f

\* What VerdictsAreFaithful says of one part of a scan.
Faithful(r, o) ==
  r.state = "done" => /\ r.hit = Found(o, "hit")
                      /\ r.errored = (o.last = "timeout" \/ Found(o, "error"))

FaithOK(w, q) ==
  /\ Faithful(Heard(w, q), outcome[w][q])
  /\ q \in DOMAIN emitting => Faithful(emitting[q].results[w], outcome[w][q])
  /\ \A i \in 1 .. Len(output[q]) : Faithful(output[q][i].results[w], outcome[w][q])

\* A logger that is not up has nothing on its subscription or in its map.
DownInv == logger # "up" => inbox = <<>> /\ scans = EmptyMap

PairOK(w, q) == OrderOK(w, q) /\ TallyOK(w, q) /\ FaithOK(w, q)
PairInv == \A w \in Scanners, q \in Requests : PairOK(w, q)

LEMMA DownStep ==
  ASSUME DownInv, [Next]_vars
  PROVE  DownInv'
<1>1. CASE UNCHANGED <<logger, inbox, scans>>
  BY <1>1 DEF DownInv
<1>2. CASE UNCHANGED <<logger, scans>> /\ \E m : Publish(m)
  BY <1>2 DEF DownInv, Publish
<1>3. ASSUME NEW w \in Scanners, NEW q \in Requests, ScannerStep(w, q) PROVE DownInv'
  <2>1. UNCHANGED <<logger, scans>>
    BY <1>3 DEF ScannerStep, Begin, OpenFile, FinishScan, Send, CancelTask, loggerVars
  <2>2. UNCHANGED inbox \/ \E m : Publish(m)
    BY <1>3 DEF ScannerStep, Begin, OpenFile, FinishScan, Send, SendNext, CancelTask
  <2> QED BY <1>1, <1>2, <2>1, <2>2
<1>4. ASSUME NEW q \in Requests, PublishSubmit(q) \/ Emit(q)
      PROVE  UNCHANGED <<logger, scans>> /\ \E m : Publish(m)
  BY <1>4 DEF PublishSubmit, Emit, loggerVars
<1>5. CASE Handle
  BY <1>5 DEF Handle, DownInv
<1>6. CASE KillLogger \/ StartLogger
  BY <1>6 DEF KillLogger, StartLogger, DownInv
<1>7. ASSUME NEW q \in Requests, Observe(q) \/ PublishRequest(q) \/ StartDelete(q) \/ Unlink(q)
      PROVE  UNCHANGED <<logger, inbox, scans>>
  BY <1>7 DEF Observe, PublishRequest, StartDelete, Unlink, loggerVars
<1>8. ASSUME NEW w \in Scanners, ExitScanner(w) \/ StartScanner(w) \/ StopScanner(w) \/ KillScanner(w)
      PROVE  UNCHANGED <<logger, inbox, scans>>
  BY <1>8 DEF ExitScanner, StartScanner, StopScanner, KillScanner, loggerVars
<1>9. CASE CrashWatcher \/ Idle \/ UNCHANGED vars
  BY <1>1, <1>9 DEF CrashWatcher, Idle, vars, loggerVars
<1> QED BY <1>1, <1>2, <1>3, <1>4, <1>5, <1>6, <1>7, <1>8, <1>9 DEF Next, Stop, LoggerStep

\* Nothing is published, or something that is not of w and q.
Unheard(w, q) ==
  inbox' = inbox \/ \E m \in Message : Publish(m) /\ ~Of(m, w, q)

LEMMA UnheardInbox ==
  ASSUME TypeOK, NEW w, NEW q, Unheard(w, q)
  PROVE  /\ \A i \in 1 .. Len(inbox') :
              Mine(i, w, q)' => i \in 1 .. Len(inbox) /\ inbox'[i] = inbox[i]
         /\ \A i \in 1 .. Len(inbox) : i \in 1 .. Len(inbox') /\ inbox'[i] = inbox[i]
<1>1. CASE inbox' = inbox
  BY <1>1
<1>2. ASSUME NEW m \in Message, ~Of(m, w, q),
             /\ Len(inbox) \in Nat /\ Len(inbox') = Len(inbox) + 1
             /\ inbox'[Len(inbox) + 1] = m
             /\ \A i \in 1 .. Len(inbox) : inbox'[i] = inbox[i]
      PROVE  /\ \A i \in 1 .. Len(inbox') :
                  Mine(i, w, q)' => i \in 1 .. Len(inbox) /\ inbox'[i] = inbox[i]
             /\ \A i \in 1 .. Len(inbox) : i \in 1 .. Len(inbox') /\ inbox'[i] = inbox[i]
  BY <1>2 DEF Mine
<1> QED BY <1>1, <1>2, PublishCases DEF Unheard

\* A step that is not of this pair.
LEMMA OrderTallyOther ==
  ASSUME TypeOK, NEW w \in Scanners, NEW q \in Requests, OrderOK(w, q), TallyOK(w, q),
         Unheard(w, q), UNCHANGED scans,
         outcome'[w][q] = outcome[w][q], sent'[w][q] = sent[w][q],
         \/ task'[w][q] = task[w][q]
         \/ task'[w][q] = "lost"
         \/ task[w][q] = "none" /\ task'[w][q] = "queued"
  PROVE  OrderOK(w, q)' /\ TallyOK(w, q)'
<1>1. /\ \A i \in 1 .. Len(inbox') :
           Mine(i, w, q)' => i \in 1 .. Len(inbox) /\ inbox'[i] = inbox[i]
      /\ \A i \in 1 .. Len(inbox) : i \in 1 .. Len(inbox') /\ inbox'[i] = inbox[i]
  BY UnheardInbox
<1>2. \A i \in 1 .. Len(inbox') :
        /\ Mine(i, w, q)' => i \in 1 .. Len(inbox) /\ Mine(i, w, q)
        /\ BeginAt(i, w, q)' => i \in 1 .. Len(inbox) /\ BeginAt(i, w, q)
        /\ EndAt(i, w, q)' => i \in 1 .. Len(inbox) /\ EndAt(i, w, q) /\ inbox'[i] = inbox[i]
  BY <1>1 DEF Mine, BeginAt, EndAt
<1>3. Heard(w, q)' = Heard(w, q)
  BY DEF Heard
<1>4. BeginComes(w, q)' => BeginComes(w, q)
  BY <1>2 DEF BeginComes
<1>5. OrderOK(w, q)'
  BY <1>2, <1>3, <1>4 DEF OrderOK
<1>6. \A f : ResultComes(w, q, f)' <=> ResultComes(w, q, f)
  BY <1>1 DEF ResultComes, ResultAt, Mine
<1>7. \A f : Told(w, q, f)' <=> Told(w, q, f)
  BY DEF Told
<1>8. TallyOK(w, q)'
  BY <1>3, <1>4, <1>6, <1>7 DEF TallyOK, Followed, Marked, Marks
<1> QED BY <1>5, <1>8

\* The results and the end a task publishes, in their order.
LEMMA MessageAt ==
  ASSUME NEW o \in Outcome, NEW q \in Requests, NEW w \in Scanners,
         NEW n \in 1 .. Len(o.results) + 1
  PROVE  Messages(o, q, w)[n] =
           IF n <= Len(o.results) THEN ResultMsg(q, w, o.results[n]) ELSE Note(o.last, q, w)
<1> DEFINE rs == [i \in 1 .. Len(o.results) |-> ResultMsg(q, w, o.results[i])]
           end == Note(o.last, q, w)
<1>1. o.results \in Seq(Findings) /\ Len(o.results) \in Nat
  BY DEF Outcome
<1>2. \A i \in 1 .. Len(o.results) : ResultMsg(q, w, o.results[i]) \in Message
  <2> SUFFICES ASSUME NEW i \in 1 .. Len(o.results) PROVE ResultMsg(q, w, o.results[i]) \in Message
    OBVIOUS
  <2>1. o.results[i] \in Findings
    BY <1>1
  <2> QED BY <2>1 DEF ResultMsg, Message
<1>3. rs \in Seq(Message) /\ Len(rs) = Len(o.results)
  BY <1>1, <1>2
<1>4. <<end>> \in Seq(Message) /\ Len(<<end>>) = 1 /\ <<end>>[1] = end
  BY DEF Note, Message, Outcome
<1>5. Messages(o, q, w) = rs \o <<end>>
  BY DEF Messages
<1>6. (rs \o <<end>>)[n] = IF n <= Len(rs) THEN rs[n] ELSE <<end>>[n - Len(rs)]
  BY <1>3, <1>4, ConcatProperties, n \in 1 .. Len(rs) + Len(<<end>>)
<1>7. CASE n <= Len(o.results)
  BY <1>1, <1>3, <1>5, <1>6, <1>7
<1>8. CASE ~(n <= Len(o.results))
  <2>1. n - Len(rs) = 1
    BY <1>1, <1>3, <1>8
  <2> QED BY <1>3, <1>4, <1>5, <1>6, <1>8, <2>1
<1> QED BY <1>7, <1>8

\* Publishing a message of the pair.
LEMMA OwnInbox ==
  ASSUME TypeOK, NEW w, NEW q, NEW m \in Message, Publish(m), Of(m, w, q), logger = "up"
  PROVE  /\ Len(inbox) \in Nat /\ Len(inbox') = Len(inbox) + 1
         /\ \A i \in 1 .. Len(inbox') :
              \/ i \in 1 .. Len(inbox) /\ inbox'[i] = inbox[i]
              \/ i = Len(inbox) + 1 /\ inbox'[i] = m
         /\ \A i \in 1 .. Len(inbox) : i \in 1 .. Len(inbox') /\ inbox'[i] = inbox[i]
         /\ Len(inbox) + 1 \in 1 .. Len(inbox') /\ inbox'[Len(inbox) + 1] = m
<1>1. /\ Len(inbox) \in Nat /\ Len(inbox') = Len(inbox) + 1
      /\ inbox'[Len(inbox) + 1] = m
      /\ \A i \in 1 .. Len(inbox) : inbox'[i] = inbox[i]
  BY PublishCases
<1> QED BY <1>1

\* The end of a task that has not finished cannot be on its way.
LEMMA NoEndYet ==
  ASSUME IInv, NEW w \in Scanners, NEW q \in Requests, task[w][q] # "finished"
  PROVE  /\ \A i \in 1 .. Len(inbox) : ~EndAt(i, w, q)
         /\ Heard(w, q).state # "done"
         /\ q \in DOMAIN emitting => emitting[q].results[w].state # "done"
         /\ \A i \in 1 .. Len(output[q]) : output[q][i].results[w].state # "done"
<1>1. \A i \in 1 .. Len(inbox) : ~EndAt(i, w, q)
  BY DEF IInv, InboxInv, MessageOK, EndAt, Mine, Of
<1>2. Heard(w, q).state # "done"
  BY DEF IInv, ScansInv, ScanOK, Heard, NoResult
<1>3. q \in DOMAIN emitting => emitting[q].results[w].state # "done"
  BY DEF IInv, EmittingInv, ScanOK
<1>4. \A i \in 1 .. Len(output[q]) : output[q][i].results[w].state # "done"
  BY DEF IInv, OutputInv, ScanOK
<1> QED BY <1>1, <1>2, <1>3, <1>4

\* While the task runs, what is not done needs no faith.
LEMMA FaithRunning ==
  ASSUME IInv, NEW w \in Scanners, NEW q \in Requests, task[w][q] # "finished",
         UNCHANGED <<scans, emitting, output>>
  PROVE  FaithOK(w, q)'
<1>1. Heard(w, q)' = Heard(w, q)
  BY DEF Heard
<1> QED BY <1>1, NoEndYet DEF FaithOK, Faithful

\* The task publishes its begin.
LEMMA PairBegin ==
  ASSUME IInv, DownInv, NEW w \in Scanners, NEW q \in Requests, OrderOK(w, q), Begin(w, q)
  PROVE  OrderOK(w, q)' /\ TallyOK(w, q)'
<1> DEFINE m == Note("begin", q, w)
<1>1. TypeOK /\ SentInv
  BY DEF IInv, TypeInv
<1>2. m \in Message /\ Of(m, w, q) /\ m.type = "begin" /\ Publish(m)
  BY DEF Note, Message, Of, Begin
<1>3. task[w][q] = "queued" /\ task'[w][q] = "begun" /\ UNCHANGED <<outcome, sent, scans>> /\ sent[w][q] = 0
  BY <1>1 DEF Begin, SetTask, TypeOK, SentInv, loggerVars
<1>4. Heard(w, q)' = Heard(w, q) /\ Heard(w, q).state = "absent" /\ \A i \in 1 .. Len(inbox) : ~Mine(i, w, q)
  BY <1>3 DEF OrderOK, Heard
<1> HIDE DEF m
<1>5. \A f : ~Told(w, q, f)'
  BY <1>3 DEF Told
<1>6. CASE logger # "up"
  <2>1. Len(inbox') = 0
    BY <1>2, <1>6 DEF Publish, DownInv
  <2> QED BY <1>3, <1>4, <2>1 DEF OrderOK, TallyOK, Followed, BeginComes
<1>7. CASE logger = "up"
  <2>1. \A i \in 1 .. Len(inbox') : Mine(i, w, q)' => i = Len(inbox) + 1 /\ inbox'[i] = m
    BY <1>1, <1>2, <1>4, <1>7, OwnInbox DEF Mine
  <2>2. \A i \in 1 .. Len(inbox') : ~EndAt(i, w, q)' /\ \A f : ~ResultAt(i, w, q, f)'
    BY <1>2, <2>1 DEF EndAt, ResultAt
  <2>3. OrderOK(w, q)'
    <3>1. Len(inbox) \in Nat
      BY <1>1 DEF TypeOK
    <3>2. \A i, j \in 1 .. Len(inbox') : BeginAt(i, w, q)' /\ Mine(j, w, q)' => i <= j
      BY <2>1, <3>1 DEF BeginAt
    <3> QED BY <1>3, <1>4, <2>2, <3>2 DEF OrderOK
  <2>4. TallyOK(w, q)'
    BY <1>3, <1>4, <1>5, <2>2 DEF TallyOK, Marked, ResultComes
  <2> QED BY <2>3, <2>4
<1> QED BY <1>6, <1>7

\* The scan goes on, or ends with an outcome; nothing has been published yet.
LEMMA PairScan ==
  ASSUME IInv, NEW w \in Scanners, NEW q \in Requests, OrderOK(w, q), TallyOK(w, q),
         OpenFile(w, q) \/ FinishScan(w, q)
  PROVE  OrderOK(w, q)' /\ TallyOK(w, q)'
<1>1. TypeOK /\ SentInv
  BY DEF IInv, TypeInv
<1>2. /\ task[w][q] \in {"begun", "scanning"} /\ task'[w][q] \in {"scanning", "sending"}
      /\ UNCHANGED <<inbox, sent, scans>> /\ sent[w][q] = 0
  BY <1>1 DEF OpenFile, FinishScan, SetTask, TypeOK, SentInv, loggerVars
<1>3. Heard(w, q)' = Heard(w, q)
  BY <1>2 DEF Heard
<1>4. \A f : ~Told(w, q, f) /\ ~Told(w, q, f)'
  BY <1>2 DEF Told
<1>5. \A i \in 1 .. Len(inbox) : ~EndAt(i, w, q)
  BY <1>2, NoEndYet
<1>6. OrderOK(w, q)'
  BY <1>2, <1>3, <1>5 DEF OrderOK, BeginAt, EndAt, Mine, BeginComes
<1>7. TallyOK(w, q)'
  BY <1>2, <1>3, <1>4 DEF TallyOK, Followed, BeginComes, BeginAt, Mine, ResultComes, ResultAt, Marked
<1> QED BY <1>6, <1>7

\* A result, or the end, takes its place behind what came before.
LEMMA OrderPublish ==
  ASSUME IInv, DownInv, NEW w \in Scanners, NEW q \in Requests, OrderOK(w, q),
         NEW m \in Message, Of(m, w, q), m.type # "begin", Publish(m),
         m.type \in {"end", "timeout"} => m.type = outcome[w][q].last,
         UNCHANGED <<outcome, scans>>,
         task[w][q] # "finished", task'[w][q] \notin {"none", "queued"}
  PROVE  OrderOK(w, q)'
<1>1. TypeOK
  BY DEF IInv, TypeInv
<1>2. Heard(w, q)' = Heard(w, q) /\ Heard(w, q).state # "done" /\ \A i \in 1 .. Len(inbox) : ~EndAt(i, w, q)
  BY NoEndYet DEF Heard
<1>3. CASE logger # "up"
  <2>1. Len(inbox') = 0
    BY <1>3 DEF Publish, DownInv
  <2> QED BY <1>2, <2>1 DEF OrderOK, BeginComes
<1>4. CASE logger = "up"
  <2>1. /\ Len(inbox) \in Nat /\ Len(inbox') = Len(inbox) + 1
        /\ \A i \in 1 .. Len(inbox') :
             \/ i \in 1 .. Len(inbox) /\ inbox'[i] = inbox[i]
             \/ i = Len(inbox) + 1 /\ inbox'[i] = m
    BY <1>1, <1>4, OwnInbox
  <2>2. \A i \in 1 .. Len(inbox') :
          /\ BeginAt(i, w, q)' => i \in 1 .. Len(inbox) /\ BeginAt(i, w, q)
          /\ EndAt(i, w, q)' => i = Len(inbox) + 1 /\ inbox'[i] = m /\ m.type \in {"end", "timeout"}
          /\ Mine(i, w, q)' => (i \in 1 .. Len(inbox) /\ Mine(i, w, q)) \/ i = Len(inbox) + 1
    BY <1>2, <2>1 DEF BeginAt, EndAt, Mine
  <2>3. \A i, j \in 1 .. Len(inbox') : BeginAt(i, w, q)' /\ Mine(j, w, q)' => i <= j
    <3> SUFFICES ASSUME NEW i \in 1 .. Len(inbox'), NEW j \in 1 .. Len(inbox'), BeginAt(i, w, q)', Mine(j, w, q)'
                 PROVE  i <= j
      OBVIOUS
    <3>1. i \in 1 .. Len(inbox) /\ BeginAt(i, w, q)
      BY <2>2
    <3>2. CASE j \in 1 .. Len(inbox) /\ Mine(j, w, q)
      BY <3>1, <3>2 DEF OrderOK
    <3>3. CASE j = Len(inbox) + 1
      BY <2>1, <3>1, <3>3
    <3> QED BY <2>2, <3>2, <3>3
  <2>4. \A i, j \in 1 .. Len(inbox') : EndAt(i, w, q)' /\ Mine(j, w, q)' => j <= i
    BY <2>1, <2>2
  <2>5. \A i \in 1 .. Len(inbox') : EndAt(i, w, q)' => inbox'[i].type = outcome'[w][q].last
    BY <2>2
  <2>6. BeginComes(w, q)' => BeginComes(w, q)
    BY <2>2 DEF BeginComes
  <2> QED BY <1>2, <2>3, <2>4, <2>5, <2>6 DEF OrderOK
<1> QED BY <1>3, <1>4

\* The next result, or the end, is published and counted as sent.
LEMMA PairSend ==
  ASSUME IInv, DownInv, NEW w \in Scanners, NEW q \in Requests, OrderOK(w, q), TallyOK(w, q),
         NEW t \in {"sending", "lost"}, SendNext(w, q, t), UNCHANGED <<outcome, scans>>
  PROVE  OrderOK(w, q)' /\ TallyOK(w, q)'
<1> DEFINE o  == outcome[w][q]
           L  == Len(o.results)
           ms == Messages(o, q, w)
           n  == sent[w][q] + 1
           m  == IF n <= L THEN ResultMsg(q, w, o.results[n]) ELSE Note(o.last, q, w)
<1>1. TypeOK /\ SentInv
  BY DEF IInv, TypeInv
<1>2. /\ task[w][q] = "sending" /\ o \in Outcome /\ L \in Nat
      /\ sent[w][q] \in Nat /\ sent[w][q] <= L /\ n \in 1 .. L + 1
  BY <1>1 DEF SendNext, TypeOK, SentInv, Outcome
<1>3. Len(ms) = L + 1 /\ ms[n] = m
  <2>1. Len(ms) = L + 1
    BY <1>2, MessagesType
  <2>2. ms[n] = m
    BY <1>2, MessageAt
  <2> QED BY <2>1, <2>2
<1>4. /\ Publish(ms[n]) /\ sent' = [sent EXCEPT ![w][q] = n]
      /\ SetTask(w, q, IF n = Len(ms) THEN "finished" ELSE t)
  BY Zenon DEF SendNext
<1>5. Publish(m)
  BY <1>3, <1>4
<1>6. sent'[w][q] = n /\ task'[w][q] = IF n = L + 1 THEN "finished" ELSE t
  <2>1. n \in Nat
    BY <1>2
  <2> HIDE DEF n, m, ms, L
  <2> QED BY <1>1, <1>3, <1>4, <2>1 DEF TypeOK, SetTask
<1>7. /\ m \in Message /\ Of(m, w, q) /\ m.type # "begin"
      /\ m.type \in {"end", "timeout"} => m.type = o.last
      /\ \A f : m.type = "result" /\ m.finding = f <=> n <= L /\ o.results[n] = f
  <2>1. CASE n <= L
    <3>1. o.results[n] \in Findings
      BY <1>2, <2>1 DEF Outcome
    <3> QED BY <2>1, <3>1 DEF ResultMsg, Message, Of
  <2>2. CASE ~(n <= L)
    BY <1>2, <2>2 DEF Note, Message, Of, Outcome
  <2> QED BY <2>1, <2>2
<1> HIDE DEF m
<1>8. OrderOK(w, q)'
  <2>1. task'[w][q] \notin {"none", "queued"} /\ task[w][q] # "finished"
    BY <1>2, <1>6
  <2> QED BY <1>5, <1>7, <2>1, OrderPublish
<1>9. task'[w][q] = "finished" => Len(outcome'[w][q].results) <= sent'[w][q]
  BY <1>2, <1>6
<1>10. \A f : Told(w, q, f)' <=> Told(w, q, f) \/ (n <= L /\ o.results[n] = f)
  <2>1. Len(outcome'[w][q].results) = L /\ outcome'[w][q].results = o.results
    OBVIOUS
  <2>2. \A j \in 1 .. L : j <= n <=> j <= sent[w][q] \/ j = n
    BY <1>2
  <2>3. n <= L <=> n \in 1 .. L
    BY <1>2
  <2> HIDE DEF n, L
  <2>4. \A f : Told(w, q, f)' <=> \E j \in 1 .. L : j <= n /\ o.results[j] = f
    BY <1>6, <2>1 DEF Told
  <2>5. \A f : Told(w, q, f) <=> \E j \in 1 .. L : j <= sent[w][q] /\ o.results[j] = f
    BY DEF Told, L
  <2> QED BY <2>2, <2>3, <2>4, <2>5
<1>11. Heard(w, q)' = Heard(w, q)
  BY DEF Heard
<1>12. CASE logger # "up"
  <2>1. Len(inbox') = 0 /\ Heard(w, q)' = NoResult
    BY <1>5, <1>11, <1>12, EmptyMapType DEF Publish, DownInv, Heard
  <2>2. ~Followed(w, q)'
    BY <2>1 DEF Followed, BeginComes, NoResult
  <2> QED BY <1>8, <1>9, <2>2 DEF TallyOK
<1>13. CASE logger = "up"
  <2>1. /\ \A i \in 1 .. Len(inbox') :
             \/ i \in 1 .. Len(inbox) /\ inbox'[i] = inbox[i]
             \/ i = Len(inbox) + 1 /\ inbox'[i] = m
        /\ \A i \in 1 .. Len(inbox) : i \in 1 .. Len(inbox') /\ inbox'[i] = inbox[i]
        /\ Len(inbox) + 1 \in 1 .. Len(inbox') /\ inbox'[Len(inbox) + 1] = m
    BY <1>1, <1>5, <1>7, <1>13, OwnInbox
  <2>2. \A f : ResultComes(w, q, f)' <=> ResultComes(w, q, f) \/ (m.type = "result" /\ m.finding = f)
    BY <1>7, <2>1 DEF ResultComes, ResultAt, Mine
  <2>3. BeginComes(w, q)' => BeginComes(w, q)
    BY <1>7, <2>1 DEF BeginComes, BeginAt, Mine
  <2>4. Followed(w, q)' => Followed(w, q)
    BY <1>11, <2>3 DEF Followed
  <2>5. Followed(w, q) => \A f \in Marks : Marked(Heard(w, q), f) \/ ResultComes(w, q, f) <=> Told(w, q, f)
    BY <1>2 DEF TallyOK
  <2>6. Followed(w, q)' => \A f \in Marks : Marked(Heard(w, q)', f) \/ ResultComes(w, q, f)' <=> Told(w, q, f)'
    BY <1>7, <1>10, <1>11, <2>2, <2>4, <2>5
  <2>7. \A f : Marked(Heard(w, q), f)' <=> Marked(Heard(w, q)', f)
    BY DEF Marked
  <2> QED BY <1>8, <1>9, <2>6, <2>7 DEF TallyOK
<1> QED BY <1>12, <1>13

\* A step of the task itself.
LEMMA PairOwn ==
  ASSUME IInv, DownInv, NEW w \in Scanners, NEW q \in Requests, PairOK(w, q), ScannerStep(w, q)
  PROVE  PairOK(w, q)'
<1>1. TypeOK /\ SentInv /\ OrderOK(w, q) /\ TallyOK(w, q)
  BY DEF IInv, TypeInv, PairOK
<1>2. FaithOK(w, q)'
  <2>1. UNCHANGED <<scans, emitting, output>> /\ task[w][q] # "finished"
    BY <1>1, TaskStep DEF Live
  <2> QED BY <2>1, FaithRunning
<1>3. CASE Begin(w, q)
  BY <1>1, <1>2, <1>3, PairBegin DEF PairOK
<1>4. CASE OpenFile(w, q) \/ FinishScan(w, q)
  BY <1>1, <1>2, <1>4, PairScan DEF PairOK
<1>5. ASSUME NEW t \in {"sending", "lost"}, SendNext(w, q, t), UNCHANGED <<outcome, scans>>
      PROVE  PairOK(w, q)'
  BY <1>1, <1>2, <1>5, PairSend DEF PairOK
<1>6. CASE Send(w, q)
  BY <1>5, <1>6 DEF Send, loggerVars
<1>7. CASE CancelTask(w, q)
  <2>1. UNCHANGED <<outcome, scans>>
    BY <1>7 DEF CancelTask, loggerVars
  <2>2. CASE task[w][q] \in Live /\ SetTask(w, q, "lost") /\ UNCHANGED <<inbox, sent>>
    <3>1. task'[w][q] = "lost"
      BY <1>1, <2>2 DEF SetTask, TypeOK
    <3> QED BY <1>1, <1>2, <2>1, <2>2, <3>1, OrderTallyOther DEF PairOK, Unheard
  <2>3. ASSUME NEW f \in FirstFindings(w, q), Publish(ResultMsg(q, w, f)), SetTask(w, q, "lost"),
               task[w][q] \in {"begun", "scanning"}
        PROVE  PairOK(w, q)'
    <3>1. task'[w][q] = "lost"
      BY <1>1, <2>3 DEF SetTask, TypeOK
    <3>2. f \in Findings
      BY FileScanAssumption DEF FirstFindings, Outcome, Findings
    <3>3. ResultMsg(q, w, f) \in Message /\ Of(ResultMsg(q, w, f), w, q) /\ ResultMsg(q, w, f).type = "result"
      BY <3>2 DEF ResultMsg, Message, Of
    <3>4. OrderOK(w, q)'
      BY <1>1, <2>1, <2>3, <3>1, <3>3, OrderPublish
    <3>5. TallyOK(w, q)'
      BY <3>1 DEF TallyOK
    <3> QED BY <1>2, <3>4, <3>5 DEF PairOK
  <2>4. CASE SendNext(w, q, "lost")
    BY <1>5, <2>1, <2>4
  <2> QED BY <1>7, <2>2, <2>3, <2>4 DEF CancelTask
<1> QED BY <1>3, <1>4, <1>6, <1>7 DEF ScannerStep

-----------------------------------------------------------------------------
(* The logger handles a message.                                           *)

\* What the message at the head makes of what was heard of w for q.
LEMMA HeardAfter ==
  ASSUME TypeOK, Handle, NEW w \in Scanners, NEW q \in Requests,
         NEW s \in FileScan, After(q, s)
  PROVE  LET m == Head(inbox)
             r == Heard(w, q)
             x == s.results[w]
         IN  /\ ~Of(m, w, q) => x = r
             /\ Of(m, w, q) /\ m.type = "begin" =>
                  x = IF r.state = "absent" THEN [NoResult EXCEPT !.state = "open"] ELSE r
             /\ Of(m, w, q) /\ m.type = "result" =>
                  /\ x.state = r.state
                  /\ r.state # "absent" =>
                       /\ x.hit = (r.hit \/ m.finding = "hit")
                       /\ x.error = (r.error \/ m.finding = "error")
             /\ Of(m, w, q) /\ m.type \in {"end", "timeout"} =>
                  IF r.state = "open"
                  THEN x.state = "done" /\ x.hit = r.hit /\ x.errored = (m.type = "timeout" \/ r.error)
                  ELSE x = r
<1> DEFINE m == Head(inbox)
           r == Heard(w, q)
           x == s.results[w]
<1>1. m \in Message
  BY HandleCases
<1>2. PICK p \in FileScan : Before(q, p) /\ s = IF q = m.id THEN UpdateScan(p, m) ELSE p
  BY DEF After
<1>3. p.results[w] = r /\ r \in FileResult
  <2>1. PICK a \in Ages : p = IF q \in DOMAIN scans THEN [scans[q] EXCEPT !.age = a] ELSE ForEvent(a)
    BY <1>2, Zenon DEF Before
  <2>2. q \in DOMAIN scans => p.results = scans[q].results
    BY <2>1 DEF TypeOK, IsScanMap, FileScan
  <2>3. q \notin DOMAIN scans => p.results[w] = NoResult
    BY <2>1 DEF ForEvent
  <2>4. p.results[w] \in FileResult
    BY DEF FileScan
  <2> QED BY <2>2, <2>3, <2>4 DEF Heard
<1>4. q = m.id =>
        x = IF m.type \in {"submit", "complete"} \/ m.name # w \/ ~Accepts(p, m) THEN r
            ELSE IF m.type = "begin" THEN [NoResult EXCEPT !.state = "open"]
            ELSE UpdateResult(r, m)
  <2> HIDE DEF m
  <2> QED BY <1>1, <1>2, <1>3, UpdateFields
<1>5. q # m.id => x = r
  BY <1>2, <1>3
<1>6. m.type \in {"submit", "begin", "result", "end", "timeout", "complete"}
  BY <1>1 DEF Message
<1> HIDE DEF m, r, x
<1>7. CASE ~Of(m, w, q)
  BY <1>4, <1>5, <1>6, <1>7 DEF Of, m, r, x
<1>8. CASE Of(m, w, q)
  <2>1. m.name = w /\ q = m.id /\ m.type \in {"begin", "result", "end", "timeout"}
    BY <1>8 DEF Of
  <2>2. Accepts(p, m) <=> \/ m.type = "begin" /\ r.state = "absent"
                          \/ m.type = "result" /\ r.state # "absent"
                          \/ m.type \in {"end", "timeout"} /\ r.state = "open"
    BY <1>3, <2>1 DEF Accepts
  <2>3. x = IF ~Accepts(p, m) THEN r
            ELSE IF m.type = "begin" THEN [NoResult EXCEPT !.state = "open"]
            ELSE UpdateResult(r, m)
    BY <1>4, <2>1, Zenon
  <2>4. CASE m.type = "begin"
    <3>1. x = IF r.state = "absent" THEN [NoResult EXCEPT !.state = "open"] ELSE r
      <4>1. CASE r.state = "absent"
        BY <2>2, <2>3, <2>4, <4>1, Zenon
      <4>2. CASE r.state # "absent"
        <5>1. ~Accepts(p, m)
          BY <2>2, <2>4, <4>2
        <5> QED BY <2>3, <4>2, <5>1, Zenon
      <4> QED BY <4>1, <4>2
    <3> QED BY <1>8, <2>4, <3>1 DEF m, r, x
  <2>5. CASE m.type = "result"
    <3>1. x = IF r.state = "absent" THEN r ELSE UpdateResult(r, m)
      BY <2>2, <2>3, <2>5
    <3>2. UpdateResult(r, m) = [r EXCEPT !.hit = r.hit \/ m.finding = "hit", !.error = r.error \/ m.finding = "error"]
      BY <2>5 DEF UpdateResult
    <3>3. /\ x.state = r.state
          /\ r.state # "absent" => /\ x.hit = (r.hit \/ m.finding = "hit")
                                   /\ x.error = (r.error \/ m.finding = "error")
      BY <1>3, <3>1, <3>2 DEF FileResult
    <3> QED BY <1>8, <2>5, <3>3 DEF m, r, x
  <2>6. CASE m.type \in {"end", "timeout"}
    <3>1. x = IF r.state = "open" THEN UpdateResult(r, m) ELSE r
      BY <2>2, <2>3, <2>6
    <3>2. r.state = "open" => UpdateResult(r, m) = [r EXCEPT !.state = "done", !.errored = m.type = "timeout" \/ r.error]
      BY <2>6 DEF UpdateResult
    <3>3. IF r.state = "open"
          THEN x.state = "done" /\ x.hit = r.hit /\ x.errored = (m.type = "timeout" \/ r.error)
          ELSE x = r
      BY <1>3, <3>1, <3>2 DEF FileResult
    <3> QED BY <1>8, <2>6, <3>3 DEF m, r, x
  <2> QED BY <2>1, <2>4, <2>5, <2>6
<1> QED BY <1>7, <1>8

\* The inbox without its head.
LEMMA HandleInbox ==
  ASSUME TypeOK, Handle, NEW w, NEW q
  PROVE  /\ \A i \in 1 .. Len(inbox') :
              /\ i + 1 \in 1 .. Len(inbox) /\ inbox'[i] = inbox[i + 1]
              /\ Mine(i, w, q)' <=> Mine(i + 1, w, q)
         /\ 1 \in 1 .. Len(inbox) /\ Head(inbox) = inbox[1] /\ (Mine(1, w, q) <=> Of(Head(inbox), w, q))
         /\ \A i \in 1 .. Len(inbox) : i = 1 \/ \E j \in 1 .. Len(inbox') : i = j + 1
<1>1. /\ Len(inbox) \in Nat /\ Len(inbox') = Len(inbox) - 1 /\ Head(inbox) = inbox[1]
      /\ 1 \in 1 .. Len(inbox)
      /\ \A i \in 1 .. Len(inbox') : i + 1 \in 1 .. Len(inbox) /\ inbox'[i] = inbox[i + 1]
  BY HandleCases, TailFacts
<1>2. \A i \in 1 .. Len(inbox) : i = 1 \/ (i - 1 \in 1 .. Len(inbox') /\ i = (i - 1) + 1)
  BY <1>1
<1> QED BY <1>1, <1>2 DEF Mine

\* What is heard of the pair after the message: nothing, what was heard
\* before, or what the message made of it.
LEMMA HeardNext ==
  ASSUME TypeOK, Handle, NEW w \in Scanners, NEW q \in Requests
  PROVE  \/ Heard(w, q)' = NoResult /\ (Of(Head(inbox), w, q) => q \in DOMAIN emitting')
         \/ Heard(w, q)' = Heard(w, q) /\ ~Of(Head(inbox), w, q)
         \/ \E s \in FileScan : After(q, s) /\ Heard(w, q)' = s.results[w]
<1>1. CASE Ignored(Head(inbox))
  BY <1>1, HandleCases DEF Ignored, Of, Heard
<1>2. CASE ~Ignored(Head(inbox)) /\ q \in DOMAIN scans'
  BY <1>2, HandleCases DEF Heard
<1>3. CASE ~Ignored(Head(inbox)) /\ q \notin DOMAIN scans'
  <2>1. Heard(w, q)' = NoResult
    BY <1>3 DEF Heard
  <2>2. Of(Head(inbox), w, q) => q \in DOMAIN scans' \cup DOMAIN emitting'
    BY <1>3, HandleCases DEF Of
  <2> QED BY <1>3, <2>1, <2>2
<1> QED BY <1>1, <1>2, <1>3

LEMMA HeardType ==
  ASSUME TypeOK, NEW w \in Scanners, NEW q \in Requests
  PROVE  Heard(w, q) \in FileResult
BY DEF TypeOK, IsScanMap, FileScan, Heard, NoResult, FileResult

\* The head, if it is of the pair: a begin is the only one, a result comes
\* after its begin, an end is the last.
LEMMA HeadOfPair ==
  ASSUME IInv, NEW w \in Scanners, NEW q \in Requests, OrderOK(w, q), Handle, Of(Head(inbox), w, q)
  PROVE  LET m == Head(inbox) IN
         /\ ~BeginComes(w, q)'
         /\ Heard(w, q).state # "done" /\ task[w][q] \notin {"none", "queued"}
         /\ m.type = "begin" => BeginComes(w, q)
         /\ m.type \in {"end", "timeout"} =>
              /\ m.type = outcome[w][q].last /\ task[w][q] = "finished"
              /\ \A i \in 1 .. Len(inbox') : ~Mine(i, w, q)'
              /\ \A f : ~ResultComes(w, q, f)
         /\ \A f : ResultComes(w, q, f) <=> ResultComes(w, q, f)' \/ (m.type = "result" /\ m.finding = f)
<1> DEFINE m == Head(inbox)
<1>1. /\ \A i \in 1 .. Len(inbox') :
           /\ i + 1 \in 1 .. Len(inbox) /\ inbox'[i] = inbox[i + 1]
           /\ Mine(i, w, q)' <=> Mine(i + 1, w, q)
      /\ 1 \in 1 .. Len(inbox) /\ m = inbox[1] /\ Mine(1, w, q)
      /\ \A i \in 1 .. Len(inbox) : i = 1 \/ \E j \in 1 .. Len(inbox') : i = j + 1
  BY HandleInbox DEF IInv, TypeInv
<1> HIDE DEF m
<1>2. ~BeginComes(w, q)'
  <2> SUFFICES ASSUME NEW i \in 1 .. Len(inbox'), BeginAt(i, w, q)' PROVE FALSE
    BY DEF BeginComes
  <2>1. BeginAt(i + 1, w, q) /\ i + 1 \in 1 .. Len(inbox)
    BY <1>1 DEF BeginAt
  <2>2. i + 1 <= 1
    BY <1>1, <2>1 DEF OrderOK
  <2> QED BY <2>2
<1>3. Heard(w, q).state # "done" /\ task[w][q] \notin {"none", "queued"}
  BY <1>1 DEF OrderOK
<1>4. m.type = "begin" => BeginComes(w, q)
  BY <1>1 DEF BeginComes, BeginAt
<1>5. ASSUME m.type \in {"end", "timeout"}
      PROVE  /\ m.type = outcome[w][q].last /\ task[w][q] = "finished"
             /\ \A i \in 1 .. Len(inbox') : ~Mine(i, w, q)'
             /\ \A f : ~ResultComes(w, q, f)
  <2>1. EndAt(1, w, q)
    BY <1>1, <1>5 DEF EndAt
  <2>2. m.type = outcome[w][q].last /\ \A j \in 1 .. Len(inbox) : Mine(j, w, q) => j <= 1
    BY <1>1, <2>1 DEF OrderOK
  <2>3. task[w][q] = "finished"
    BY <1>1, <2>1, NoEndYet
  <2>4. \A i \in 1 .. Len(inbox') : ~Mine(i, w, q)'
    <3> SUFFICES ASSUME NEW i \in 1 .. Len(inbox'), Mine(i, w, q)' PROVE FALSE
      OBVIOUS
    <3>1. i + 1 <= 1
      BY <1>1, <2>2
    <3> QED BY <3>1
  <2>5. \A f : ~ResultComes(w, q, f)
    <3> SUFFICES ASSUME NEW f, NEW i \in 1 .. Len(inbox), ResultAt(i, w, q, f) PROVE FALSE
      BY DEF ResultComes
    <3>1. i <= 1
      BY <2>2 DEF ResultAt
    <3>2. i = 1
      BY <3>1
    <3> QED BY <1>1, <1>5, <3>2 DEF ResultAt
  <2> QED BY <2>2, <2>3, <2>4, <2>5
<1>6. \A f : ResultComes(w, q, f) <=> ResultComes(w, q, f)' \/ (m.type = "result" /\ m.finding = f)
  <2>1. \A f : \A i \in 1 .. Len(inbox') : ResultAt(i, w, q, f)' <=> ResultAt(i + 1, w, q, f)
    BY <1>1 DEF ResultAt
  <2>2. \A f : ResultAt(1, w, q, f) <=> m.type = "result" /\ m.finding = f
    BY <1>1 DEF ResultAt
  <2> QED BY <1>1, <2>1, <2>2 DEF ResultComes
<1> QED BY <1>2, <1>3, <1>4, <1>5, <1>6 DEF m

\* A head that is of another pair leaves the pair's messages.
LEMMA HeadOfOther ==
  ASSUME TypeOK, NEW w \in Scanners, NEW q \in Requests, Handle, ~Of(Head(inbox), w, q)
  PROVE  /\ BeginComes(w, q)' <=> BeginComes(w, q)
         /\ \A f : ResultComes(w, q, f)' <=> ResultComes(w, q, f)
<1>1. /\ \A i \in 1 .. Len(inbox') :
           /\ i + 1 \in 1 .. Len(inbox) /\ inbox'[i] = inbox[i + 1]
           /\ Mine(i, w, q)' <=> Mine(i + 1, w, q)
      /\ ~Mine(1, w, q)
      /\ \A i \in 1 .. Len(inbox) : i = 1 \/ \E j \in 1 .. Len(inbox') : i = j + 1
  BY HandleInbox
<1>2. /\ \A i \in 1 .. Len(inbox') : BeginAt(i, w, q)' <=> BeginAt(i + 1, w, q)
      /\ \A f : \A i \in 1 .. Len(inbox') : ResultAt(i, w, q, f)' <=> ResultAt(i + 1, w, q, f)
  BY <1>1 DEF BeginAt, ResultAt
<1>3. ~BeginAt(1, w, q) /\ \A f : ~ResultAt(1, w, q, f)
  BY <1>1 DEF BeginAt, ResultAt
<1> QED BY <1>1, <1>2, <1>3 DEF BeginComes, ResultComes

\* What the message makes of the pair is faithful if it closes it.
LEMMA AfterFaithful ==
  ASSUME IInv, NEW w \in Scanners, NEW q \in Requests, PairOK(w, q), Handle,
         NEW s \in FileScan, After(q, s)
  PROVE  Faithful(s.results[w], outcome[w][q])
<1> DEFINE m == Head(inbox)
           r == Heard(w, q)
           x == s.results[w]
           o == outcome[w][q]
<1>1. TypeOK /\ OrderOK(w, q) /\ TallyOK(w, q) /\ Faithful(r, o)
  BY DEF IInv, TypeInv, PairOK, FaithOK
<1>2. r \in FileResult /\ o \in Outcome
  BY <1>1, HeardType DEF TypeOK
<1>3. CASE ~Of(m, w, q)
  BY <1>1, <1>3, HeardAfter
<1>4. CASE Of(m, w, q) /\ m.type \in {"begin", "result"}
  <2>1. r.state # "done"
    BY <1>1, <1>4, HeadOfPair
  <2>2. x.state # "done"
    BY <1>1, <1>4, <2>1, HeardAfter DEF NoResult
  <2> QED BY <2>2 DEF Faithful
<1>5. CASE Of(m, w, q) /\ m.type \in {"end", "timeout"}
  <2>1. /\ m.type = o.last /\ task[w][q] = "finished" /\ \A f : ~ResultComes(w, q, f)
    BY <1>1, <1>5, HeadOfPair
  <2>2. CASE r.state # "open"
    <3>1. x = r
      BY <1>1, <1>5, <2>2, HeardAfter
    <3> QED BY <1>1, <3>1
  <2>3. CASE r.state = "open"
    <3>1. x.hit = r.hit /\ x.errored = (m.type = "timeout" \/ r.error)
      BY <1>1, <1>5, <2>3, HeardAfter
    <3>2. \A f \in Marks : Marked(r, f) <=> Told(w, q, f)
      BY <1>1, <2>1, <2>3 DEF TallyOK, Followed
    <3>3. \A f : Told(w, q, f) <=> Found(o, f)
      <4>1. sent[w][q] \in Nat /\ Len(o.results) <= sent[w][q]
        BY <1>1, <2>1 DEF TallyOK, TypeOK
      <4>2. Len(o.results) \in Nat /\ DOMAIN o.results = 1 .. Len(o.results)
        BY <1>2 DEF Outcome
      <4>3. \A j \in 1 .. Len(o.results) : j <= sent[w][q]
        BY <4>1, <4>2
      <4> QED BY <4>2, <4>3 DEF Told, Found
    <3>4. (r.hit <=> Found(o, "hit")) /\ (r.error <=> Found(o, "error"))
      BY <2>3, <3>2, <3>3 DEF Marks, Marked
    <3>5. r.hit \in BOOLEAN /\ r.error \in BOOLEAN
      BY <1>2 DEF FileResult
    <3>6. r.hit = Found(o, "hit") /\ r.error = Found(o, "error")
      BY <3>4, <3>5 DEF Found
    <3> HIDE DEF x, r, m, o
    <3>7. x.hit = Found(o, "hit")
      BY <3>1, <3>6
    <3>8. x.errored = (o.last = "timeout" \/ Found(o, "error"))
      BY <2>1, <3>1, <3>6, Zenon
    <3>9. Faithful(x, o)
      BY <3>7, <3>8, Zenon DEF Faithful
    <3> QED BY <3>9 DEF x, o
  <2> QED BY <2>2, <2>3
<1>6. m \in Message
  BY <1>1, HandleCases
<1> QED BY <1>3, <1>4, <1>5 DEF Of

LEMMA PairHandle ==
  ASSUME IInv, NEW w \in Scanners, NEW q \in Requests, PairOK(w, q), Handle
  PROVE  PairOK(w, q)'
<1> DEFINE m == Head(inbox)
           r == Heard(w, q)
           o == outcome[w][q]
<1>1. TypeOK /\ OrderOK(w, q) /\ TallyOK(w, q) /\ FaithOK(w, q)
  BY DEF IInv, TypeInv, PairOK
<1>2. UNCHANGED <<task, outcome, sent, output>>
  BY <1>1, HandleCases DEF scannerVars
<1>3. \/ Heard(w, q)' = NoResult
      \/ Heard(w, q)' = r /\ ~Of(m, w, q)
      \/ \E s \in FileScan : After(q, s) /\ Heard(w, q)' = s.results[w]
  BY <1>1, HeardNext
<1>4. NoResult.state = "absent"
  BY DEF NoResult
<1>5. \A i \in 1 .. Len(inbox') :
        /\ i + 1 \in 1 .. Len(inbox) /\ inbox'[i] = inbox[i + 1]
        /\ Mine(i, w, q)' <=> Mine(i + 1, w, q)
  BY <1>1, HandleInbox
<1>6. /\ \A i, j \in 1 .. Len(inbox') : BeginAt(i, w, q)' /\ Mine(j, w, q)' => i <= j
      /\ \A i, j \in 1 .. Len(inbox') : EndAt(i, w, q)' /\ Mine(j, w, q)' => j <= i
      /\ \A i \in 1 .. Len(inbox') : EndAt(i, w, q)' => inbox'[i].type = outcome'[w][q].last
  <2>1. \A i \in 1 .. Len(inbox') :
          /\ BeginAt(i, w, q)' <=> BeginAt(i + 1, w, q)
          /\ EndAt(i, w, q)' <=> EndAt(i + 1, w, q)
    BY <1>5 DEF BeginAt, EndAt
  <2>2. \A i, j \in 1 .. Len(inbox') : BeginAt(i, w, q)' /\ Mine(j, w, q)' => i + 1 <= j + 1
    BY <1>1, <1>5, <2>1 DEF OrderOK
  <2>3. \A i, j \in 1 .. Len(inbox') : EndAt(i, w, q)' /\ Mine(j, w, q)' => j + 1 <= i + 1
    BY <1>1, <1>5, <2>1 DEF OrderOK
  <2>4. \A i \in 1 .. Len(inbox') : EndAt(i, w, q)' => inbox'[i].type = outcome'[w][q].last
    BY <1>1, <1>2, <1>5, <2>1 DEF OrderOK
  <2> QED BY <2>2, <2>3, <2>4
<1>7. FaithOK(w, q)'
  <2>1. Faithful(Heard(w, q)', o)
    <3>1. Faithful(NoResult, o)
      BY <1>4 DEF Faithful
    <3> QED BY <1>1, <1>3, <3>1, AfterFaithful DEF FaithOK, PairOK
  <2>2. q \in DOMAIN emitting' => Faithful(emitting'[q].results[w], o)
    <3>1. CASE Ignored(m)
      BY <1>1, <3>1, HandleCases DEF FaithOK
    <3>2. CASE ~Ignored(m)
      <4>1. q \in DOMAIN emitting' => emitting'[q] \in FileScan /\ After(q, emitting'[q])
        BY <1>1, <3>2, HandleCases
      <4> QED BY <4>1, AfterFaithful
    <3> QED BY <3>1, <3>2
  <2>3. \A i \in 1 .. Len(output'[q]) : Faithful(output'[q][i].results[w], o)
    BY <1>1, <1>2 DEF FaithOK
  <2> QED BY <1>2, <2>1, <2>2, <2>3 DEF FaithOK, Faithful
<1>8. task'[w][q] = "finished" => Len(outcome'[w][q].results) <= sent'[w][q]
  BY <1>1, <1>2 DEF TallyOK
<1>9. \A f : Told(w, q, f)' <=> Told(w, q, f)
  BY <1>2 DEF Told
<1>10. \A f : Marked(Heard(w, q), f)' <=> Marked(Heard(w, q)', f)
  BY DEF Marked
<1>11. CASE ~Of(m, w, q)
  <2>1. Heard(w, q)' = NoResult \/ Heard(w, q)' = r
    BY <1>1, <1>3, <1>11, HeardAfter
  <2>2. /\ BeginComes(w, q)' <=> BeginComes(w, q)
        /\ \A f : ResultComes(w, q, f)' <=> ResultComes(w, q, f)
    BY <1>1, <1>11, HeadOfOther
  <2>3. OrderOK(w, q)'
    <3>1. (\A i \in 1 .. Len(inbox) : ~Mine(i, w, q)) => \A i \in 1 .. Len(inbox') : ~Mine(i, w, q)'
      BY <1>5
    <3>2. BeginComes(w, q)' => Heard(w, q)'.state = "absent"
      BY <1>1, <1>4, <2>1, <2>2 DEF OrderOK
    <3>3. Heard(w, q)'.state = "done" => \A i \in 1 .. Len(inbox') : ~Mine(i, w, q)'
      BY <1>1, <1>4, <2>1, <3>1 DEF OrderOK
    <3>4. task'[w][q] \in {"none", "queued"} =>
            Heard(w, q)'.state = "absent" /\ \A i \in 1 .. Len(inbox') : ~Mine(i, w, q)'
      BY <1>1, <1>2, <1>4, <2>1, <3>1 DEF OrderOK
    <3> QED BY <1>6, <3>2, <3>3, <3>4 DEF OrderOK
  <2>4. TallyOK(w, q)'
    <3>1. CASE Heard(w, q)' = r
      <4>1. Followed(w, q)' => Followed(w, q)
        BY <2>2, <3>1 DEF Followed
      <4>2. \A f : Marked(Heard(w, q), f)' <=> Marked(Heard(w, q), f)
        BY <1>10, <3>1
      <4> QED BY <1>1, <1>2, <1>8, <1>9, <2>2, <4>1, <4>2 DEF TallyOK
    <3>2. CASE Heard(w, q)' = NoResult
      <4>1. Followed(w, q)' => BeginComes(w, q) /\ r.state = "absent" /\ Followed(w, q)
        BY <1>1, <1>4, <2>2, <3>2 DEF Followed, OrderOK
      <4>2. \A f : ~Marked(Heard(w, q), f)'
        BY <1>4, <1>10, <3>2 DEF Marked
      <4>3. r.state = "absent" => \A f : ~Marked(r, f)
        BY DEF Marked
      <4> QED BY <1>1, <1>2, <1>8, <1>9, <2>2, <4>1, <4>2, <4>3 DEF TallyOK
    <3> QED BY <2>1, <3>1, <3>2
  <2> QED BY <1>7, <2>3, <2>4 DEF PairOK
<1>12. CASE Of(m, w, q)
  <2>1. /\ ~BeginComes(w, q)' /\ r.state # "done" /\ task[w][q] \notin {"none", "queued"}
        /\ m.type = "begin" => BeginComes(w, q)
        /\ m.type \in {"end", "timeout"} =>
             /\ task[w][q] = "finished" /\ \A i \in 1 .. Len(inbox') : ~Mine(i, w, q)'
        /\ \A f : ResultComes(w, q, f) <=> ResultComes(w, q, f)' \/ (m.type = "result" /\ m.finding = f)
    BY <1>1, <1>12, HeadOfPair
  <2>2. m.type \in {"begin", "result", "end", "timeout"}
    BY <1>12 DEF Of
  <2>3. OrderOK(w, q)'
    <3>1. Heard(w, q)'.state = "done" => m.type \in {"end", "timeout"}
      <4> SUFFICES ASSUME Heard(w, q)'.state = "done", m.type \in {"begin", "result"} PROVE FALSE
        BY <2>2
      <4>1. PICK s \in FileScan : After(q, s) /\ Heard(w, q)' = s.results[w]
        BY <1>3, <1>4, <1>12
      <4>2. s.results[w].state # "done"
        BY <1>1, <1>12, <2>1, <4>1, HeardAfter DEF NoResult
      <4> QED BY <4>1, <4>2
    <3> QED BY <1>2, <1>6, <2>1, <3>1 DEF OrderOK
  <2>4. TallyOK(w, q)'
    <3> SUFFICES ASSUME Heard(w, q)'.state = "open",
                        task[w][q] \in {"begun", "scanning", "sending", "finished"}, NEW f \in Marks
                 PROVE  Marked(Heard(w, q)', f) \/ ResultComes(w, q, f)' <=> Told(w, q, f)
      BY <1>2, <1>8, <1>9, <1>10, <2>1 DEF TallyOK, Followed
    <3>1. PICK s \in FileScan : After(q, s) /\ Heard(w, q)' = s.results[w]
      BY <1>3, <1>4, <1>12
    <3>2. CASE m.type = "begin"
      <4>1. r.state = "absent" /\ Followed(w, q)
        BY <1>1, <2>1, <3>2 DEF OrderOK, Followed
      <4>2. Heard(w, q)' = [NoResult EXCEPT !.state = "open"]
        BY <1>1, <1>12, <3>1, <3>2, <4>1, HeardAfter
      <4>3. ~Marked(Heard(w, q)', f) /\ ~Marked(r, f)
        BY <4>1, <4>2 DEF Marked, NoResult
      <4> QED BY <1>1, <2>1, <3>2, <4>1, <4>3 DEF TallyOK
    <3>3. CASE m.type = "result"
      <4>1. r.state = "open" /\ Followed(w, q)
        BY <1>1, <1>12, <3>1, <3>3, HeardAfter DEF Followed
      <4>2. /\ Heard(w, q)'.hit = (r.hit \/ m.finding = "hit")
            /\ Heard(w, q)'.error = (r.error \/ m.finding = "error")
        BY <1>1, <1>12, <3>1, <3>3, <4>1, HeardAfter
      <4>3. Marked(Heard(w, q)', f) <=> Marked(r, f) \/ m.finding = f
        BY <4>1, <4>2 DEF Marked, Marks
      <4> QED BY <1>1, <2>1, <3>3, <4>1, <4>3 DEF TallyOK
    <3>4. CASE m.type \in {"end", "timeout"}
      <4>1. FALSE
        BY <1>1, <1>12, <3>1, <3>4, HeardAfter
      <4> QED BY <4>1
    <3> QED BY <2>2, <3>2, <3>3, <3>4
  <2> QED BY <1>7, <2>3, <2>4 DEF PairOK
<1> QED BY <1>11, <1>12

-----------------------------------------------------------------------------
(* The other steps, and the theorem.                                       *)

LEMMA FaithSame ==
  ASSUME NEW w \in Scanners, NEW q \in Requests, FaithOK(w, q),
         UNCHANGED <<scans, emitting, output>>, outcome'[w][q] = outcome[w][q]
  PROVE  FaithOK(w, q)'
<1>1. Heard(w, q)' = Heard(w, q)
  BY DEF Heard
<1> QED BY <1>1 DEF FaithOK, Faithful

\* A task touches the outcome and the count of its own only.
LEMMA OthersUntouched ==
  ASSUME TypeOK, SentInv, NEW v \in Scanners, NEW p \in Requests, ScannerStep(v, p),
         NEW w \in Scanners, NEW q \in Requests, v # w \/ p # q
  PROVE  outcome'[w][q] = outcome[w][q] /\ sent'[w][q] = sent[w][q]
<1>1. CASE Begin(v, p)
  BY <1>1 DEF Begin
<1>2. CASE OpenFile(v, p)
  <2>1. UNCHANGED sent /\ (UNCHANGED outcome \/ outcome' = [outcome EXCEPT ![v] = [outcome[v] EXCEPT ![p] = ScanFailed]])
    BY <1>2, Zenon DEF OpenFile
  <2> DEFINE y == [outcome[v] EXCEPT ![p] = ScanFailed]
  <2>2. q # p => y[q] = outcome[v][q]
    BY DEF TypeOK
  <2> HIDE DEF y
  <2>3. UNCHANGED sent /\ (UNCHANGED outcome \/ outcome' = [outcome EXCEPT ![v] = y])
    BY <2>1 DEF y
  <2> QED BY <2>2, <2>3 DEF TypeOK
<1>3. CASE FinishScan(v, p)
  <2>1. UNCHANGED sent /\ \E o \in Outcomes : outcome' = [outcome EXCEPT ![v] = [outcome[v] EXCEPT ![p] = o]]
    BY <1>3, Zenon DEF FinishScan
  <2> QED BY <2>1 DEF TypeOK
<1>4. ASSUME NEW t \in {"sending", "lost"}, SendNext(v, p, t), UNCHANGED outcome
      PROVE  outcome'[w][q] = outcome[w][q] /\ sent'[w][q] = sent[w][q]
  BY <1>4, SendStep
<1>5. CASE Send(v, p)
  BY <1>4, <1>5 DEF Send
<1>6. CASE CancelTask(v, p)
  <2>1. UNCHANGED outcome /\ (UNCHANGED sent \/ SendNext(v, p, "lost"))
    BY <1>6 DEF CancelTask
  <2> QED BY <1>4, <2>1
<1> QED BY <1>1, <1>2, <1>3, <1>5, <1>6 DEF ScannerStep

LEMMA PairStep ==
  ASSUME IInv, DownInv, NEW w \in Scanners, NEW q \in Requests, PairOK(w, q), [Next]_vars
  PROVE  PairOK(w, q)'
<1>1. TypeOK /\ SentInv /\ CountInv /\ OrderOK(w, q) /\ TallyOK(w, q) /\ FaithOK(w, q)
  BY DEF IInv, TypeInv, PairOK
<1>2. ASSUME Unheard(w, q), UNCHANGED <<scans, emitting, output>>,
             outcome'[w][q] = outcome[w][q], sent'[w][q] = sent[w][q],
             \/ task'[w][q] = task[w][q]
             \/ task'[w][q] = "lost"
             \/ task[w][q] = "none" /\ task'[w][q] = "queued"
      PROVE  PairOK(w, q)'
  <2>1. FaithOK(w, q)'
    BY <1>1, <1>2, FaithSame
  <2> QED BY <1>1, <1>2, <2>1, OrderTallyOther DEF PairOK
<1>3. CASE UNCHANGED <<inbox, task, outcome, sent, scans, emitting, output>>
  BY <1>2, <1>3 DEF Unheard
<1>4. ASSUME NEW p \in Requests, PublishRequest(p) PROVE PairOK(w, q)'
  <2>1. UNCHANGED <<inbox, outcome, sent, scans, emitting, output>>
    BY <1>4 DEF PublishRequest, loggerVars
  <2>2. task[w][p] = "none"
    BY <1>1, <1>4 DEF PublishRequest, CountInv, Receivers
  <2>3. \/ task'[w][q] = task[w][q]
        \/ q = p /\ task'[w][q] \in {"queued", "lost"}
    BY <1>1, <1>4 DEF PublishRequest, TypeOK
  <2> QED BY <1>2, <2>1, <2>2, <2>3 DEF Unheard
<1>5. ASSUME NEW p \in Requests, PublishSubmit(p) PROVE PairOK(w, q)'
  <2>1. SubmitMsg(p, counted[p]) \in Message /\ ~Of(SubmitMsg(p, counted[p]), w, q)
    BY <1>1 DEF SubmitMsg, Message, TypeOK, Of
  <2> QED BY <1>2, <1>5, <2>1 DEF PublishSubmit, scannerVars, loggerVars, Unheard
<1>6. ASSUME NEW v \in Scanners, NEW p \in Requests, ScannerStep(v, p) PROVE PairOK(w, q)'
  <2>1. CASE v = w /\ p = q
    BY <1>6, <2>1, PairOwn
  <2>2. CASE v # w \/ p # q
    <3>1. UNCHANGED <<scans, emitting, output>> /\ task'[w][q] = task[w][q]
      BY <1>1, <1>6, <2>2, TaskStep
    <3>2. Unheard(w, q)
      BY <1>1, <1>6, <2>2, TaskPublish DEF Unheard, Of
    <3>3. outcome'[w][q] = outcome[w][q] /\ sent'[w][q] = sent[w][q]
      BY <1>1, <1>6, <2>2, OthersUntouched
    <3> QED BY <1>2, <3>1, <3>2, <3>3
  <2> QED BY <2>1, <2>2
<1>7. ASSUME NEW v \in Scanners, StopScanner(v) \/ KillScanner(v) PROVE PairOK(w, q)'
  <2>1. UNCHANGED <<inbox, outcome, sent, scans, emitting, output>>
    BY <1>1, <1>7, StopStep
  <2>2. task'[w][q] = task[w][q] \/ task'[w][q] = "lost"
    BY <1>1, <1>7, StopStep
  <2> QED BY <1>2, <2>1, <2>2 DEF Unheard
<1>8. CASE Handle
  BY <1>8, PairHandle
<1>9. ASSUME NEW p \in Requests, Emit(p) PROVE PairOK(w, q)'
  <2>1. CompleteMsg(p) \in Message /\ ~Of(CompleteMsg(p), w, q)
    BY DEF CompleteMsg, Message, Of
  <2>2. Unheard(w, q) /\ UNCHANGED <<task, outcome, sent, scans>>
    BY <1>9, <2>1 DEF Emit, scannerVars, Unheard
  <2>3. OrderOK(w, q)' /\ TallyOK(w, q)'
    BY <1>1, <2>2, OrderTallyOther
  <2>4. q \in DOMAIN emitting' => q \in DOMAIN emitting /\ emitting'[q] = emitting[q]
    BY <1>1, <1>9, EmitStep
  <2>5. \A i \in 1 .. Len(output'[q]) :
          \/ i \in 1 .. Len(output[q]) /\ output'[q][i] = output[q][i]
          \/ q \in DOMAIN emitting /\ output'[q][i] = emitting[q]
    BY <1>1, <1>9, EmitStep
  <2>6. Heard(w, q)' = Heard(w, q)
    BY <2>2 DEF Heard
  <2>7. FaithOK(w, q)'
    BY <1>1, <2>2, <2>4, <2>5, <2>6 DEF FaithOK, Faithful
  <2> QED BY <2>3, <2>7 DEF PairOK
<1>10. CASE KillLogger
  <2>1. /\ inbox' = <<>> /\ scans' = EmptyMap /\ emitting' = EmptyMap
        /\ UNCHANGED <<task, outcome, sent, output>>
    BY <1>10 DEF KillLogger, scannerVars
  <2>2. Len(inbox') = 0 /\ Heard(w, q)' = NoResult /\ q \notin DOMAIN emitting'
    BY <2>1, EmptyMapType DEF Heard
  <2>3. Heard(w, q)'.state = "absent"
    BY <2>2 DEF NoResult
  <2>4. OrderOK(w, q)'
    BY <2>2, <2>3 DEF OrderOK, BeginComes
  <2>5. TallyOK(w, q)'
    BY <1>1, <2>1, <2>2, <2>3 DEF TallyOK, Followed, BeginComes
  <2>6. FaithOK(w, q)'
    BY <1>1, <2>1, <2>2, <2>3 DEF FaithOK, Faithful
  <2> QED BY <2>4, <2>5, <2>6 DEF PairOK
<1>11. ASSUME NEW p \in Requests, Observe(p) \/ StartDelete(p) \/ Unlink(p)
       PROVE  UNCHANGED <<inbox, task, outcome, sent, scans, emitting, output>>
  BY <1>11 DEF Observe, StartDelete, Unlink, scannerVars, loggerVars
<1>12. ASSUME NEW v \in Scanners, ExitScanner(v) \/ StartScanner(v)
       PROVE  UNCHANGED <<inbox, task, outcome, sent, scans, emitting, output>>
  BY <1>12 DEF ExitScanner, StartScanner, loggerVars
<1>13. CASE CrashWatcher \/ StartLogger \/ Idle \/ UNCHANGED vars
  BY <1>3, <1>13 DEF CrashWatcher, StartLogger, Idle, vars, scannerVars, loggerVars
<1> QED BY <1>3, <1>4, <1>5, <1>6, <1>7, <1>8, <1>9, <1>10, <1>11, <1>12, <1>13
        DEF Next, Stop, LoggerStep

LEMMA PairInit == Init => PairInv /\ DownInv
<1> SUFFICES ASSUME Init PROVE PairInv /\ DownInv
  OBVIOUS
<1>1. DownInv
  BY DEF Init, DownInv
<1>2. ASSUME NEW w \in Scanners, NEW q \in Requests PROVE PairOK(w, q)
  <2>1. Len(inbox) = 0 /\ Len(output[q]) = 0 /\ q \notin DOMAIN emitting /\ Heard(w, q) = NoResult
    BY EmptyMapType DEF Init, Heard
  <2>2. Heard(w, q).state = "absent" /\ task[w][q] = "none"
    BY <2>1 DEF NoResult, Init
  <2>3. OrderOK(w, q)
    BY <2>1, <2>2 DEF OrderOK, BeginComes
  <2>4. TallyOK(w, q)
    BY <2>2 DEF TallyOK
  <2>5. FaithOK(w, q)
    BY <2>1, <2>2 DEF FaithOK, Faithful
  <2> QED BY <2>3, <2>4, <2>5 DEF PairOK
<1> QED BY <1>1, <1>2 DEF PairInv

LEMMA FaithfulFromInv == IInv /\ PairInv => VerdictsAreFaithful
<1> SUFFICES ASSUME IInv, PairInv, NEW q \in Requests, NEW w \in Scanners, NEW s \in Records(q)
             PROVE  Faithful(s.results[w], outcome[w][q])
  BY DEF VerdictsAreFaithful, Faithful, Found
<1>1. PICK i \in 1 .. Len(output[q]) : s = output[q][i]
  BY DEF Records, IInv, TypeInv, TypeOK
<1> QED BY <1>1 DEF PairInv, PairOK, FaithOK

(* A finished scanner's part of a record is what its scan found, for any   *)
(* outcomes, any number of scanners and whatever is stopped, killed or     *)
(* cancelled in between: from the begin the logger follows, no result is   *)
(* lost, and none comes after the end.                                     *)
THEOREM VerdictsFaithful == Spec => []VerdictsAreFaithful
<1>1. IInv /\ DownInv /\ PairInv /\ [Next]_vars => PairInv'
  BY PairStep DEF PairInv
<1>2. DownInv /\ [Next]_vars => DownInv'
  BY DownStep
<1>3. Spec => [](DownInv /\ PairInv)
  BY Invariance, PairInit, <1>1, <1>2, PTL DEF Spec
<1> QED BY Invariance, <1>3, FaithfulFromInv, PTL
-----------------------------------------------------------------------------
(* Once nothing of a request is under way its file is on record.  Three    *)
(* facts make it so: no entry of the map has heard all it waits for        *)
(* (WaitInv), a request whose record no time limit forced has nothing left *)
(* to be heard of (RestInv), and while no process stops nothing that was   *)
(* published is lost before it is written (CalmInv).                       *)

\* The submit and the end of everyone it counts are in: FileScan.complete without the clock.
Satisfied(s) == s.expected >= 0 /\ Cardinality(Begun(s)) >= s.expected /\ AllDone(s)

WaitInv == \A q \in DOMAIN scans : ~Satisfied(scans[q])

\* A scan of q that no time limit ended is about to be written or on record.
Over(q) ==
  \/ q \in DOMAIN emitting /\ InTime(emitting[q])
  \/ \E i \in 1 .. Len(output[q]) : InTime(output[q][i])

RestOK(q) ==
  Over(q) => /\ q \notin DOMAIN scans
             /\ \A i \in 1 .. Len(inbox) : inbox[i].id = q => inbox[i].type = "complete"

RestInv == \A q \in Requests : RestOK(q)

\* The message that would complete an entry takes it out of the map.
LEMMA HandleWaits ==
  ASSUME TypeOK, WaitInv, Handle
  PROVE  WaitInv'
<1> DEFINE m == Head(inbox)
<1>1. m \in Message /\ (Ignored(m) => UNCHANGED scans)
  BY HandleCases
<1>2. CASE Ignored(m)
  BY <1>1, <1>2 DEF WaitInv
<1>3. CASE ~Ignored(m)
  <2>1. PICK ages \in [Requests -> Ages] :
          LET aged == Aged(scans, m, ages)
              map  == UpdateMap(aged, m)
          IN  IF Accepts(aged[m.id], m)
              THEN scans' = Working(map) /\ emitting' = Part(map, Finished(map))
              ELSE scans' = aged /\ UNCHANGED emitting
    BY <1>3, Zenon DEF Handle
  <2> DEFINE aged == Aged(scans, m, ages)
             map  == UpdateMap(aged, m)
  <2> HIDE DEF m
  <2>2. IsScanMap(scans) /\ m.id \in Requests /\ DOMAIN scans \subseteq Requests
    BY <1>1, MessageFields DEF TypeOK, IsScanMap
  <2>3. /\ IsScanMap(aged) /\ DOMAIN aged = DOMAIN scans \cup {m.id}
        /\ \A q \in DOMAIN scans : aged[q] = [scans[q] EXCEPT !.age = ages[q]]
        /\ m.id \notin DOMAIN scans => aged[m.id] = ForEvent(ages[m.id])
    <3> HIDE DEF map
    <3>1. IsScanMap(aged) /\ DOMAIN aged = DOMAIN scans \cup {m.id}
      BY <1>1, <2>2, AgedType
    <3>2. \A q \in DOMAIN scans \cup {m.id} :
            aged[q] = IF q \in DOMAIN scans THEN [scans[q] EXCEPT !.age = ages[q]] ELSE ForEvent(ages[q])
      BY DEF Aged
    <3> HIDE DEF aged
    <3>3. \A q \in DOMAIN scans : aged[q] = [scans[q] EXCEPT !.age = ages[q]]
      BY <3>2
    <3>4. m.id \notin DOMAIN scans => aged[m.id] = ForEvent(ages[m.id])
      BY <3>2
    <3> QED BY <3>1, <3>3, <3>4
  <2>4. CASE ~Accepts(aged[m.id], m)
    <3>1. scans' = aged
      BY <2>1, <2>4
    <3> HIDE DEF aged, map
    <3>2. ASSUME NEW q \in DOMAIN scans PROVE ~Satisfied(aged[q])
      <4>1. scans[q] \in FileScan /\ ~Satisfied(scans[q]) /\ aged[q] = [scans[q] EXCEPT !.age = ages[q]]
        BY <2>2, <2>3 DEF IsScanMap, WaitInv
      <4>2. aged[q].expected = scans[q].expected /\ aged[q].results = scans[q].results
        BY <4>1 DEF FileScan
      <4> QED BY <4>1, <4>2 DEF Satisfied, Begun, AllDone
    <3>3. m.id \notin DOMAIN scans => ~Satisfied(aged[m.id])
      BY <2>3 DEF ForEvent, Satisfied
    <3> QED BY <2>3, <3>1, <3>2, <3>3 DEF WaitInv, Satisfied, Begun, AllDone
  <2>5. CASE Accepts(aged[m.id], m)
    <3>1. scans' = Part(map, DOMAIN map \ Finished(map))
      BY <2>1, <2>5 DEF Working
    <3>2. IsScanMap(map)
      <4> HIDE DEF aged
      <4> QED BY <1>1, <2>3, UpdateMapType
    <3> HIDE DEF aged, map
    <3>3. /\ DOMAIN scans' = DOMAIN map \ Finished(map)
          /\ \A q \in DOMAIN scans' : scans'[q] = map[q]
      BY <3>1, <3>2, PartType
    <3>4. ASSUME NEW q \in DOMAIN scans' PROVE ~Satisfied(map[q])
      BY <3>3 DEF Finished, Complete, Satisfied
    <3> QED BY <3>3, <3>4 DEF WaitInv, Satisfied, Begun, AllDone
  <2> QED BY <2>4, <2>5
<1> QED BY <1>2, <1>3

LEMMA WaitStep ==
  ASSUME TypeOK, WaitInv, [Next]_vars
  PROVE  WaitInv'
<1>1. CASE UNCHANGED scans
  BY <1>1 DEF WaitInv, Satisfied, Begun, AllDone
<1>2. CASE scans' = EmptyMap
  BY <1>2, EmptyMapType DEF WaitInv
<1> QED BY <1>1, <1>2, HandleWaits, LoggerMovesStep DEF LoggerMoves, Emit

\* No scanner has anything left to say of such a request, nor has the watcher.
LEMMA OverFinal ==
  ASSUME IInv, NEW q \in Requests, Over(q)
  PROVE  /\ phase[q] = "submitted"
         /\ \A w \in Scanners : task[w][q] \in {"none", "finished"}
<1>1. PICK s \in FileScan : OverOK(q, s) /\ InTime(s)
  <2>1. q \in DOMAIN emitting => emitting[q] \in FileScan /\ OverOK(q, emitting[q])
    BY DEF IInv, TypeInv, TypeOK, IsScanMap, EmittingInv, OverOK
  <2>2. \A i \in 1 .. Len(output[q]) : output[q][i] \in FileScan /\ OverOK(q, output[q][i])
    BY DEF IInv, TypeInv, TypeOK, OutputInv, OverOK
  <2> QED BY <2>1, <2>2 DEF Over
<1>2. /\ phase[q] = "submitted"
      /\ \A w \in Receivers(q) : task[w][q] = "finished"
  BY <1>1, OverIsFinal
<1> QED BY <1>2 DEF Receivers

EmittingFinal ==
  \A q \in DOMAIN emitting : InTime(emitting[q]) =>
    /\ emitting[q].file
    /\ \A w \in Scanners : task[w][q] # "none" => emitting[q].results[w].state = "done"

LEMMA FinalEmitting == IInv => EmittingFinal
<1> SUFFICES ASSUME IInv, NEW q \in DOMAIN emitting, InTime(emitting[q])
             PROVE  /\ emitting[q].file
                    /\ \A w \in Scanners : task[w][q] # "none" => emitting[q].results[w].state = "done"
  BY DEF EmittingFinal
<1>1. q \in Requests /\ emitting[q] \in FileScan /\ OverOK(q, emitting[q])
  BY DEF IInv, TypeInv, TypeOK, IsScanMap, EmittingInv, OverOK
<1> QED BY <1>1, OverIsFinal DEF Receivers

\* What a message may be about.
LEMMA MessageKinds ==
  ASSUME NEW m \in Message
  PROVE  m.type \in {"submit", "complete"} \/ \E w \in Scanners : Of(m, w, m.id)
BY MessageFields DEF Of

\* An entry that a message completes in time is the last that is heard of its request.
LEMMA HandleRest ==
  ASSUME IInv, FileOnceInv, PairInv, RestInv, Handle, NEW q \in Requests, FileOnce(q)', EmittingFinal'
  PROVE  RestOK(q)'
<1> DEFINE m == Head(inbox)
<1>0. TypeOK
  BY DEF IInv, TypeInv
<1>1. /\ m \in Message /\ emitting = EmptyMap /\ UNCHANGED <<output, task, phase>>
      /\ \A i \in 1 .. Len(inbox') : i + 1 \in 1 .. Len(inbox) /\ inbox'[i] = inbox[i + 1] /\ inbox'[i] \in Message
      /\ m = inbox[1] /\ 1 \in 1 .. Len(inbox)
  <2>1. m \in Message /\ emitting = EmptyMap /\ UNCHANGED <<output, task, phase>> /\ inbox # <<>> /\ inbox' = Tail(inbox)
    BY <1>0, HandleCases DEF scannerVars, watcherVars
  <2>2. \A i \in 1 .. Len(inbox) : inbox[i] \in Message
    BY <1>0 DEF TypeOK
  <2> QED BY <1>0, <2>1, <2>2, TailFacts
<1> HIDE DEF m
<1>2. CASE Over(q)
  <2>1. /\ q \notin DOMAIN scans
        /\ \A i \in 1 .. Len(inbox) : inbox[i].id = q => inbox[i].type = "complete"
    BY <1>2 DEF RestInv, RestOK
  <2>2. \A i \in 1 .. Len(inbox') : inbox'[i].id = q => inbox'[i].type = "complete"
    BY <1>1, <2>1
  <2>3. q \notin DOMAIN scans'
    <3>1. CASE Ignored(m)
      BY <1>0, <2>1, <3>1, HandleCases DEF m
    <3>2. CASE ~Ignored(m)
      <4>1. m.id # q
        BY <1>1, <2>1, <3>2 DEF Ignored
      <4> QED BY <1>0, <2>1, <3>2, <4>1, HandleCases DEF m
    <3> QED BY <3>1, <3>2
  <2> QED BY <2>2, <2>3 DEF RestOK
<1>3. CASE ~Over(q) /\ Over(q)'
  <2>1. ~Ignored(m) /\ q \in DOMAIN emitting' /\ InTime(emitting'[q])
    <3>1. q \in DOMAIN emitting' /\ InTime(emitting'[q])
      BY <1>1, <1>3 DEF Over, InTime, Expired
    <3>2. q \notin DOMAIN emitting
      BY <1>1, EmptyMapType
    <3> QED BY <1>0, <3>1, <3>2, HandleCases DEF m
  <2> DEFINE s == emitting'[q]
  <2>2. s \in FileScan /\ After(q, s) /\ q \notin DOMAIN scans'
    BY <1>0, <2>1, HandleCases DEF m
  <2>4. s.file /\ \A w \in Scanners : task[w][q] # "none" => s.results[w].state = "done"
    BY <1>1, <2>1 DEF EmittingFinal, InTime, Expired
  <2>5. ~Coming(q)'
    BY <2>1, <2>4 DEF FileOnce, Writing
  <2>6. ASSUME NEW w \in Scanners, NEW i \in 1 .. Len(inbox') PROVE ~Mine(i, w, q)'
    <3>1. OrderOK(w, q)
      BY DEF PairInv, PairOK
    <3>2. Mine(i, w, q)' <=> Mine(i + 1, w, q)
      BY <1>1 DEF Mine
    <3>3. CASE task[w][q] = "none"
      BY <1>1, <3>1, <3>2, <3>3 DEF OrderOK
    <3>4. CASE task[w][q] # "none" /\ Heard(w, q).state = "done"
      BY <1>1, <3>1, <3>2, <3>4 DEF OrderOK
    <3>5. CASE task[w][q] # "none" /\ Heard(w, q).state # "done"
      <4>1. s.results[w].state = "done"
        BY <2>4, <3>5
      <4> HIDE DEF s
      <4>2. Of(m, w, q)
        BY <1>0, <2>2, <3>5, <4>1, HeardAfter DEF m
      <4>3. m.type \in {"end", "timeout"}
        <5>1. m.type \in {"begin", "result", "end", "timeout"}
          BY <4>2 DEF Of
        <5>2. m.type # "begin"
          BY <1>0, <2>2, <3>5, <4>1, <4>2, HeardAfter DEF m, NoResult
        <5>3. m.type # "result"
          BY <1>0, <2>2, <3>5, <4>1, <4>2, HeardAfter DEF m
        <5> QED BY <5>1, <5>2, <5>3
      <4> QED BY <3>1, <4>2, <4>3, HeadOfPair DEF m
    <3> QED BY <3>3, <3>4, <3>5
  <2>7. ASSUME NEW i \in 1 .. Len(inbox'), inbox'[i].id = q PROVE inbox'[i].type = "complete"
    <3>1. inbox'[i].type # "submit"
      BY <2>5, <2>7 DEF Coming, SubmitAt
    <3>2. \A w \in Scanners : ~Of(inbox'[i], w, inbox'[i].id)
      BY <2>6, <2>7 DEF Mine
    <3> QED BY <1>1, <3>1, <3>2, MessageKinds
  <2> QED BY <2>2, <2>7 DEF RestOK
<1> QED BY <1>2, <1>3 DEF RestOK

\* Nobody publishes anything of q any more.
LEMMA RestPublish ==
  ASSUME TypeOK, NEW q \in Requests, RestOK(q), NEW m \in Message, Publish(m),
         m.id = q => m.type = "complete", UNCHANGED scans, Over(q)' => Over(q)
  PROVE  RestOK(q)'
<1>1. CASE inbox' = inbox
  BY <1>1 DEF RestOK
<1>2. CASE /\ Len(inbox) \in Nat /\ Len(inbox') = Len(inbox) + 1
           /\ inbox'[Len(inbox) + 1] = m
           /\ \A i \in 1 .. Len(inbox) : inbox'[i] = inbox[i]
  <2>1. \A i \in 1 .. Len(inbox') : i \in 1 .. Len(inbox) \/ i = Len(inbox) + 1
    BY <1>2
  <2> QED BY <1>2, <2>1 DEF RestOK
<1> QED BY <1>1, <1>2, PublishCases

LEMMA RestStep ==
  ASSUME IInv, FileOnceInv, PairInv, RestInv, [Next]_vars, EmittingFinal'
  PROVE  RestInv'
<1> SUFFICES ASSUME NEW q \in Requests PROVE RestOK(q)'
  BY DEF RestInv
<1>1. TypeOK /\ SentInv /\ RestOK(q)
  BY DEF IInv, TypeInv, RestInv
<1>2. UNCHANGED <<emitting, output>> => (Over(q)' <=> Over(q))
  BY DEF Over, InTime, Expired
<1>3. CASE UNCHANGED <<inbox, scans, emitting, output>>
  BY <1>1, <1>2, <1>3 DEF RestOK
<1>4. ASSUME NEW p \in Requests, PublishSubmit(p) PROVE RestOK(q)'
  <2> DEFINE m == SubmitMsg(p, counted[p])
  <2>1. m \in Message /\ m.id = p /\ m.type = "submit" /\ Publish(m)
    BY <1>1, <1>4 DEF SubmitMsg, Message, TypeOK, PublishSubmit
  <2>2. UNCHANGED <<scans, emitting, output>> /\ phase[p] = "requested"
    BY <1>4 DEF PublishSubmit, loggerVars
  <2> HIDE DEF m
  <2>3. CASE ~Over(q)
    BY <1>2, <2>2, <2>3 DEF RestOK
  <2>4. CASE Over(q)
    <3>1. p # q
      BY <2>2, <2>4, OverFinal
    <3> QED BY <1>1, <1>2, <2>1, <2>2, <3>1, RestPublish
  <2> QED BY <2>3, <2>4
<1>5. ASSUME NEW w \in Scanners, NEW p \in Requests, ScannerStep(w, p) PROVE RestOK(q)'
  <2>1. UNCHANGED <<scans, emitting, output>> /\ task[w][p] \in Live
    BY <1>1, <1>5, TaskStep
  <2>2. CASE inbox' = inbox
    BY <1>3, <2>1, <2>2
  <2>3. ASSUME NEW m \in Message, Publish(m), Of(m, w, p) PROVE RestOK(q)'
    <3>1. CASE ~Over(q)
      BY <1>2, <2>1, <3>1 DEF RestOK
    <3>2. CASE Over(q)
      <4>1. p # q
        BY <2>1, <3>2, OverFinal DEF Live
      <4> QED BY <1>1, <1>2, <2>1, <2>3, <4>1, RestPublish DEF Of
    <3> QED BY <3>1, <3>2
  <2> QED BY <1>1, <1>5, <2>2, <2>3, TaskPublish
<1>6. CASE Handle
  <2>1. FileOnce(q)'
    BY <1>1, <1>6, HandleOnce DEF FileOnceInv
  <2> QED BY <1>6, <2>1, HandleRest
<1>7. ASSUME NEW p \in Requests, Emit(p) PROVE RestOK(q)'
  <2>1. CompleteMsg(p) \in Message /\ CompleteMsg(p).type = "complete" /\ Publish(CompleteMsg(p)) /\ UNCHANGED scans
    BY <1>7 DEF CompleteMsg, Message, Emit
  <2>2. Over(q)' => Over(q)
    <3>1. /\ p \in DOMAIN emitting
          /\ \A r \in DOMAIN emitting' : r \in DOMAIN emitting /\ emitting'[r] = emitting[r]
          /\ \A i \in 1 .. Len(output'[q]) :
              \/ i \in 1 .. Len(output[q]) /\ output'[q][i] = output[q][i]
              \/ q = p /\ output'[q][i] = emitting[p]
      BY <1>1, <1>7, EmitStep
    <3> QED BY <3>1 DEF Over, InTime, Expired
  <2> QED BY <1>1, <2>1, <2>2, RestPublish
<1>8. CASE KillLogger
  <2>1. inbox' = <<>> /\ scans' = EmptyMap
    BY <1>8 DEF KillLogger
  <2>2. Len(inbox') = 0 /\ DOMAIN scans' = {}
    BY <2>1, EmptyMapType
  <2> QED BY <2>2 DEF RestOK
<1>9. ASSUME NEW p \in Requests, Observe(p) \/ PublishRequest(p) \/ StartDelete(p) \/ Unlink(p)
      PROVE  UNCHANGED <<inbox, scans, emitting, output>>
  BY <1>9 DEF Observe, PublishRequest, StartDelete, Unlink, loggerVars
<1>10. ASSUME NEW w \in Scanners, ExitScanner(w) \/ StartScanner(w) \/ StopScanner(w) \/ KillScanner(w)
       PROVE  UNCHANGED <<inbox, scans, emitting, output>>
  BY <1>10 DEF ExitScanner, StartScanner, StopScanner, KillScanner, loggerVars
<1>11. CASE CrashWatcher \/ StartLogger \/ Idle \/ UNCHANGED vars
  BY <1>3, <1>11 DEF CrashWatcher, StartLogger, Idle, vars, loggerVars
<1> QED BY <1>3, <1>4, <1>5, <1>6, <1>7, <1>8, <1>9, <1>10, <1>11 DEF Next, Stop, LoggerStep

\* As long as no process stops, what is published of a request and not yet written is on
\* its way or in the map.
Past == {"begun", "scanning", "sending", "finished"}

EndComes(w, q) == \E i \in 1 .. Len(inbox) : EndAt(i, w, q)

Written(q) == q \in DOMAIN emitting \/ Len(output[q]) > 0

FileKept(q) ==
  phase[q] = "submitted" => Coming(q) \/ Tracked(q) \/ Writing(q) \/ OnRecord(q)

TaskKept(w, q) ==
  \/ Written(q)
  \/ /\ task[w][q] \in Past => BeginComes(w, q) \/ Heard(w, q).state # "absent"
     /\ task[w][q] = "finished" => EndComes(w, q) \/ Heard(w, q).state = "done"

Kept(q) == FileKept(q) /\ \A w \in Scanners : TaskKept(w, q)

CalmInv == stops = 0 => logger = "up" /\ \A q \in Requests : Kept(q)

\* The steps of a behaviour in which no process stops.
LEMMA CalmCases ==
  ASSUME TypeOK, CountInv, CalmInv, [Next]_vars, stops' = 0
  PROVE  /\ stops = 0 /\ logger = "up" /\ logger' = "up"
         /\ \/ \E p \in Requests : PublishSubmit(p)
            \/ \E w \in Scanners, p \in Requests : ScannerStep(w, p)
            \/ Handle
            \/ \E p \in Requests : Emit(p)
            \/ /\ UNCHANGED <<inbox, scans, emitting, output>>
               /\ \A p \in Requests : phase'[p] = "submitted" => phase[p] = "submitted"
               /\ \A w \in Scanners, p \in Requests : task'[w][p] \in Past => task'[w][p] = task[w][p]
<1>0. stops \in Nat
  BY DEF TypeOK
<1>1. ~Stop
  BY <1>0 DEF Stop, CrashWatcher, KillLogger, StopScanner, KillScanner
<1>2. CASE UNCHANGED <<stops, logger>>
  <2> SUFFICES ASSUME ~\E p \in Requests : PublishSubmit(p) \/ Emit(p),
                      ~\E w \in Scanners, p \in Requests : ScannerStep(w, p),
                      ~Handle
               PROVE  /\ UNCHANGED <<inbox, scans, emitting, output>>
                      /\ \A p \in Requests : phase'[p] = "submitted" => phase[p] = "submitted"
                      /\ \A w \in Scanners, p \in Requests : task'[w][p] \in Past => task'[w][p] = task[w][p]
    BY <1>2 DEF CalmInv
  <2>1. ASSUME NEW p \in Requests, Observe(p)
        PROVE  /\ UNCHANGED <<inbox, scans, emitting, output, task>>
               /\ \A r \in Requests : phase'[r] = "submitted" => phase[r] = "submitted"
    BY <2>1 DEF Observe, loggerVars, scannerVars, TypeOK
  <2>2. ASSUME NEW p \in Requests, PublishRequest(p)
        PROVE  /\ UNCHANGED <<inbox, scans, emitting, output>>
               /\ \A r \in Requests : phase'[r] = "submitted" => phase[r] = "submitted"
               /\ \A w \in Scanners, r \in Requests : task'[w][r] \in Past => task'[w][r] = task[w][r]
    BY <2>2 DEF PublishRequest, loggerVars, TypeOK, Past
  <2>3. ASSUME NEW p \in Requests, StartDelete(p) \/ Unlink(p)
        PROVE  UNCHANGED <<inbox, scans, emitting, output, task, phase>>
    BY <2>3 DEF StartDelete, Unlink, watcherVars, loggerVars, scannerVars
  <2>4. ASSUME NEW w \in Scanners, ExitScanner(w) \/ StartScanner(w)
        PROVE  UNCHANGED <<inbox, scans, emitting, output, task, phase>>
    BY <2>4 DEF ExitScanner, StartScanner, watcherVars, loggerVars
  <2>5. CASE StartLogger \/ Idle \/ UNCHANGED vars
    BY <2>5 DEF StartLogger, Idle, vars, watcherVars, loggerVars, scannerVars
  <2> QED BY <1>1, <2>1, <2>2, <2>3, <2>4, <2>5 DEF Next, LoggerStep
<1>3. CASE ~UNCHANGED <<stops, logger>>
  <2>1. ASSUME NEW p \in Requests,
               Observe(p) \/ PublishRequest(p) \/ PublishSubmit(p) \/ StartDelete(p) \/ Unlink(p) \/ Emit(p)
        PROVE  UNCHANGED <<stops, logger>>
    BY <2>1 DEF Observe, PublishRequest, PublishSubmit, StartDelete, Unlink, Emit, loggerVars
  <2>2. ASSUME NEW w \in Scanners, NEW p \in Requests, ScannerStep(w, p) PROVE UNCHANGED <<stops, logger>>
    BY <2>2, TaskStep
  <2>3. ASSUME NEW w \in Scanners, ExitScanner(w) \/ StartScanner(w) PROVE UNCHANGED <<stops, logger>>
    BY <2>3 DEF ExitScanner, StartScanner, loggerVars
  <2>4. CASE Handle
    <3>1. UNCHANGED <<stops, logger>>
      BY <2>4, HandleCases
    <3> QED BY <1>3, <3>1
  <2>6. CASE Idle \/ UNCHANGED vars
    <3>1. UNCHANGED <<stops, logger>>
      BY <2>6 DEF Idle, vars, loggerVars
    <3> QED BY <1>3, <3>1
  <2>5. CASE StartLogger
    <3>1. UNCHANGED stops
      BY <2>5 DEF StartLogger
    <3>2. logger = "up"
      BY <3>1 DEF CalmInv
    <3> QED BY <2>5, <3>2 DEF StartLogger
  <2> QED BY <1>1, <1>3, <2>1, <2>2, <2>3, <2>4, <2>5, <2>6 DEF Next, LoggerStep
<1> QED BY <1>2, <1>3

\* Nothing on its way gets lost.
Growing ==
  \A i \in 1 .. Len(inbox) : i \in 1 .. Len(inbox') /\ inbox'[i] = inbox[i]

LEMMA PublishGrows ==
  ASSUME TypeOK, NEW m \in Message, Publish(m), logger = "up"
  PROVE  Growing /\ Len(inbox) + 1 \in 1 .. Len(inbox') /\ inbox'[Len(inbox) + 1] = m
<1>1. /\ Len(inbox) \in Nat /\ Len(inbox') = Len(inbox) + 1
      /\ inbox'[Len(inbox) + 1] = m
      /\ \A i \in 1 .. Len(inbox) : inbox'[i] = inbox[i]
  BY PublishCases
<1> QED BY <1>1 DEF Growing

LEMMA ComesStill ==
  ASSUME Growing, NEW w, NEW q
  PROVE  /\ Coming(q) => Coming(q)'
         /\ BeginComes(w, q) => BeginComes(w, q)'
         /\ EndComes(w, q) => EndComes(w, q)'
BY DEF Growing, Coming, SubmitAt, BeginComes, BeginAt, EndComes, EndAt, Mine

LEMMA TaskKeptSame ==
  ASSUME NEW w \in Scanners, NEW q \in Requests, TaskKept(w, q), Growing,
         task'[w][q] \in Past => task'[w][q] = task[w][q],
         UNCHANGED scans, Written(q) => Written(q)'
  PROVE  TaskKept(w, q)'
<1>1. Heard(w, q)' = Heard(w, q)
  BY DEF Heard
<1> QED BY <1>1, ComesStill DEF TaskKept, Past

LEMMA FileKeptSame ==
  ASSUME NEW q \in Requests, FileKept(q), Growing,
         phase'[q] = "submitted" => phase[q] = "submitted", UNCHANGED <<scans, emitting, output>>
  PROVE  FileKept(q)'
<1>1. Coming(q) => Coming(q)'
  BY ComesStill
<1> QED BY <1>1 DEF FileKept, Tracked, Writing, OnRecord

\* The task's own step: it says that it begins and that it ends.
LEMMA TaskKeptOwn ==
  ASSUME IInv, logger = "up", NEW w \in Scanners, NEW q \in Requests, TaskKept(w, q), ScannerStep(w, q)
  PROVE  TaskKept(w, q)'
<1>1. TypeOK /\ SentInv
  BY DEF IInv, TypeInv
<1>2. UNCHANGED <<scans, emitting, output>> /\ task[w][q] \in Live
  BY <1>1, TaskStep
<1>3. Heard(w, q)' = Heard(w, q) /\ (Written(q)' <=> Written(q))
  BY <1>2 DEF Heard, Written
<1>4. Growing
  <2>1. inbox' = inbox \/ \E m \in Message : Publish(m)
    BY <1>1, TaskPublish
  <2> QED BY <1>1, <2>1, PublishGrows DEF Growing
<1>5. CASE Begin(w, q)
  <2> DEFINE m == Note("begin", q, w)
  <2>1. m \in Message /\ Of(m, w, q) /\ m.type = "begin" /\ Publish(m)
    BY <1>5 DEF Note, Message, Of, Begin
  <2>2. task'[w][q] = "begun"
    BY <1>1, <1>5 DEF Begin, SetTask, TypeOK
  <2> HIDE DEF m
  <2>3. BeginComes(w, q)'
    BY <1>1, <2>1, PublishGrows DEF BeginComes, BeginAt, Mine
  <2> QED BY <2>2, <2>3 DEF TaskKept
<1>6. CASE OpenFile(w, q) \/ FinishScan(w, q)
  <2>1. task[w][q] \in Past /\ task'[w][q] \in Past \ {"finished"}
    BY <1>1, <1>6 DEF OpenFile, FinishScan, SetTask, TypeOK, Past
  <2> QED BY <1>3, <1>4, <2>1, ComesStill DEF TaskKept
<1>7. ASSUME NEW t \in {"sending", "lost"}, SendNext(w, q, t) PROVE TaskKept(w, q)'
  <2> DEFINE o  == outcome[w][q]
             L  == Len(o.results)
             ms == Messages(o, q, w)
             n  == sent[w][q] + 1
  <2>1. /\ task[w][q] = "sending" /\ o \in Outcome /\ L \in Nat
        /\ sent[w][q] \in Nat /\ sent[w][q] <= L /\ n \in 1 .. L + 1
    BY <1>1, <1>7 DEF SendNext, TypeOK, SentInv, Outcome
  <2>2. Len(ms) = L + 1 /\ ms[n] = IF n <= L THEN ResultMsg(q, w, o.results[n]) ELSE Note(o.last, q, w)
    <3>1. Len(ms) = L + 1
      BY <2>1, MessagesType
    <3>2. ms[n] = IF n <= L THEN ResultMsg(q, w, o.results[n]) ELSE Note(o.last, q, w)
      <4>1. o \in Outcome /\ n \in 1 .. Len(o.results) + 1
        BY <2>1
      <4> HIDE DEF n, o
      <4> QED BY <4>1, MessageAt
    <3> QED BY <3>1, <3>2
  <2>3. Publish(ms[n]) /\ SetTask(w, q, IF n = Len(ms) THEN "finished" ELSE t)
    BY <1>7, Zenon DEF SendNext
  <2>4. task'[w][q] = IF n = L + 1 THEN "finished" ELSE t
    <3> HIDE DEF n, ms, L
    <3> QED BY <1>1, <2>2, <2>3 DEF TypeOK, SetTask
  <2>5. n = L + 1 => EndComes(w, q)'
    <3> SUFFICES ASSUME n = L + 1 PROVE EndComes(w, q)'
      OBVIOUS
    <3> DEFINE m == Note(o.last, q, w)
    <3>1. m \in Message /\ Of(m, w, q) /\ m.type \in {"end", "timeout"}
      BY <2>1 DEF Note, Message, Of, Outcome
    <3>2. ms[n] = m
      BY <2>1, <2>2
    <3>3. Publish(m)
      BY <2>3, <3>2
    <3> HIDE DEF m
    <3> QED BY <1>1, <3>1, <3>3, PublishGrows DEF EndComes, EndAt, Mine
  <2> HIDE DEF n, L, ms, o
  <2>6. task[w][q] \in Past /\ (task'[w][q] = "finished" => EndComes(w, q)')
    BY <2>1, <2>4, <2>5 DEF Past
  <2> QED BY <1>3, <1>4, <2>6, ComesStill DEF TaskKept
<1>8. CASE Send(w, q)
  BY <1>7, <1>8 DEF Send
<1>9. CASE CancelTask(w, q)
  <2>1. CASE SetTask(w, q, "lost")
    <3>1. task'[w][q] = "lost"
      BY <1>1, <2>1 DEF SetTask, TypeOK
    <3> QED BY <3>1 DEF TaskKept, Past
  <2> QED BY <1>7, <1>9, <2>1 DEF CancelTask
<1> QED BY <1>5, <1>6, <1>8, <1>9 DEF ScannerStep

\* What was heard of a request that is not about to be written is still there.
LEMMA HeardKept ==
  ASSUME TypeOK, Handle, NEW w \in Scanners, NEW q \in Requests, q \notin DOMAIN emitting'
  PROVE  \/ Heard(w, q)' = Heard(w, q) /\ ~Of(Head(inbox), w, q)
         \/ \E s \in FileScan : After(q, s) /\ Heard(w, q)' = s.results[w]
<1>1. CASE Ignored(Head(inbox))
  BY <1>1, HandleCases DEF Ignored, Of, Heard
<1>2. CASE ~Ignored(Head(inbox)) /\ q \in DOMAIN scans'
  BY <1>2, HandleCases DEF Heard
<1>3. CASE ~Ignored(Head(inbox)) /\ q \notin DOMAIN scans'
  <2>1. q \notin DOMAIN scans /\ q # Head(inbox).id
    BY <1>3, HandleCases
  <2> QED BY <1>3, <2>1 DEF Heard, Of
<1> QED BY <1>1, <1>2, <1>3

LEMMA TaskKeptHandle ==
  ASSUME IInv, NEW w \in Scanners, NEW q \in Requests, OrderOK(w, q), TaskKept(w, q), Handle
  PROVE  TaskKept(w, q)'
<1> DEFINE m == Head(inbox)
           r == Heard(w, q)
<1>1. TypeOK
  BY DEF IInv, TypeInv
<1>2. UNCHANGED <<task, output>> /\ emitting = EmptyMap /\ m \in Message
  BY <1>1, HandleCases DEF scannerVars
<1>3. /\ \A i \in 1 .. Len(inbox') :
           /\ i + 1 \in 1 .. Len(inbox) /\ inbox'[i] = inbox[i + 1]
           /\ Mine(i, w, q)' <=> Mine(i + 1, w, q)
      /\ 1 \in 1 .. Len(inbox) /\ m = inbox[1] /\ (Mine(1, w, q) <=> Of(m, w, q))
      /\ \A i \in 1 .. Len(inbox) : i = 1 \/ \E j \in 1 .. Len(inbox') : i = j + 1
  BY <1>1, HandleInbox
<1> SUFFICES ASSUME ~Written(q)' PROVE TaskKept(w, q)'
  BY DEF TaskKept
<1>4. ~Written(q) /\ q \notin DOMAIN emitting'
  BY <1>2, EmptyMapType DEF Written
<1>5. /\ task[w][q] \in Past => BeginComes(w, q) \/ r.state # "absent"
      /\ task[w][q] = "finished" => EndComes(w, q) \/ r.state = "done"
  BY <1>4 DEF TaskKept
<1>6. \/ Heard(w, q)' = r /\ ~Of(m, w, q)
      \/ \E s \in FileScan : After(q, s) /\ Heard(w, q)' = s.results[w]
  BY <1>1, <1>4, HeardKept
<1>7. r \in FileResult
  BY <1>1, HeardType
<1> HIDE DEF m, r
<1>8. ~EndAt(1, w, q) => (EndComes(w, q) => EndComes(w, q)')
  <2>1. \A i \in 1 .. Len(inbox') : EndAt(i, w, q)' <=> EndAt(i + 1, w, q)
    BY <1>3 DEF EndAt
  <2> QED BY <1>3, <2>1 DEF EndComes
<1>9. CASE ~Of(m, w, q)
  <2>1. Heard(w, q)' = r
    BY <1>1, <1>6, <1>9, HeardAfter DEF m, r
  <2>2. BeginComes(w, q)' <=> BeginComes(w, q)
    BY <1>1, <1>9, HeadOfOther DEF m
  <2>3. ~EndAt(1, w, q)
    BY <1>3, <1>9 DEF EndAt
  <2> QED BY <1>2, <1>5, <1>8, <2>1, <2>2, <2>3 DEF TaskKept
<1>10. CASE Of(m, w, q)
  <2>1. PICK s \in FileScan : After(q, s) /\ Heard(w, q)' = s.results[w]
    BY <1>6, <1>10
  <2>2. /\ r.state # "done"
        /\ m.type = "begin" => BeginComes(w, q)
        /\ m.type \in {"end", "timeout"} => task[w][q] = "finished"
    BY <1>10, HeadOfPair DEF m, r
  <2>3. BeginComes(w, q) => r.state = "absent"
    BY DEF OrderOK, r
  <2>4. m.type # "begin" => ~BeginComes(w, q)
    <3> SUFFICES ASSUME m.type # "begin", NEW i \in 1 .. Len(inbox), BeginAt(i, w, q) PROVE FALSE
      BY DEF BeginComes
    <3>1. i <= 1
      BY <1>3, <1>10 DEF OrderOK
    <3>2. i = 1
      BY <3>1
    <3> QED BY <1>3, <3>2 DEF BeginAt
  <2>5. CASE m.type = "begin"
    <3>1. Heard(w, q)'.state = "open"
      BY <1>1, <1>10, <2>1, <2>2, <2>3, <2>5, HeardAfter DEF m, r, NoResult
    <3>2. ~EndAt(1, w, q)
      BY <1>3, <2>5 DEF EndAt
    <3> QED BY <1>2, <1>5, <1>8, <2>2, <3>1, <3>2 DEF TaskKept
  <2>6. CASE m.type = "result"
    <3>1. Heard(w, q)'.state = r.state
      BY <1>1, <1>10, <2>1, <2>6, HeardAfter DEF m, r
    <3>2. ~EndAt(1, w, q)
      BY <1>3, <2>6 DEF EndAt
    <3> QED BY <1>2, <1>5, <1>8, <2>2, <2>4, <2>6, <3>1, <3>2 DEF TaskKept
  <2>7. CASE m.type \in {"end", "timeout"}
    <3>1. task[w][q] = "finished" /\ r.state # "absent"
      BY <1>5, <2>2, <2>4, <2>7 DEF Past
    <3>2. r.state = "open"
      BY <1>7, <2>2, <3>1 DEF FileResult
    <3>3. Heard(w, q)'.state = "done"
      BY <1>1, <1>10, <2>1, <2>7, <3>2, HeardAfter DEF m, r
    <3> QED BY <3>3 DEF TaskKept
  <2> QED BY <1>10, <2>5, <2>6, <2>7 DEF Of
<1> QED BY <1>9, <1>10

LEMMA FileKeptHandle ==
  ASSUME TypeOK, NEW q \in Requests, FileKept(q), Handle
  PROVE  FileKept(q)'
<1> DEFINE m == Head(inbox)
<1>1. /\ UNCHANGED <<phase, output>> /\ emitting = EmptyMap /\ m \in Message
      /\ Ignored(m) => UNCHANGED <<scans, emitting>>
      /\ ~Ignored(m) =>
           /\ DOMAIN scans' \cup DOMAIN emitting' = DOMAIN scans \cup {m.id}
           /\ \A p \in DOMAIN scans' : scans'[p] \in FileScan /\ After(p, scans'[p])
           /\ \A p \in DOMAIN emitting' : emitting'[p] \in FileScan /\ After(p, emitting'[p])
  BY HandleCases DEF watcherVars
<1>2. /\ \A i \in 1 .. Len(inbox) : i = 1 \/ \E j \in 1 .. Len(inbox') : i = j + 1
      /\ \A i \in 1 .. Len(inbox') : inbox'[i] = inbox[i + 1]
      /\ m = inbox[1]
  BY HandleInbox
<1>3. ~Writing(q)
  BY <1>1, EmptyMapType DEF Writing
<1> SUFFICES ASSUME phase[q] = "submitted", ~OnRecord(q)
             PROVE  Coming(q)' \/ Tracked(q)' \/ Writing(q)'
  BY <1>1 DEF FileKept, OnRecord
<1>4. Coming(q) => Coming(q)' \/ (m.type = "submit" /\ m.id = q)
  <2> HIDE DEF m
  <2> SUFFICES ASSUME NEW i \in 1 .. Len(inbox), SubmitAt(i, q)
               PROVE  Coming(q)' \/ (m.type = "submit" /\ m.id = q)
    BY DEF Coming
  <2>1. CASE i = 1
    BY <1>2, <2>1 DEF SubmitAt
  <2>2. ASSUME NEW j \in 1 .. Len(inbox'), i = j + 1 PROVE Coming(q)'
    BY <1>2, <2>2 DEF Coming, SubmitAt
  <2> QED BY <1>2, <2>1, <2>2
<1>5. Coming(q)' \/ Tracked(q) \/ (m.type = "submit" /\ m.id = q)
  BY <1>3, <1>4 DEF FileKept
<1>6. ASSUME NEW s \in FileScan, After(q, s), Tracked(q) \/ (m.type = "submit" /\ m.id = q)
      PROVE  s.file
  <2>1. PICK p \in FileScan : Before(q, p) /\ s = IF q = m.id THEN UpdateScan(p, m) ELSE p
    BY <1>6 DEF After
  <2>2. Tracked(q) => p.file
    <3>1. PICK a \in Ages : p = IF q \in DOMAIN scans THEN [scans[q] EXCEPT !.age = a] ELSE ForEvent(a)
      BY <2>1, Zenon DEF Before
    <3> QED BY <3>1 DEF TypeOK, IsScanMap, FileScan, Tracked
  <2> HIDE DEF m
  <2>3. CASE q = m.id
    BY <1>1, <1>6, <2>1, <2>2, <2>3, UpdateFields
  <2>4. CASE q # m.id
    BY <1>6, <2>1, <2>2, <2>4
  <2> QED BY <2>3, <2>4
<1> HIDE DEF m
<1>7. CASE Ignored(m)
  BY <1>1, <1>5, <1>7 DEF Ignored, Tracked
<1>8. CASE ~Ignored(m) /\ (Tracked(q) \/ (m.type = "submit" /\ m.id = q))
  <2>1. q \in DOMAIN scans' \/ q \in DOMAIN emitting'
    BY <1>1, <1>8 DEF Tracked
  <2> QED BY <1>1, <1>6, <1>8, <2>1 DEF Tracked, Writing
<1> QED BY <1>5, <1>7, <1>8

LEMMA CalmStep ==
  ASSUME IInv, PairInv, CalmInv, [Next]_vars
  PROVE  CalmInv'
<1> SUFFICES ASSUME stops' = 0, NEW q \in Requests PROVE logger' = "up" /\ Kept(q)'
  BY CalmCases DEF CalmInv, IInv, TypeInv
<1>1. TypeOK /\ SentInv /\ CountInv
  BY DEF IInv, TypeInv
<1>2. stops = 0 /\ logger = "up" /\ logger' = "up" /\ Kept(q)
  BY <1>1, CalmCases DEF CalmInv
<1>3. Len(inbox) \in Nat
  BY <1>1 DEF TypeOK
<1>4. ASSUME NEW p \in Requests, PublishSubmit(p) PROVE Kept(q)'
  <2> DEFINE m == SubmitMsg(p, counted[p])
  <2>1. m \in Message /\ m.id = p /\ m.type = "submit" /\ Publish(m)
    BY <1>1, <1>4 DEF SubmitMsg, Message, TypeOK, PublishSubmit
  <2>2. /\ UNCHANGED <<scans, emitting, output, task>>
        /\ q # p => phase'[q] = phase[q]
    BY <1>1, <1>4 DEF PublishSubmit, loggerVars, scannerVars, TypeOK
  <2> HIDE DEF m
  <2>3. Growing /\ Len(inbox) + 1 \in 1 .. Len(inbox') /\ inbox'[Len(inbox) + 1] = m
    BY <1>1, <1>2, <2>1, PublishGrows
  <2>4. FileKept(q)'
    <3>1. CASE p = q
      BY <2>1, <2>3, <3>1 DEF FileKept, Coming, SubmitAt
    <3>2. CASE p # q
      BY <1>2, <2>2, <2>3, <3>2, FileKeptSame DEF Kept
    <3> QED BY <3>1, <3>2
  <2>5. Written(q) => Written(q)'
    BY <2>2 DEF Written
  <2> QED BY <1>2, <2>2, <2>3, <2>4, <2>5, TaskKeptSame DEF Kept
<1>5. ASSUME NEW v \in Scanners, NEW p \in Requests, ScannerStep(v, p) PROVE Kept(q)'
  <2>1. UNCHANGED <<scans, emitting, output, phase>>
    BY <1>1, <1>5, TaskStep
  <2>2. Growing
    <3>1. inbox' = inbox \/ \E m \in Message : Publish(m)
      BY <1>1, <1>5, TaskPublish
    <3> QED BY <1>1, <1>2, <3>1, PublishGrows DEF Growing
  <2>3. FileKept(q)'
    BY <1>2, <2>1, <2>2, FileKeptSame DEF Kept
  <2>4. Written(q) => Written(q)'
    BY <2>1 DEF Written
  <2>5. ASSUME NEW w \in Scanners PROVE TaskKept(w, q)'
    <3>1. CASE w = v /\ q = p
      BY <1>2, <1>5, <3>1, TaskKeptOwn DEF Kept
    <3>2. CASE w # v \/ q # p
      <4>1. task'[w][q] = task[w][q]
        BY <1>1, <1>5, <3>2, TaskStep
      <4> QED BY <1>2, <2>1, <2>2, <2>4, <4>1, TaskKeptSame DEF Kept
    <3> QED BY <3>1, <3>2
  <2> QED BY <2>3, <2>5 DEF Kept
<1>6. CASE Handle
  <2>1. FileKept(q)'
    BY <1>1, <1>2, <1>6, FileKeptHandle DEF Kept
  <2>2. ASSUME NEW w \in Scanners PROVE TaskKept(w, q)'
    <3>1. OrderOK(w, q) /\ TaskKept(w, q)
      BY <1>2 DEF Kept, PairInv, PairOK
    <3> QED BY <1>6, <3>1, TaskKeptHandle
  <2> QED BY <1>2, <2>1, <2>2 DEF Kept
<1>7. ASSUME NEW p \in Requests, Emit(p) PROVE Kept(q)'
  <2>1. CompleteMsg(p) \in Message /\ Publish(CompleteMsg(p)) /\ UNCHANGED <<scans, task, phase>>
    BY <1>7 DEF CompleteMsg, Message, Emit, scannerVars, watcherVars
  <2>2. Growing
    BY <1>1, <1>2, <2>1, PublishGrows
  <2>3. /\ p \in DOMAIN emitting /\ DOMAIN emitting' = DOMAIN emitting \ {p}
        /\ \A r \in DOMAIN emitting' : emitting'[r] = emitting[r]
        /\ p # q => output'[q] = output[q]
        /\ Len(output[p]) \in Nat /\ Len(output'[p]) = Len(output[p]) + 1
        /\ output'[p][Len(output[p]) + 1] = emitting[p]
        /\ \A i \in 1 .. Len(output[p]) : output'[p][i] = output[p][i]
    BY <1>1, <1>7, EmitFacts
  <2>4. \A i \in 1 .. Len(output[q]) : i \in 1 .. Len(output'[q]) /\ output'[q][i] = output[q][i]
    BY <2>3
  <2>5. p = q => Len(output'[q]) > 0 /\ Len(output[q]) + 1 \in 1 .. Len(output'[q])
    BY <2>3
  <2>6. Written(q) => Written(q)'
    <3>1. CASE p = q
      BY <2>5, <3>1 DEF Written
    <3>2. CASE p # q
      BY <2>3, <3>2 DEF Written
    <3> QED BY <3>1, <3>2
  <2>7. FileKept(q)'
    <3>1. Coming(q) => Coming(q)'
      BY <2>2, ComesStill
    <3>2. OnRecord(q) => OnRecord(q)'
      BY <2>4 DEF OnRecord
    <3>3. Writing(q) => Writing(q)' \/ OnRecord(q)'
      <4>1. CASE p = q
        BY <2>3, <2>5, <4>1 DEF Writing, OnRecord
      <4>2. CASE p # q
        BY <2>3, <4>2 DEF Writing
      <4> QED BY <4>1, <4>2
    <3>4. Tracked(q)' = Tracked(q) /\ phase' = phase
      BY <2>1 DEF Tracked
    <3> QED BY <1>2, <3>1, <3>2, <3>3, <3>4 DEF Kept, FileKept
  <2> QED BY <1>2, <2>1, <2>2, <2>6, <2>7, TaskKeptSame DEF Kept
<1>8. CASE /\ UNCHANGED <<inbox, scans, emitting, output>>
           /\ \A p \in Requests : phase'[p] = "submitted" => phase[p] = "submitted"
           /\ \A w \in Scanners, p \in Requests : task'[w][p] \in Past => task'[w][p] = task[w][p]
  <2>1. Growing
    BY <1>8 DEF Growing
  <2>2. Written(q) => Written(q)'
    BY <1>8 DEF Written
  <2> QED BY <1>2, <1>8, <2>1, <2>2, TaskKeptSame, FileKeptSame DEF Kept
<1> QED BY <1>1, <1>2, <1>4, <1>5, <1>6, <1>7, <1>8, CalmCases

\* A request of which nothing is under way and no record was forced is on record.
LEMMA SettledIsRecorded ==
  ASSUME IInv, WaitInv, RestInv, CalmInv, NEW q \in Requests,
         stops = 0, Settled(q), \A s \in Records(q) : InTime(s)
  PROVE  OnRecord(q) /\ q \notin DOMAIN scans
<1>1. /\ TypeOK /\ phase[q] = "submitted" /\ q \notin DOMAIN emitting
      /\ \A w \in Scanners : task[w][q] \in {"none", "finished"}
      /\ \A i \in 1 .. Len(inbox) : inbox[i].id # q
  BY DEF IInv, TypeInv, TypeOK, Settled
<1>2. ASSUME NEW i \in 1 .. Len(output[q]) PROVE OnRecord(q) /\ q \notin DOMAIN scans
  <2>1. output[q][i] \in FileScan /\ OverOK(q, output[q][i])
    BY <1>1 DEF IInv, OutputInv, OverOK, TypeOK
  <2>2. InTime(output[q][i])
    BY <1>1 DEF Records, TypeOK
  <2>3. output[q][i].file
    BY <2>1, <2>2, OverIsFinal
  <2> QED BY <2>2, <2>3 DEF OnRecord, RestInv, RestOK, Over
<1>3. CASE Len(output[q]) = 0
  <2>1. ~Written(q) /\ ~Coming(q) /\ ~Writing(q) /\ ~OnRecord(q)
    BY <1>1, <1>3 DEF Written, Coming, SubmitAt, Writing, OnRecord
  <2>2. Tracked(q)
    BY <1>1, <2>1 DEF CalmInv, Kept, FileKept
  <2> DEFINE s == scans[q]
  <2>3. q \in DOMAIN scans /\ s.file /\ s \in FileScan /\ ScanOK(q, s) /\ ~Satisfied(s)
    BY <1>1, <2>2 DEF Tracked, IInv, ScansInv, WaitInv, TypeOK, IsScanMap
  <2> HIDE DEF s
  <2>4. ASSUME NEW w \in Receivers(q) PROVE s.results[w].state = "done"
    <3>1. w \in Scanners /\ task[w][q] = "finished"
      BY <1>1 DEF Receivers
    <3>2. ~EndComes(w, q)
      BY <1>1 DEF EndComes, EndAt, Mine, Of
    <3> QED BY <2>1, <2>3, <3>1, <3>2 DEF CalmInv, Kept, TaskKept, Heard, s
  <2>5. \A w \in Scanners : w \notin Receivers(q) => s.results[w].state = "absent"
    BY <2>3 DEF ScanOK, Receivers
  <2>6. Begun(s) = Receivers(q) /\ AllDone(s)
    BY <2>4, <2>5 DEF Begun, AllDone, Receivers
  <2>7. s.expected >= 0 /\ s.expected = Cardinality(Receivers(q))
    BY <1>1, <2>3 DEF ScanOK, IInv, CountInv
  <2>8. s.expected \in Int
    BY <2>3 DEF FileScan
  <2> QED BY <2>3, <2>6, <2>7, <2>8 DEF Satisfied
<1>4. Len(output[q]) \in Nat
  BY <1>1 DEF TypeOK
<1> QED BY <1>2, <1>3, <1>4

LEMMA RecordedInit == Init => WaitInv /\ RestInv /\ CalmInv
<1> SUFFICES ASSUME Init PROVE WaitInv /\ RestInv /\ CalmInv
  OBVIOUS
<1>1. DOMAIN scans = {} /\ DOMAIN emitting = {} /\ logger = "up"
  BY EmptyMapType DEF Init
<1>2. \A q \in Requests : Len(output[q]) = 0 /\ phase[q] = "idle" /\ \A w \in Scanners : task[w][q] = "none"
  BY DEF Init
<1>3. \A q \in Requests : ~Over(q)
  BY <1>1, <1>2 DEF Over
<1>4. \A q \in Requests : Kept(q)
  BY <1>2 DEF Kept, FileKept, TaskKept, Past
<1> QED BY <1>1, <1>3, <1>4 DEF WaitInv, RestInv, RestOK, CalmInv

\* The invariant behind RecordedOnce.
RecordInv == FileOnceInv /\ DownInv /\ PairInv /\ WaitInv /\ RestInv /\ CalmInv

LEMMA RecordStep ==
  ASSUME IInv, RecordInv, EmittingFinal', [Next]_vars
  PROVE  RecordInv'
<1>1. TypeOK
  BY DEF IInv, TypeInv
<1> QED BY <1>1, FileOnceStep, DownStep, PairStep, WaitStep, RestStep, CalmStep DEF RecordInv, PairInv

LEMMA RecordFromInv == IInv /\ RecordInv => RecordedOnce
<1> SUFFICES ASSUME IInv, RecordInv, NEW q \in Requests
             PROVE  LET n == Cardinality({i \in DOMAIN output[q] : output[q][i].file})
                    IN  /\ n <= 1
                        /\ stops = 0 /\ Settled(q) /\ (\A s \in Records(q) : InTime(s))
                           => n = 1 /\ q \notin DOMAIN scans
  BY DEF RecordedOnce
<1> QED BY OnceFromInv, SettledIsRecorded DEF RecordInv

(* A file is put on record at most once, for any number of requests,       *)
(* scanners and stops, at any time limits: its submit is read once, and    *)
(* what it brought is in the map, about to be written or on record.  When  *)
(* no process stopped and no time limit forced a record, it is on record   *)
(* as soon as all scans are over and all messages read: no message is lost *)
(* or read before its begin, and the last one completes the entry.         *)
THEOREM RecordsOnce == Spec => []RecordedOnce
<1>1. IInv /\ RecordInv /\ EmittingFinal' /\ [Next]_vars => RecordInv'
  BY RecordStep
<1>2. Init => RecordInv
  BY OnceInit, PairInit, RecordedInit DEF RecordInv
<1>3. Spec => []RecordInv
  BY Invariance, FinalEmitting, <1>1, <1>2, PTL DEF Spec
<1> QED BY Invariance, <1>3, RecordFromInv, PTL
=============================================================================
