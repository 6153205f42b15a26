--------------------------- MODULE FileScanProofs ----------------------------
(***************************************************************************)
(* Type correctness of FileScan and RecordsAreFinal, for any number of     *)
(* requests and scanners, any policy, any time limits and any number of    *)
(* stops.                                                                  *)
(*                                                                         *)
(* RecordsAreFinal is about records; its inductive strengthening follows a *)
(* fact from where it arises to where it is recorded: the count the        *)
(* watcher got is that of the receivers (CountInv), a message on its way   *)
(* says what its sender did (MessageOK), and so does the logger's entry    *)
(* (ScanOK) while it is in the map, about to be written and on record.     *)
(***************************************************************************)
EXTENDS FileScan, TLAPS, FiniteSetTheorems, SequenceTheorems

-----------------------------------------------------------------------------
(* Lemmas about the operators of ScanModel.                                *)

LEMMA MessageFields ==
  ASSUME NEW m \in Message
  PROVE  /\ m.id \in Requests
         /\ m.type \in {"submit", "begin", "end", "timeout", "result", "complete"}
         /\ m.type = "submit" => m.count \in Nat
         /\ m.type \in {"begin", "end", "timeout", "result"} => m.name \in Scanners
         /\ m.type = "result" => m.finding \in Findings
  BY DEF Message

(* A message applied to a scan gives a scan: FileScan.update. *)
LEMMA UpdateScanType ==
  ASSUME NEW s \in FileScan, NEW m \in Message
  PROVE  UpdateScan(s, m) \in FileScan
<1>1. CASE ~Accepts(s, m)
  BY <1>1 DEF UpdateScan
<1>2. CASE Accepts(s, m) /\ m.type = "submit"
  BY <1>2, MessageFields DEF UpdateScan, FileScan
<1>3. CASE Accepts(s, m) /\ m.type = "begin"
  <2>1. [NoResult EXCEPT !.state = "open"] \in FileResult
    BY DEF NoResult, FileResult
  <2>2. s.results \in [Scanners -> FileResult]
    BY DEF FileScan
  <2>3. [s.results EXCEPT ![m.name] = [NoResult EXCEPT !.state = "open"]] \in [Scanners -> FileResult]
    BY <2>1, <2>2
  <2>4. UpdateScan(s, m) = [s EXCEPT !.results = [s.results EXCEPT ![m.name] = [NoResult EXCEPT !.state = "open"]]]
    BY <1>3, Zenon DEF UpdateScan
  <2> QED BY <2>3, <2>4 DEF FileScan
<1>4. CASE Accepts(s, m) /\ m.type \notin {"submit", "begin"}
  <2>1. m.name \in Scanners /\ m.type \in {"result", "end", "timeout"}
    BY <1>4, MessageFields DEF Accepts
  <2>2. s.results \in [Scanners -> FileResult]
    BY DEF FileScan
  <2>3. UpdateResult(s.results[m.name], m) \in FileResult
    BY <2>1, <2>2 DEF UpdateResult, FileResult
  <2>4. [s.results EXCEPT ![m.name] = UpdateResult(s.results[m.name], m)] \in [Scanners -> FileResult]
    BY <2>3, <2>2
  <2>5. UpdateScan(s, m) = [s EXCEPT !.results = [s.results EXCEPT ![m.name] = UpdateResult(s.results[m.name], m)]]
    BY <1>4 DEF UpdateScan
  <2> QED BY <2>4, <2>5 DEF FileScan
<1> QED BY <1>1, <1>2, <1>3, <1>4

LEMMA ForEventType ==
  ASSUME NEW age \in Ages
  PROVE  ForEvent(age) \in FileScan
  BY DEF ForEvent, FileScan, NoResult, FileResult

LEMMA EmptyMapType == IsScanMap(EmptyMap) /\ DOMAIN EmptyMap = {}
  BY DEF IsScanMap, EmptyMap

LEMMA PartType ==
  ASSUME NEW map, IsScanMap(map), NEW S \in SUBSET DOMAIN map
  PROVE  /\ IsScanMap(Part(map, S))
         /\ DOMAIN Part(map, S) = S
         /\ \A q \in S : Part(map, S)[q] = map[q]
  BY DEF IsScanMap, Part

(* The two steps of FileScanMap.update, entry by entry. *)
LEMMA AgedType ==
  ASSUME NEW map, IsScanMap(map), NEW m \in Message, NEW ages \in [Requests -> Ages]
  PROVE  /\ IsScanMap(Aged(map, m, ages))
         /\ DOMAIN Aged(map, m, ages) = DOMAIN map \cup {m.id}
         /\ \A q \in DOMAIN map : Aged(map, m, ages)[q] = [map[q] EXCEPT !.age = ages[q]]
         /\ m.id \notin DOMAIN map => Aged(map, m, ages)[m.id] = ForEvent(ages[m.id])
<1>1. m.id \in Requests
  BY MessageFields
<1>2. ASSUME NEW q \in DOMAIN map PROVE [map[q] EXCEPT !.age = ages[q]] \in FileScan
  BY <1>2 DEF IsScanMap, FileScan
<1>3. ASSUME NEW q \in Requests PROVE ForEvent(ages[q]) \in FileScan
  BY ForEventType
<1> QED BY <1>1, <1>2, <1>3 DEF IsScanMap, Aged

LEMMA UpdateMapType ==
  ASSUME NEW map, IsScanMap(map), NEW m \in Message, m.id \in DOMAIN map
  PROVE  /\ IsScanMap(UpdateMap(map, m))
         /\ DOMAIN UpdateMap(map, m) = DOMAIN map
         /\ \A q \in DOMAIN map :
              UpdateMap(map, m)[q] = IF q = m.id THEN UpdateScan(map[q], m) ELSE map[q]
<1>1. UpdateScan(map[m.id], m) \in FileScan
  BY UpdateScanType DEF IsScanMap
<1> QED BY <1>1 DEF IsScanMap, UpdateMap

(* A scan that time did not finish has every result it waits for: when the *)
(* receivers R are as many as it expects and include those that began,     *)
(* they have all begun and ended (FileScan.complete).                      *)
LEMMA CompleteIsFinal ==
  ASSUME NEW s \in FileScan, NEW R \in SUBSET Scanners, IsFiniteSet(Scanners),
         Complete(s), s.age < MinScanTime,
         Begun(s) \subseteq R, s.expected = Cardinality(R)
  PROVE  \A w \in R : s.results[w].state = "done"
<1>1. IsFiniteSet(R) /\ IsFiniteSet(Begun(s))
  BY FS_Subset DEF Begun
<1>2. Cardinality(Begun(s)) >= s.expected /\ AllDone(s)
  <2>1. s.age \in Int /\ MinScanTime \in Int
    BY ScanModelAssumption DEF FileScan, Ages
  <2> QED BY <2>1 DEF Complete
<1>3. Cardinality(Begun(s)) <= Cardinality(R) /\ Cardinality(Begun(s)) \in Nat /\ Cardinality(R) \in Nat
  BY <1>1, FS_Subset, FS_CardinalityType
<1>4. Begun(s) = R
  BY <1>1, <1>2, <1>3, FS_Subset
<1>5. ASSUME NEW w \in R PROVE s.results[w].state = "done"
  BY <1>2, <1>4, <1>5 DEF Begun, AllDone, FileScan, FileResult
<1> QED BY <1>5

-----------------------------------------------------------------------------
(* The inductive invariant.                                                *)

\* A task that has not sent yet has sent nothing; one that is sending has
\* something left to send.
SentInv ==
  \A w \in Scanners, q \in Requests :
    /\ task[w][q] \in {"none", "queued", "begun", "scanning"} => sent[w][q] = 0
    /\ task[w][q] = "sending" => sent[w][q] <= Len(outcome[w][q].results)

CountInv ==
  \A q \in Requests :
    /\ phase[q] \in {"idle", "observed"} => Receivers(q) = {}
    /\ phase[q] \in {"requested", "submitted"} => counted[q] = Cardinality(Receivers(q))

MessageOK(m) ==
  /\ m.type = "submit" => phase[m.id] = "submitted" /\ m.count = counted[m.id]
  /\ m.type \in {"begin", "result", "end", "timeout"} => task[m.name][m.id] # "none"
  /\ m.type \in {"end", "timeout"} => task[m.name][m.id] = "finished"

InboxInv == \A i \in 1 .. Len(inbox) : MessageOK(inbox[i])

ScanOK(q, s) ==
  /\ s.file <=> s.expected >= 0
  /\ s.expected >= 0 => phase[q] = "submitted" /\ s.expected = counted[q]
  /\ \A w \in Scanners : /\ s.results[w].state # "absent" => task[w][q] # "none"
                         /\ s.results[w].state = "done" => task[w][q] = "finished"

ScansInv    == \A q \in DOMAIN scans : ScanOK(q, scans[q])
EmittingInv == \A q \in DOMAIN emitting :
                 ScanOK(q, emitting[q]) /\ (Complete(emitting[q]) \/ Expired(emitting[q]))
OutputInv   == \A q \in Requests : \A i \in 1 .. Len(output[q]) :
                 ScanOK(q, output[q][i]) /\ (Complete(output[q][i]) \/ Expired(output[q][i]))

TypeInv == TypeOK /\ SentInv
IInv == TypeInv /\ CountInv /\ InboxInv /\ ScansInv /\ EmittingInv /\ OutputInv

-----------------------------------------------------------------------------
(* What a task publishes after its scan: results, and then its end.        *)
LEMMA MessagesType ==
  ASSUME NEW o \in Outcome, NEW q \in Requests, NEW w \in Scanners
  PROVE  LET ms == Messages(o, q, w) IN
         /\ Len(ms) = Len(o.results) + 1
         /\ \A n \in 1 .. Len(ms) :
              /\ ms[n] \in Message
              /\ ms[n].id = q /\ ms[n].name = w
              /\ ms[n].type \in {"result", "end", "timeout"}
              /\ n # Len(ms) => ms[n].type = "result"
<1> DEFINE rs == [i \in 1 .. Len(o.results) |-> ResultMsg(q, w, o.results[i])]
           end == Note(o.last, q, w)
<1>1. o.results \in Seq(Findings) /\ Len(o.results) \in Nat
  BY DEF Outcome
<1>2. \A i \in 1 .. Len(o.results) : ResultMsg(q, w, o.results[i]) \in Message
  <2> SUFFICES ASSUME NEW i \in 1 .. Len(o.results) PROVE ResultMsg(q, w, o.results[i]) \in Message
    OBVIOUS
  <2>1. o.results[i] \in Findings
    BY <1>1
  <2> QED BY <2>1 DEF ResultMsg, Message
<1>3. rs \in Seq(Message) /\ Len(rs) = Len(o.results)
  BY <1>1, <1>2
<1>4. end \in Message /\ <<end>> \in Seq(Message) /\ Len(<<end>>) = 1
  BY DEF Note, Message, Outcome
<1>5. Messages(o, q, w) = rs \o <<end>>
  BY DEF Messages
<1>6. Len(rs \o <<end>>) = Len(o.results) + 1
  BY <1>3, <1>4, ConcatProperties
<1>7. ASSUME NEW n \in 1 .. Len(o.results) + 1
      PROVE  (rs \o <<end>>)[n] = IF n <= Len(o.results) THEN ResultMsg(q, w, o.results[n]) ELSE end
  <2>1. (rs \o <<end>>)[n] = IF n <= Len(rs) THEN rs[n] ELSE <<end>>[n - Len(rs)]
    BY <1>3, <1>4, ConcatProperties, n \in 1 .. Len(rs) + Len(<<end>>)
  <2>2. CASE n <= Len(o.results)
    BY <1>1, <1>3, <2>1, <2>2
  <2>3. CASE ~(n <= Len(o.results))
    <3>1. n - Len(rs) = 1
      BY <1>1, <1>3, <2>3
    <3> QED BY <1>3, <2>1, <2>3, <3>1
  <2> QED BY <2>2, <2>3
<1>8. ASSUME NEW n \in 1 .. Len(o.results) + 1, NEW m, m = (rs \o <<end>>)[n]
      PROVE  /\ m \in Message
             /\ m.id = q /\ m.name = w
             /\ m.type \in {"result", "end", "timeout"}
             /\ n # Len(o.results) + 1 => m.type = "result"
  <2>1. CASE n <= Len(o.results)
    BY <1>2, <1>7, <1>8, <2>1 DEF ResultMsg
  <2>2. CASE ~(n <= Len(o.results))
    <3>1. m = end /\ n = Len(o.results) + 1
      BY <1>1, <1>7, <1>8, <2>2
    <3> QED BY <1>4, <3>1 DEF Note, Outcome
  <2> QED BY <2>1, <2>2
<1> QED BY <1>5, <1>6, <1>8

(* A message of a kind, appended or not to the logger's inbox.             *)
LEMMA PublishType ==
  ASSUME inbox \in Seq(Message), NEW m \in Message, Publish(m)
  PROVE  inbox' \in Seq(Message)
  BY DEF Publish

LEMMA PublishInbox ==
  ASSUME inbox \in Seq(Message), NEW m \in Message, Publish(m)
  PROVE  \A i \in 1 .. Len(inbox') :
           inbox'[i] = m \/ \E j \in 1 .. Len(inbox) : inbox'[i] = inbox[j]
<1>1. CASE logger = "up"
  <2>1. inbox' = Append(inbox, m)
    BY <1>1 DEF Publish
  <2>2. \A i \in 1 .. Len(inbox') : i \in 1 .. Len(inbox) \/ i = Len(inbox) + 1
    BY <2>1
  <2>3. \A i \in 1 .. Len(inbox) : inbox'[i] = inbox[i]
    BY <2>1
  <2>4. inbox'[Len(inbox) + 1] = m
    BY <2>1
  <2> QED BY <2>2, <2>3, <2>4
<1>2. CASE logger # "up"
  BY <1>2 DEF Publish
<1> QED BY <1>1, <1>2

-----------------------------------------------------------------------------
(* A step of the task of w for q: no other task moves, and a task that     *)
(* moves has been started.                                                 *)
LEMMA TaskStep ==
  ASSUME TypeOK, NEW w \in Scanners, NEW q \in Requests, ScannerStep(w, q)
  PROVE  /\ UNCHANGED <<present, phase, counted, scanner, logger, scans, emitting, output, cleanup, stops>>
         /\ task[w][q] \in Live /\ task'[w][q] \in Live \cup {"finished", "lost"}
         /\ task' \in [Scanners -> [Requests -> Live \cup {"none", "finished", "lost"}]]
         /\ \A v \in Scanners, p \in Requests : v # w \/ p # q => task'[v][p] = task[v][p]
<1>1. UNCHANGED <<present, phase, counted, scanner, logger, scans, emitting, output, cleanup, stops>>
  BY DEF ScannerStep, Begin, OpenFile, FinishScan, Send, CancelTask, watcherVars, loggerVars
<1>2. PICK t \in Live \cup {"finished", "lost"} : task[w][q] \in Live /\ SetTask(w, q, t)
  BY DEF ScannerStep, Begin, OpenFile, FinishScan, Send, SendNext, CancelTask, Live
<1>3. task' = [task EXCEPT ![w] = [task[w] EXCEPT ![q] = t]]
  BY <1>2, Zenon DEF SetTask
<1> QED BY <1>1, <1>2, <1>3 DEF TypeOK

(* A scanner that is stopped or killed loses live tasks and no others.     *)
LEMMA StopStep ==
  ASSUME TypeOK, NEW w \in Scanners, StopScanner(w) \/ KillScanner(w)
  PROVE  /\ UNCHANGED <<present, phase, counted, outcome, sent, inbox, logger, scans, emitting, output, cleanup>>
         /\ task' \in [Scanners -> [Requests -> Live \cup {"none", "finished", "lost"}]]
         /\ \A v \in Scanners, p \in Requests :
              \/ task'[v][p] = task[v][p]
              \/ task[v][p] \in Live /\ task'[v][p] = "lost"
<1>1. PICK S \in SUBSET Live :
        task' = [task EXCEPT ![w] = [q \in Requests |-> IF task[w][q] \in S THEN "lost" ELSE task[w][q]]]
  <2>1. CASE StopScanner(w)
    <3>1. task' = [task EXCEPT ![w] = [q \in Requests |-> IF task[w][q] \in {"queued"} THEN "lost" ELSE task[w][q]]]
      BY <2>1 DEF StopScanner
    <3> QED BY <3>1 DEF Live
  <2>2. CASE KillScanner(w)
    BY <2>2 DEF KillScanner
  <2> QED BY <2>1, <2>2
<1>2. UNCHANGED <<present, phase, counted, outcome, sent, inbox, logger, scans, emitting, output, cleanup>>
  BY DEF StopScanner, KillScanner, watcherVars, loggerVars
<1> QED BY <1>1, <1>2 DEF TypeOK

-----------------------------------------------------------------------------
(* What no step undoes: a submitted request stays submitted with its count, *)
(* a scanner that received a request has received it for good, and a task   *)
(* that finished stays finished.                                            *)
Stable ==
  /\ \A q \in Requests : phase[q] = "submitted" => phase'[q] = "submitted" /\ counted'[q] = counted[q]
  /\ \A w \in Scanners, q \in Requests :
       /\ task[w][q] # "none" => task'[w][q] # "none"
       /\ task[w][q] = "finished" => task'[w][q] = "finished"

LEMMA StableStep ==
  ASSUME TypeOK, CountInv, [Next]_vars
  PROVE  Stable
<1> USE DEF Stable, Live
<1>1. CASE UNCHANGED <<phase, counted, task>>
  BY <1>1
<1>2. ASSUME NEW q \in Requests, Observe(q) \/ PublishSubmit(q) PROVE Stable
  BY <1>2 DEF TypeOK, Observe, PublishSubmit, scannerVars
<1>3. ASSUME NEW q \in Requests, PublishRequest(q) PROVE Stable
  <2>1. phase[q] = "observed" /\ \A w \in Scanners : task[w][q] = "none"
    BY <1>3 DEF PublishRequest, CountInv, Receivers
  <2>2. \A p \in Requests : phase[p] = "submitted" =>
          phase'[p] = "submitted" /\ counted'[p] = counted[p]
    BY <1>3, <2>1 DEF TypeOK, PublishRequest
  <2>3. \A w \in Scanners, p \in Requests : p # q => task'[w][p] = task[w][p]
    BY <1>3 DEF TypeOK, PublishRequest
  <2> QED BY <2>1, <2>2, <2>3
<1>4. CASE CrashWatcher
  BY <1>4 DEF TypeOK, CrashWatcher, scannerVars, Handling
<1>5. ASSUME NEW w \in Scanners, NEW q \in Requests, ScannerStep(w, q) PROVE Stable
  BY <1>5, TaskStep
<1>6. ASSUME NEW w \in Scanners, StopScanner(w) \/ KillScanner(w) PROVE Stable
  BY <1>6, StopStep
<1>7. ASSUME NEW w \in Scanners, ExitScanner(w) \/ StartScanner(w)
      PROVE UNCHANGED <<phase, counted, task>>
  BY <1>7 DEF ExitScanner, StartScanner, watcherVars
<1>8. CASE LoggerStep
  BY <1>1, <1>8 DEF LoggerStep, Handle, Emit, StartLogger, watcherVars, scannerVars
<1>9. ASSUME NEW q \in Requests, StartDelete(q) \/ Unlink(q)
      PROVE UNCHANGED <<phase, counted, task>>
  BY <1>9 DEF StartDelete, Unlink, watcherVars, scannerVars
<1>10. CASE KillLogger
  BY <1>1, <1>10 DEF KillLogger, watcherVars, scannerVars
<1>11. CASE Idle \/ UNCHANGED vars
  BY <1>1, <1>11 DEF Idle, vars, watcherVars, scannerVars
<1> QED BY <1>1, <1>2, <1>3, <1>4, <1>5, <1>6, <1>7, <1>8, <1>9, <1>10, <1>11 DEF Next, Stop

-----------------------------------------------------------------------------
(* The receivers counted are the scanners that got the request.            *)
LEMMA CountStep ==
  ASSUME TypeOK, CountInv, [Next]_vars
  PROVE  CountInv'
<1>1. ASSUME UNCHANGED <<phase, counted>>, \A w \in Scanners, q \in Requests : task'[w][q] = "none" <=> task[w][q] = "none"
      PROVE CountInv'
  <2>1. \A q \in Requests : Receivers(q)' = Receivers(q)
    BY <1>1 DEF Receivers
  <2> QED BY <1>1, <2>1 DEF CountInv
<1>2. ASSUME NEW q \in Requests, Observe(q) \/ PublishSubmit(q) PROVE CountInv'
  <2>1. \A p \in Requests : Receivers(p)' = Receivers(p)
    BY <1>2 DEF Observe, PublishSubmit, scannerVars, Receivers
  <2> QED BY <1>2, <2>1 DEF TypeOK, Observe, PublishSubmit, CountInv
<1>3. ASSUME NEW q \in Requests, PublishRequest(q) PROVE CountInv'
  <2>1. \A w \in Scanners : task[w][q] = "none"
    BY <1>3 DEF PublishRequest, CountInv, Receivers
  <2>2. \A w \in Scanners : task'[w][q] # "none" <=> scanner[w] # "down"
    BY <1>3, <2>1 DEF TypeOK, PublishRequest
  <2>3. Receivers(q)' = Subscribed
    BY <2>2 DEF Receivers, Subscribed
  <2>4. counted'[q] = Cardinality(Receivers(q)')
    BY <1>3, <2>3 DEF TypeOK, PublishRequest
  <2>5. \A p \in Requests : p # q => Receivers(p)' = Receivers(p)
    BY <1>3 DEF TypeOK, PublishRequest, Receivers
  <2>6. \A p \in Requests : p # q => phase'[p] = phase[p] /\ counted'[p] = counted[p]
    BY <1>3 DEF TypeOK, PublishRequest
  <2>7. phase'[q] = "requested"
    BY <1>3 DEF TypeOK, PublishRequest
  <2> QED BY <2>4, <2>5, <2>6, <2>7 DEF CountInv
<1>4. CASE CrashWatcher
  <2>1. \A q \in Requests : Receivers(q)' = Receivers(q) /\ counted'[q] = counted[q]
    BY <1>4 DEF CrashWatcher, scannerVars, Receivers
  <2>2. \A q \in Requests : phase'[q] = phase[q] \/ phase'[q] = "dropped"
    BY <1>4 DEF TypeOK, CrashWatcher, Handling
  <2> QED BY <2>1, <2>2 DEF CountInv
<1>5. ASSUME NEW w \in Scanners, NEW q \in Requests, ScannerStep(w, q) PROVE CountInv'
  BY <1>1, <1>5, TaskStep DEF Live
<1>6. ASSUME NEW w \in Scanners, StopScanner(w) \/ KillScanner(w) PROVE CountInv'
  BY <1>1, <1>6, StopStep DEF Live
<1>7. ASSUME NEW w \in Scanners, ExitScanner(w) \/ StartScanner(w) PROVE CountInv'
  BY <1>1, <1>7 DEF ExitScanner, StartScanner, watcherVars
<1>8. CASE LoggerStep
  BY <1>1, <1>8 DEF LoggerStep, Handle, Emit, StartLogger, watcherVars, scannerVars
<1>9. ASSUME NEW q \in Requests, StartDelete(q) \/ Unlink(q) PROVE CountInv'
  BY <1>1, <1>9 DEF StartDelete, Unlink, watcherVars, scannerVars
<1>10. CASE KillLogger
  BY <1>1, <1>10 DEF KillLogger, watcherVars, scannerVars
<1>11. CASE Idle \/ UNCHANGED vars
  BY <1>1, <1>11 DEF Idle, vars, watcherVars, scannerVars
<1> QED BY <1>2, <1>3, <1>4, <1>5, <1>6, <1>7, <1>8, <1>9, <1>10, <1>11 DEF Next, Stop

-----------------------------------------------------------------------------
(* The messages under way.                                                 *)

\* What a step does to the logger's inbox.
InboxMoves ==
  \/ \E m \in Message : Publish(m) /\ MessageOK(m)'
  \/ inbox' = inbox
  \/ inbox' = <<>>
  \/ (inbox # <<>> /\ inbox' = Tail(inbox))

(* A task's next message is true of the task once it is published.         *)
LEMMA SendStep ==
  ASSUME TypeOK, SentInv, NEW w \in Scanners, NEW q \in Requests,
         NEW t \in {"sending", "lost"}, SendNext(w, q, t)
  PROVE  /\ \E m \in Message : Publish(m) /\ MessageOK(m)'
         /\ sent' \in [Scanners -> [Requests -> Nat]]
         /\ \A v \in Scanners, p \in Requests : v # w \/ p # q => sent'[v][p] = sent[v][p]
         /\ task'[w][q] = "sending" => sent'[w][q] <= Len(outcome[w][q].results)
<1> DEFINE ms == Messages(outcome[w][q], q, w)
           n == sent[w][q] + 1
<1>1. /\ outcome[w][q] \in Outcome /\ sent[w][q] \in Nat /\ task[w][q] = "sending"
      /\ sent[w][q] <= Len(outcome[w][q].results) /\ Len(outcome[w][q].results) \in Nat
  BY DEF TypeOK, SentInv, SendNext, Outcome
<1>2. Len(ms) = Len(outcome[w][q].results) + 1 /\ n \in 1 .. Len(ms)
  BY <1>1, MessagesType
<1>3. PICK m \in Message :
        /\ m = ms[n] /\ m.id = q /\ m.name = w
        /\ m.type \in {"result", "end", "timeout"}
        /\ n # Len(ms) => m.type = "result"
  <2>1. \A k \in 1 .. Len(ms) :
          /\ ms[k] \in Message /\ ms[k].id = q /\ ms[k].name = w
          /\ ms[k].type \in {"result", "end", "timeout"}
          /\ k # Len(ms) => ms[k].type = "result"
    BY <1>1, MessagesType
  <2> HIDE DEF ms, n
  <2> QED BY <1>2, <2>1
<1>4. /\ Publish(ms[n])
      /\ sent' = [sent EXCEPT ![w][q] = n]
      /\ SetTask(w, q, IF n = Len(ms) THEN "finished" ELSE t)
  BY Zenon DEF SendNext
<1>5. task'[w][q] = IF n = Len(ms) THEN "finished" ELSE t
  BY <1>4 DEF SetTask, TypeOK
<1>6. Publish(m) /\ MessageOK(m)'
  <2> HIDE DEF ms, n
  <2> QED BY <1>3, <1>4, <1>5 DEF MessageOK
<1>7. /\ sent' \in [Scanners -> [Requests -> Nat]]
      /\ \A v \in Scanners, p \in Requests : v # w \/ p # q => sent'[v][p] = sent[v][p]
      /\ sent'[w][q] = n
  <2>1. n \in Nat
    BY <1>1
  <2> HIDE DEF n
  <2> QED BY <1>4, <2>1 DEF TypeOK
<1>8. task'[w][q] = "sending" => sent'[w][q] <= Len(outcome[w][q].results)
  <2> HIDE DEF ms, n
  <2>1. n # Len(ms) => n <= Len(outcome[w][q].results)
    BY <1>1, <1>2
  <2> QED BY <1>5, <1>7, <2>1
<1> QED BY <1>6, <1>7, <1>8

LEMMA TaskInbox ==
  ASSUME TypeOK, SentInv, NEW w \in Scanners, NEW q \in Requests, ScannerStep(w, q)
  PROVE  InboxMoves
<1>1. CASE Begin(w, q)
  <2>1. Note("begin", q, w) \in Message
    BY DEF Note, Message
  <2>2. task'[w][q] = "begun"
    BY <1>1 DEF Begin, SetTask, TypeOK
  <2>3. MessageOK(Note("begin", q, w))'
    BY <2>2 DEF MessageOK, Note
  <2> QED BY <1>1, <2>1, <2>3 DEF Begin, InboxMoves
<1>2. CASE OpenFile(w, q) \/ FinishScan(w, q)
  BY <1>2 DEF OpenFile, FinishScan, InboxMoves
<1>3. ASSUME NEW t \in {"sending", "lost"}, SendNext(w, q, t) PROVE InboxMoves
  BY <1>3, SendStep DEF InboxMoves
<1>4. ASSUME NEW f \in FirstFindings(w, q), Publish(ResultMsg(q, w, f)), SetTask(w, q, "lost")
      PROVE  InboxMoves
  <2>1. f \in Findings
    BY FileScanAssumption DEF FirstFindings, Outcome, Findings
  <2>2. ResultMsg(q, w, f) \in Message
    BY <2>1 DEF ResultMsg, Message
  <2>3. task'[w][q] = "lost"
    BY <1>4 DEF SetTask, TypeOK
  <2>4. MessageOK(ResultMsg(q, w, f))'
    BY <2>3 DEF MessageOK, ResultMsg
  <2> QED BY <1>4, <2>2, <2>4 DEF InboxMoves
<1>5. CASE Send(w, q)
  BY <1>3, <1>5 DEF Send
<1>6. CASE CancelTask(w, q)
  BY <1>3, <1>4, <1>6 DEF CancelTask, InboxMoves
<1> QED BY <1>1, <1>2, <1>5, <1>6 DEF ScannerStep

LEMMA InboxStep ==
  ASSUME TypeOK, SentInv, CountInv, [Next]_vars
  PROVE  InboxMoves
<1>1. ASSUME NEW q \in Requests, PublishSubmit(q) PROVE InboxMoves
  <2>1. SubmitMsg(q, counted[q]) \in Message
    BY DEF SubmitMsg, Message, TypeOK
  <2>2. phase'[q] = "submitted" /\ counted'[q] = counted[q]
    BY <1>1 DEF PublishSubmit, TypeOK
  <2>3. MessageOK(SubmitMsg(q, counted[q]))'
    BY <2>2 DEF MessageOK, SubmitMsg
  <2> QED BY <1>1, <2>1, <2>3 DEF PublishSubmit, InboxMoves
<1>2. ASSUME NEW q \in Requests, Observe(q) \/ PublishRequest(q) \/ StartDelete(q) \/ Unlink(q)
      PROVE  InboxMoves
  BY <1>2 DEF Observe, PublishRequest, StartDelete, Unlink, InboxMoves
<1>3. ASSUME NEW w \in Scanners, NEW q \in Requests, ScannerStep(w, q) PROVE InboxMoves
  BY <1>3, TaskInbox
<1>4. ASSUME NEW w \in Scanners, ExitScanner(w) \/ StartScanner(w) \/ StopScanner(w) \/ KillScanner(w)
      PROVE  InboxMoves
  BY <1>4 DEF ExitScanner, StartScanner, StopScanner, KillScanner, InboxMoves
<1>5. CASE CrashWatcher \/ StartLogger \/ KillLogger
  BY <1>5 DEF CrashWatcher, StartLogger, KillLogger, InboxMoves
<1>6. CASE Handle
  BY <1>6 DEF Handle, InboxMoves
<1>7. ASSUME NEW q \in Requests, Emit(q) PROVE InboxMoves
  <2>1. CompleteMsg(q) \in Message
    BY DEF CompleteMsg, Message
  <2>2. MessageOK(CompleteMsg(q))'
    BY DEF MessageOK, CompleteMsg
  <2> QED BY <1>7, <2>1, <2>2 DEF Emit, InboxMoves
<1>8. CASE Idle \/ UNCHANGED vars
  BY <1>8 DEF Idle, vars, InboxMoves
<1> QED BY <1>1, <1>2, <1>3, <1>4, <1>5, <1>6, <1>7, <1>8 DEF Next, Stop, LoggerStep

-----------------------------------------------------------------------------
(* The logger's maps.                                                      *)

\* What the logger knew of q before the message it handles.
Prior(q, p) ==
  \E a \in Ages :
    \/ p = ForEvent(a)
    \/ q \in DOMAIN scans /\ p = [scans[q] EXCEPT !.age = a]

Known(q, s) ==
  \E p \in FileScan :
    /\ Prior(q, p)
    /\ \/ s = p
       \/ (Head(inbox).id = q /\ s = UpdateScan(p, Head(inbox)))

(* After a message, both maps hold what was known and what the message     *)
(* adds to it, and only what is over is about to be written.               *)
LEMMA HandleStep ==
  ASSUME TypeOK, Handle
  PROVE  /\ IsScanMap(scans') /\ IsScanMap(emitting')
         /\ \A q \in DOMAIN scans' : (q \in DOMAIN scans /\ scans'[q] = scans[q]) \/ Known(q, scans'[q])
         /\ \A q \in DOMAIN emitting' :
              Known(q, emitting'[q]) /\ (Complete(emitting'[q]) \/ Expired(emitting'[q]))
<1> DEFINE m == Head(inbox)
<1>1. m \in Message
  BY DEF Handle, TypeOK
<1>2. CASE Ignored(m)
  BY <1>2, EmptyMapType DEF Handle, TypeOK
<1>3. CASE ~Ignored(m)
  <2>1. PICK ages \in [Requests -> Ages] :
          LET aged == Aged(scans, m, ages)
              map  == UpdateMap(aged, m)
          IN  IF Accepts(aged[m.id], m)
              THEN scans' = Working(map) /\ emitting' = Part(map, Finished(map))
              ELSE scans' = aged /\ UNCHANGED emitting
    BY <1>3, Zenon DEF Handle
  <2> DEFINE aged == Aged(scans, m, ages)
             map  == UpdateMap(aged, m)
  <2> HIDE DEF m
  <2>2. /\ IsScanMap(scans)
        /\ m.id \in Requests
    BY <1>1, MessageFields DEF TypeOK
  <2>3. /\ IsScanMap(aged) /\ DOMAIN aged = DOMAIN scans \cup {m.id}
        /\ \A q \in DOMAIN aged : aged[q] \in FileScan /\ Prior(q, aged[q])
    <3> HIDE DEF map
    <3>1. \A q \in DOMAIN scans : aged[q] = [scans[q] EXCEPT !.age = ages[q]]
      BY DEF Aged
    <3>2. m.id \notin DOMAIN scans => aged[m.id] = ForEvent(ages[m.id])
      BY DEF Aged
    <3>3. IsScanMap(aged) /\ DOMAIN aged = DOMAIN scans \cup {m.id}
      BY <1>1, <2>2, AgedType
    <3>4. DOMAIN scans \subseteq Requests
      BY <2>2 DEF IsScanMap
    <3> HIDE DEF aged
    <3>5. ASSUME NEW q \in DOMAIN scans PROVE Prior(q, aged[q])
      <4>1. ages[q] \in Ages
        BY <3>4
      <4> QED BY <3>1, <4>1, Zenon DEF Prior
    <3>6. m.id \notin DOMAIN scans => Prior(m.id, aged[m.id])
      <4>1. ages[m.id] \in Ages
        BY <2>2
      <4> QED BY <3>2, <4>1, Zenon DEF Prior
    <3>7. \A q \in DOMAIN aged : aged[q] \in FileScan
      BY <3>3 DEF IsScanMap
    <3> QED BY <3>3, <3>5, <3>6, <3>7
  <2>4. CASE ~Accepts(aged[m.id], m)
    <3>1. scans' = aged /\ UNCHANGED emitting
      BY <2>1, <2>4
    <3>2. \A q \in DOMAIN aged : Known(q, aged[q])
      <4> HIDE DEF aged
      <4> QED BY <2>3 DEF Known
    <3>3. emitting = EmptyMap
      BY DEF Handle
    <3> HIDE DEF aged
    <3> QED BY <2>3, <3>1, <3>2, <3>3, EmptyMapType
  <2>5. CASE Accepts(aged[m.id], m)
    <3>1. scans' = Working(map) /\ emitting' = Part(map, Finished(map))
      BY <2>1, <2>5
    <3>2. /\ IsScanMap(map) /\ DOMAIN map = DOMAIN aged
          /\ \A q \in DOMAIN aged : map[q] = IF q = m.id THEN UpdateScan(aged[q], m) ELSE aged[q]
      <4> HIDE DEF aged
      <4> QED BY <1>1, <2>3, UpdateMapType
    <3>3. \A q \in DOMAIN map : Known(q, map[q])
      <4> HIDE DEF aged, map
      <4> QED BY <2>3, <3>2 DEF Known, m
    <3> HIDE DEF map
    <3>4. Finished(map) \subseteq DOMAIN map
      BY DEF Finished
    <3>5. /\ IsScanMap(scans') /\ DOMAIN scans' \subseteq DOMAIN map
          /\ \A q \in DOMAIN scans' : scans'[q] = map[q]
      BY <3>1, <3>2, PartType DEF Working
    <3>6. /\ IsScanMap(emitting') /\ DOMAIN emitting' = Finished(map)
          /\ \A q \in Finished(map) : emitting'[q] = map[q]
      BY <3>1, <3>2, <3>4, PartType
    <3>7. \A q \in Finished(map) : Complete(map[q]) \/ Expired(map[q])
      BY DEF Finished
    <3> QED BY <3>3, <3>4, <3>5, <3>6, <3>7
  <2> QED BY <2>4, <2>5
<1> QED BY <1>2, <1>3

(* Writing a record moves it from the map to the output.                   *)
LEMMA EmitStep ==
  ASSUME TypeOK, NEW q \in Requests, Emit(q)
  PROVE  /\ IsScanMap(emitting') /\ DOMAIN emitting' \subseteq DOMAIN emitting
         /\ \A p \in DOMAIN emitting' : emitting'[p] = emitting[p]
         /\ output' \in [Requests -> Seq(FileScan)]
         /\ q \in DOMAIN emitting
         /\ \A p \in Requests : \A i \in 1 .. Len(output'[p]) :
              \/ i \in 1 .. Len(output[p]) /\ output'[p][i] = output[p][i]
              \/ p = q /\ output'[p][i] = emitting[q]
<1>1. /\ q \in DOMAIN emitting /\ IsScanMap(emitting) /\ emitting[q] \in FileScan
      /\ output \in [Requests -> Seq(FileScan)]
  BY DEF Emit, TypeOK, IsScanMap
<1>2. output' = [output EXCEPT ![q] = Append(output[q], emitting[q])]
  BY DEF Emit
<1>3. emitting' = Part(emitting, DOMAIN emitting \ {q})
  BY DEF Emit
<1>4. \A p \in Requests : p # q => output'[p] = output[p]
  BY <1>1, <1>2
<1>5. output'[q] = Append(output[q], emitting[q]) /\ output'[q] \in Seq(FileScan)
  BY <1>1, <1>2
<1>6. \A i \in 1 .. Len(output'[q]) :
        \/ i \in 1 .. Len(output[q]) /\ output'[q][i] = output[q][i]
        \/ output'[q][i] = emitting[q]
  BY <1>1, <1>5, AppendProperties
<1>7. output' \in [Requests -> Seq(FileScan)]
  BY <1>1, <1>2, <1>5
<1>8. /\ IsScanMap(emitting') /\ DOMAIN emitting' \subseteq DOMAIN emitting
      /\ \A p \in DOMAIN emitting' : emitting'[p] = emitting[p]
  BY <1>1, <1>3, PartType
<1>9. \A p \in Requests : \A i \in 1 .. Len(output'[p]) :
        \/ i \in 1 .. Len(output[p]) /\ output'[p][i] = output[p][i]
        \/ p = q /\ output'[p][i] = emitting[q]
  BY <1>4, <1>6
<1> QED BY <1>1, <1>7, <1>8, <1>9

-----------------------------------------------------------------------------
(* Type correctness.                                                       *)
LEMMA InboxType ==
  ASSUME inbox \in Seq(Message), InboxMoves
  PROVE  inbox' \in Seq(Message)
<1>1. CASE inbox # <<>> /\ inbox' = Tail(inbox)
  BY <1>1
<1>2. CASE \E m \in Message : Publish(m)
  BY <1>2, PublishType
<1>3. CASE inbox' = <<>>
  BY <1>3
<1> QED BY <1>1, <1>2, <1>3 DEF InboxMoves

LEMMA TypeStep ==
  ASSUME TypeOK, SentInv, CountInv, [Next]_vars
  PROVE  TypeOK'
<1>1. inbox' \in Seq(Message)
  BY InboxStep, InboxType DEF TypeOK
<1>2. ASSUME NEW q \in Requests, Observe(q) \/ PublishSubmit(q) PROVE TypeOK'
  BY <1>1, <1>2 DEF TypeOK, Observe, PublishSubmit, scannerVars, loggerVars, Handling
<1>3. ASSUME NEW q \in Requests, PublishRequest(q) PROVE TypeOK'
  <2>1. Cardinality(Subscribed) \in Nat
    BY ScanModelAssumption, FS_Subset, FS_CardinalityType DEF Subscribed
  <2>2. counted' \in [Requests -> Nat]
    BY <1>3, <2>1 DEF TypeOK, PublishRequest
  <2>3. task' \in [Scanners -> [Requests -> Live \cup {"none", "finished", "lost"}]]
    BY <1>3 DEF TypeOK, PublishRequest, Live
  <2>4. phase' \in [Requests -> Handling \cup {"idle", "submitted", "dropped"}]
    BY <1>3 DEF TypeOK, PublishRequest, Handling
  <2> QED BY <1>1, <1>3, <2>2, <2>3, <2>4 DEF TypeOK, PublishRequest, loggerVars
<1>4. CASE CrashWatcher
  BY <1>1, <1>4 DEF TypeOK, CrashWatcher, scannerVars, loggerVars, Handling
<1>5. ASSUME NEW w \in Scanners, NEW q \in Requests, ScannerStep(w, q) PROVE TypeOK'
  <2>1. outcome' \in [Scanners -> [Requests -> Outcome]]
    <3>1. CASE OpenFile(w, q)
      <4>1. ScanFailed \in Outcome
        BY DEF ScanFailed, Outcome, Findings
      <4>2. \/ UNCHANGED outcome
            \/ outcome' = [outcome EXCEPT ![w] = [outcome[w] EXCEPT ![q] = ScanFailed]]
        BY <3>1, Zenon DEF OpenFile
      <4>3. outcome \in [Scanners -> [Requests -> Outcome]] /\ outcome[w] \in [Requests -> Outcome]
        BY DEF TypeOK
      <4>4. [outcome[w] EXCEPT ![q] = ScanFailed] \in [Requests -> Outcome]
        BY <4>1, <4>3
      <4> QED BY <4>2, <4>3, <4>4
    <3>2. CASE FinishScan(w, q)
      BY <3>2, FileScanAssumption DEF FinishScan, TypeOK
    <3>3. CASE UNCHANGED outcome
      BY <3>3 DEF TypeOK
    <3> QED BY <1>5, <3>1, <3>2, <3>3 DEF ScannerStep, Begin, Send, CancelTask
  <2>2. sent' \in [Scanners -> [Requests -> Nat]]
    <3>1. ASSUME NEW t \in {"sending", "lost"}, SendNext(w, q, t) PROVE sent' \in [Scanners -> [Requests -> Nat]]
      BY <3>1, SendStep
    <3>2. CASE UNCHANGED sent
      BY <3>2 DEF TypeOK
    <3> QED BY <1>5, <3>1, <3>2 DEF ScannerStep, Begin, OpenFile, FinishScan, Send, CancelTask
  <2> QED BY <1>1, <1>5, <2>1, <2>2, TaskStep DEF TypeOK
<1>6. ASSUME NEW w \in Scanners, StopScanner(w) \/ KillScanner(w) PROVE TypeOK'
  <2>1. scanner' \in [Scanners -> {"up", "stopping", "down"}] /\ stops' \in Nat
    <3>1. \E x \in {"stopping", "down"} : scanner' = [scanner EXCEPT ![w] = x]
      BY <1>6 DEF StopScanner, KillScanner
    <3>2. stops' = stops + 1
      BY <1>6 DEF StopScanner, KillScanner
    <3> QED BY <3>1, <3>2 DEF TypeOK
  <2> QED BY <1>1, <1>6, <2>1, StopStep DEF TypeOK
<1>7. ASSUME NEW w \in Scanners, ExitScanner(w) \/ StartScanner(w) PROVE TypeOK'
  BY <1>1, <1>7 DEF TypeOK, ExitScanner, StartScanner, watcherVars, loggerVars
<1>8. CASE Handle
  <2>1. IsScanMap(scans') /\ IsScanMap(emitting')
    BY <1>8, HandleStep
  <2> QED BY <1>1, <1>8, <2>1 DEF TypeOK, Handle, watcherVars, scannerVars
<1>9. ASSUME NEW q \in Requests, Emit(q) PROVE TypeOK'
  <2>1. cleanup' \in [Requests -> Cleaning \cup {"none", "kept", "deleted", "killed"}]
    BY <1>9 DEF Emit, TypeOK, Cleaning
  <2>2. IsScanMap(emitting') /\ output' \in [Requests -> Seq(FileScan)]
    BY <1>9, EmitStep
  <2> QED BY <1>1, <1>9, <2>1, <2>2 DEF TypeOK, Emit, watcherVars, scannerVars
<1>10. CASE StartLogger
  BY <1>1, <1>10 DEF TypeOK, StartLogger, watcherVars, scannerVars
<1>11. ASSUME NEW q \in Requests, StartDelete(q) \/ Unlink(q) PROVE TypeOK'
  BY <1>1, <1>11 DEF TypeOK, StartDelete, Unlink, watcherVars, scannerVars, loggerVars, Cleaning
<1>12. CASE KillLogger
  <2>1. cleanup' \in [Requests -> Cleaning \cup {"none", "kept", "deleted", "killed"}]
    BY <1>12 DEF KillLogger, TypeOK
  <2> QED BY <1>1, <1>12, <2>1, EmptyMapType DEF TypeOK, KillLogger, watcherVars, scannerVars
<1>13. CASE Idle \/ UNCHANGED vars
  BY <1>13 DEF TypeOK, Idle, vars, watcherVars, scannerVars, loggerVars
<1> QED BY <1>2, <1>3, <1>4, <1>5, <1>6, <1>7, <1>8, <1>9, <1>10, <1>11, <1>12, <1>13
        DEF Next, Stop, LoggerStep

(* Tasks that have not begun to send have sent nothing.                    *)
LEMMA SentStep ==
  ASSUME TypeOK, SentInv, CountInv, [Next]_vars
  PROVE  SentInv'
<1>1. CASE UNCHANGED <<task, outcome, sent>>
  BY <1>1 DEF SentInv
<1>2. ASSUME NEW q \in Requests, PublishRequest(q) PROVE SentInv'
  <2>1. \A w \in Scanners : task[w][q] = "none"
    BY <1>2 DEF PublishRequest, CountInv, Receivers, TypeOK
  <2>2. \A w \in Scanners, p \in Requests :
          task'[w][p] = task[w][p] \/ (p = q /\ task'[w][p] \in {"queued", "lost"})
    BY <1>2 DEF PublishRequest, TypeOK
  <2>3. UNCHANGED <<outcome, sent>>
    BY <1>2 DEF PublishRequest
  <2> QED BY <2>1, <2>2, <2>3 DEF SentInv
<1>3. ASSUME NEW w \in Scanners, NEW q \in Requests, ScannerStep(w, q) PROVE SentInv'
  <2>1. \A v \in Scanners, p \in Requests : v # w \/ p # q => task'[v][p] = task[v][p]
    BY <1>3, TaskStep
  <2>2. ASSUME UNCHANGED sent, task'[w][q] \in Live \cup {"lost"}, task[w][q] # "sending",
               \A v \in Scanners, p \in Requests : v # w \/ p # q => outcome'[v][p] = outcome[v][p],
               outcome'[w][q] \in Outcome
        PROVE  SentInv'
    <3>1. task[w][q] \in {"none", "queued", "begun", "scanning"} => sent[w][q] = 0
      BY DEF SentInv
    <3>2. task[w][q] \in {"queued", "begun", "scanning"}
      BY <1>3, <2>2, TaskStep DEF Live
    <3>3. Len(outcome'[w][q].results) >= 0
      BY <2>2 DEF Outcome
    <3> QED BY <2>1, <2>2, <3>1, <3>2, <3>3 DEF SentInv, Live
  <2>3. CASE Begin(w, q) \/ OpenFile(w, q) \/ FinishScan(w, q)
    <3>1. \A v \in Scanners, p \in Requests : v # w \/ p # q => outcome'[v][p] = outcome[v][p]
      BY <2>3 DEF Begin, OpenFile, FinishScan, TypeOK
    <3>2. task'[w][q] \in Live
      BY <2>3 DEF Begin, OpenFile, FinishScan, SetTask, TypeOK, Live
    <3>3. outcome'[w][q] \in Outcome
      BY TypeStep DEF TypeOK
    <3>4. UNCHANGED sent /\ task[w][q] # "sending"
      BY <2>3 DEF Begin, OpenFile, FinishScan
    <3> QED BY <2>2, <3>1, <3>2, <3>3, <3>4
  <2>4. ASSUME NEW t \in {"sending", "lost"}, SendNext(w, q, t), UNCHANGED outcome PROVE SentInv'
    <3>1. task'[w][q] \in {"finished", "sending", "lost"}
      BY <2>4 DEF SendNext, SetTask, TypeOK
    <3>2. task'[w][q] = "sending" => sent'[w][q] <= Len(outcome[w][q].results)
      BY <2>4, SendStep
    <3>3. \A v \in Scanners, p \in Requests : v # w \/ p # q => sent'[v][p] = sent[v][p]
      BY <2>4, SendStep
    <3> QED BY <2>1, <2>4, <3>1, <3>2, <3>3 DEF SentInv
  <2>5. CASE CancelTask(w, q) /\ UNCHANGED sent
    <3>1. task'[w][q] \in {"finished", "lost"}
      BY <2>5 DEF CancelTask, SendNext, SetTask, TypeOK
    <3>2. UNCHANGED outcome
      BY <2>5 DEF CancelTask
    <3> QED BY <2>1, <2>5, <3>1, <3>2 DEF SentInv
  <2>6. CASE Send(w, q)
    BY <2>4, <2>6 DEF Send
  <2>7. CASE CancelTask(w, q)
    BY <2>4, <2>5, <2>7 DEF CancelTask
  <2> QED BY <1>3, <2>3, <2>6, <2>7 DEF ScannerStep
<1>4. ASSUME NEW w \in Scanners, StopScanner(w) \/ KillScanner(w) PROVE SentInv'
  BY <1>4, StopStep DEF SentInv, Live
<1>5. ASSUME NEW w \in Scanners, ExitScanner(w) \/ StartScanner(w) PROVE SentInv'
  BY <1>1, <1>5 DEF ExitScanner, StartScanner
<1>6. ASSUME NEW q \in Requests, Observe(q) \/ PublishSubmit(q) \/ StartDelete(q) \/ Unlink(q)
      PROVE  SentInv'
  BY <1>1, <1>6 DEF Observe, PublishSubmit, StartDelete, Unlink, scannerVars
<1>7. CASE CrashWatcher \/ KillLogger
  BY <1>1, <1>7 DEF CrashWatcher, KillLogger, scannerVars
<1>8. CASE LoggerStep
  BY <1>1, <1>8 DEF LoggerStep, Handle, Emit, StartLogger, scannerVars
<1>9. CASE Idle \/ UNCHANGED vars
  BY <1>1, <1>9 DEF Idle, vars, scannerVars
<1> QED BY <1>2, <1>3, <1>4, <1>5, <1>6, <1>7, <1>8, <1>9 DEF Next, Stop

-----------------------------------------------------------------------------
(* Messages and the logger's entries stay true of their senders.           *)
LEMMA MessageOKStable ==
  ASSUME Stable, NEW m \in Message, MessageOK(m)
  PROVE  MessageOK(m)'
BY MessageFields DEF Stable, MessageOK

LEMMA InboxInvStep ==
  ASSUME TypeOK, InboxInv, Stable, InboxMoves
  PROVE  InboxInv'
<1>1. \A j \in 1 .. Len(inbox) : inbox[j] \in Message /\ MessageOK(inbox[j])
  BY DEF TypeOK, InboxInv
<1>2. \A m \in Message : MessageOK(m) => MessageOK(m)'
  BY MessageOKStable
<1>3. ASSUME NEW n \in Message, MessageOK(n)',
             \A i \in 1 .. Len(inbox') : inbox'[i] = n \/ \E j \in 1 .. Len(inbox) : inbox'[i] = inbox[j]
      PROVE  InboxInv'
  <2> SUFFICES ASSUME NEW i \in 1 .. Len(inbox') PROVE MessageOK(inbox[i])'
    BY DEF InboxInv
  <2>1. PICK m \in Message : inbox'[i] = m /\ MessageOK(m)'
    BY <1>1, <1>2, <1>3
  <2> QED BY <2>1 DEF MessageOK
<1>4. ASSUME NEW m \in Message, Publish(m), MessageOK(m)' PROVE InboxInv'
  BY <1>3, <1>4, PublishInbox DEF TypeOK
<1>5. CASE inbox' = inbox \/ (inbox # <<>> /\ inbox' = Tail(inbox))
  <2> SUFFICES ASSUME NEW i \in 1 .. Len(inbox') PROVE MessageOK(inbox[i])'
    BY DEF InboxInv
  <2>1. \E j \in 1 .. Len(inbox) : inbox'[i] = inbox[j]
    <3>1. CASE inbox' = inbox
      BY <3>1
    <3>2. CASE inbox # <<>> /\ inbox' = Tail(inbox)
      <4>1. inbox \in Seq(Message) /\ Len(inbox) \in Nat
        BY DEF TypeOK
      <4>2. Len(inbox') = Len(inbox) - 1
        BY <3>2, <4>1, HeadTailProperties
      <4>3. i + 1 \in 1 .. Len(inbox) /\ inbox'[i] = inbox[i + 1]
        BY <3>2, <4>1, <4>2, HeadTailProperties
      <4> QED BY <4>3
    <3> QED BY <1>5, <3>1, <3>2
  <2>2. PICK m \in Message : inbox'[i] = m /\ MessageOK(m)'
    BY <1>1, <1>2, <2>1
  <2> QED BY <2>2 DEF MessageOK
<1>6. CASE inbox' = <<>>
  BY <1>6 DEF InboxInv
<1> QED BY <1>4, <1>5, <1>6 DEF InboxMoves

LEMMA ScanOKStable ==
  ASSUME Stable, NEW q \in Requests, NEW s \in FileScan, ScanOK(q, s)
  PROVE  ScanOK(q, s)'
BY DEF Stable, ScanOK

(* The clock alone makes no entry false.                                   *)
LEMMA PriorOK ==
  ASSUME TypeOK, ScansInv, NEW q \in Requests, NEW p \in FileScan, Prior(q, p)
  PROVE  ScanOK(q, p)
<1>1. PICK a \in Ages : p = ForEvent(a) \/ (q \in DOMAIN scans /\ p = [scans[q] EXCEPT !.age = a])
  BY Zenon DEF Prior
<1>2. CASE p = ForEvent(a)
  <2>1. /\ ~p.file /\ p.expected = -1
        /\ \A w \in Scanners : p.results[w].state = "absent"
    BY <1>2 DEF ForEvent, NoResult
  <2>2. ~(p.expected >= 0)
    BY <2>1
  <2> QED BY <2>1, <2>2 DEF ScanOK
<1>3. CASE q \in DOMAIN scans /\ p = [scans[q] EXCEPT !.age = a]
  <2>1. scans[q] \in FileScan /\ ScanOK(q, scans[q])
    BY <1>3 DEF TypeOK, IsScanMap, ScansInv
  <2>2. p.file = scans[q].file /\ p.expected = scans[q].expected /\ p.results = scans[q].results
    BY <1>3, <2>1 DEF FileScan
  <2> QED BY <2>1, <2>2 DEF ScanOK
<1> QED BY <1>1, <1>2, <1>3

(* What a true message adds to a true entry is true: FileScan.update.      *)
LEMMA UpdateScanOK ==
  ASSUME TypeOK, NEW m \in Message, MessageOK(m), NEW s \in FileScan, ScanOK(m.id, s)
  PROVE  ScanOK(m.id, UpdateScan(s, m))
<1>1. CASE ~Accepts(s, m)
  BY <1>1 DEF UpdateScan
<1>2. CASE Accepts(s, m) /\ m.type = "submit"
  <2>1. UpdateScan(s, m) = [s EXCEPT !.file = TRUE, !.expected = IF s.expected > m.count THEN s.expected ELSE m.count]
    BY <1>2 DEF UpdateScan
  <2>2. m.count \in Nat /\ s.expected \in Int /\ m.id \in Requests
    BY <1>2, MessageFields DEF FileScan
  <2> DEFINE n == IF s.expected > m.count THEN s.expected ELSE m.count
  <2>3. /\ UpdateScan(s, m).file
        /\ UpdateScan(s, m).expected = n
        /\ UpdateScan(s, m).results = s.results
    BY <2>1 DEF FileScan
  <2>4. phase[m.id] = "submitted" /\ m.count = counted[m.id]
    BY <1>2 DEF MessageOK
  <2>5. n = counted[m.id] /\ n >= 0
    BY <2>2, <2>4 DEF ScanOK
  <2> HIDE DEF n
  <2> QED BY <2>3, <2>4, <2>5 DEF ScanOK
<1>3. CASE Accepts(s, m) /\ m.type # "submit"
  <2> DEFINE r == UpdateScan(s, m).results[m.name]
  <2>1. /\ m.name \in Scanners /\ m.id \in Requests
        /\ m.type \in {"begin", "result", "end", "timeout"}
    BY <1>3, MessageFields DEF Accepts
  <2>2. /\ s.results \in [Scanners -> FileResult]
        /\ s.results[m.name] \in FileResult
    BY <2>1 DEF FileScan
  <2>3. \E x : UpdateScan(s, m) = [s EXCEPT !.results = [s.results EXCEPT ![m.name] = x]]
    <3>1. CASE m.type = "begin"
      BY <1>3, <3>1, Zenon DEF UpdateScan
    <3>2. CASE m.type # "begin"
      BY <1>3, <3>2 DEF UpdateScan
    <3> QED BY <3>1, <3>2
  <2>4. /\ UpdateScan(s, m).file = s.file
        /\ UpdateScan(s, m).expected = s.expected
        /\ \A w \in Scanners : w # m.name => UpdateScan(s, m).results[w] = s.results[w]
    BY <2>1, <2>2, <2>3 DEF FileScan
  <2>5. r.state = "done" => s.results[m.name].state = "done" \/ m.type \in {"end", "timeout"}
    <3>1. CASE m.type = "begin"
      <4>1. r = [NoResult EXCEPT !.state = "open"]
        BY <1>3, <2>1, <2>2, <3>1 DEF UpdateScan, FileScan
      <4> QED BY <4>1 DEF NoResult
    <3>2. CASE m.type # "begin"
      <4>1. r = UpdateResult(s.results[m.name], m)
        BY <1>3, <2>1, <2>2, <3>2 DEF UpdateScan, FileScan
      <4> QED BY <2>1, <2>2, <3>2, <4>1 DEF UpdateResult, FileResult
    <3> QED BY <3>1, <3>2
  <2> HIDE DEF r
  <2>6. /\ task[m.name][m.id] # "none"
        /\ r.state = "done" => task[m.name][m.id] = "finished"
    BY <2>1, <2>5 DEF MessageOK, ScanOK
  <2> QED BY <2>1, <2>4, <2>6 DEF ScanOK, r
<1> QED BY <1>1, <1>2, <1>3

LEMMA KnownOK ==
  ASSUME TypeOK, InboxInv, ScansInv, Stable, inbox # <<>>,
         NEW q \in Requests, NEW s \in FileScan, Known(q, s)
  PROVE  ScanOK(q, s)'
<1> DEFINE m == Head(inbox)
<1>1. m \in Message /\ MessageOK(m)
  <2>1. m = inbox[1] /\ 1 \in 1 .. Len(inbox)
    BY DEF TypeOK
  <2> QED BY <2>1 DEF TypeOK, InboxInv
<1>2. PICK p \in FileScan : Prior(q, p) /\ (s = p \/ (m.id = q /\ s = UpdateScan(p, m)))
  BY DEF Known
<1>3. ScanOK(q, p)
  BY <1>2, PriorOK
<1> HIDE DEF m
<1>4. ScanOK(q, s)
  BY <1>1, <1>2, <1>3, UpdateScanOK
<1> QED BY <1>4, ScanOKStable

\* What EmittingInv and OutputInv say of a scan that is over.
OverOK(q, s) == ScanOK(q, s) /\ (Complete(s) \/ Expired(s))

\* The steps that move what the logger knows.
LoggerMoves ==
  \/ Handle
  \/ \E q \in Requests : Emit(q)
  \/ scans' = EmptyMap /\ emitting' = EmptyMap /\ UNCHANGED output
  \/ UNCHANGED <<scans, emitting, output>>

LEMMA LoggerMovesStep ==
  ASSUME [Next]_vars
  PROVE  LoggerMoves
<1> USE DEF LoggerMoves, loggerVars
<1>1. ASSUME NEW q \in Requests,
             Observe(q) \/ PublishRequest(q) \/ PublishSubmit(q) \/ StartDelete(q) \/ Unlink(q)
      PROVE  LoggerMoves
  BY <1>1 DEF Observe, PublishRequest, PublishSubmit, StartDelete, Unlink
<1>2. ASSUME NEW w \in Scanners, NEW q \in Requests, ScannerStep(w, q) PROVE LoggerMoves
  BY <1>2 DEF ScannerStep, Begin, OpenFile, FinishScan, Send, CancelTask
<1>3. ASSUME NEW w \in Scanners, ExitScanner(w) \/ StartScanner(w) \/ StopScanner(w) \/ KillScanner(w)
      PROVE  LoggerMoves
  BY <1>3 DEF ExitScanner, StartScanner, StopScanner, KillScanner
<1>4. CASE CrashWatcher \/ StartLogger \/ KillLogger
  BY <1>4 DEF CrashWatcher, StartLogger, KillLogger
<1>5. CASE Handle \/ \E q \in Requests : Emit(q)
  BY <1>5
<1>6. CASE Idle \/ UNCHANGED vars
  BY <1>6 DEF Idle, vars
<1> QED BY <1>1, <1>2, <1>3, <1>4, <1>5, <1>6 DEF Next, Stop, LoggerStep

(* The three invariants on scans: known, over, and on record.              *)
LEMMA ScansStep ==
  ASSUME TypeOK, InboxInv, ScansInv, Stable, LoggerMoves
  PROVE  ScansInv'
<1> SUFFICES ASSUME NEW q \in DOMAIN scans' PROVE ScanOK(q, scans[q])'
  BY DEF ScansInv
<1>1. ASSUME NEW s \in FileScan, q \in Requests, ScanOK(q, s), scans'[q] = s PROVE ScanOK(q, scans[q])'
  BY <1>1, ScanOKStable DEF ScanOK
<1>2. \A p \in DOMAIN scans : p \in Requests /\ scans[p] \in FileScan /\ ScanOK(p, scans[p])
  BY DEF TypeOK, IsScanMap, ScansInv
<1>3. CASE Handle
  <2>1. inbox # <<>> /\ q \in Requests /\ scans'[q] \in FileScan
    BY <1>3, HandleStep DEF Handle, IsScanMap
  <2>2. CASE q \in DOMAIN scans /\ scans'[q] = scans[q]
    BY <1>1, <1>2, <2>2
  <2>3. CASE Known(q, scans'[q])
    <3>1. PICK s \in FileScan : s = scans'[q] /\ Known(q, s)
      BY <2>1, <2>3
    <3>2. ScanOK(q, s)'
      BY <2>1, <3>1, KnownOK
    <3> QED BY <3>1, <3>2 DEF ScanOK
  <2> QED BY <1>3, <2>2, <2>3, HandleStep
<1>4. CASE UNCHANGED scans
  BY <1>1, <1>2, <1>4
<1>5. CASE scans' = EmptyMap
  BY <1>5, EmptyMapType
<1> QED BY <1>3, <1>4, <1>5 DEF LoggerMoves, Emit

LEMMA EmittingStep ==
  ASSUME TypeOK, InboxInv, ScansInv, EmittingInv, Stable, LoggerMoves
  PROVE  EmittingInv'
<1> SUFFICES ASSUME NEW q \in DOMAIN emitting' PROVE OverOK(q, emitting[q])'
  BY DEF EmittingInv, OverOK
<1>1. ASSUME NEW s \in FileScan, q \in Requests, OverOK(q, s), emitting'[q] = s PROVE OverOK(q, emitting[q])'
  <2>1. ScanOK(q, s)'
    BY <1>1, ScanOKStable DEF OverOK
  <2> QED BY <1>1, <2>1 DEF OverOK, ScanOK
<1>2. \A p \in DOMAIN emitting : p \in Requests /\ emitting[p] \in FileScan /\ OverOK(p, emitting[p])
  BY DEF TypeOK, IsScanMap, EmittingInv, OverOK
<1>3. CASE Handle
  <2>1. inbox # <<>> /\ q \in Requests /\ emitting'[q] \in FileScan
    BY <1>3, HandleStep DEF Handle, IsScanMap
  <2>2. PICK s \in FileScan : s = emitting'[q] /\ Known(q, s) /\ (Complete(s) \/ Expired(s))
    BY <1>3, <2>1, HandleStep
  <2>3. ScanOK(q, s)'
    BY <2>1, <2>2, KnownOK
  <2> QED BY <2>2, <2>3 DEF OverOK, ScanOK
<1>4. ASSUME NEW p \in Requests, Emit(p) PROVE OverOK(q, emitting[q])'
  <2>1. q \in DOMAIN emitting /\ emitting'[q] = emitting[q]
    BY <1>4, EmitStep
  <2> QED BY <1>1, <1>2, <2>1
<1>5. CASE UNCHANGED emitting
  BY <1>1, <1>2, <1>5
<1>6. CASE emitting' = EmptyMap
  BY <1>6, EmptyMapType
<1> QED BY <1>3, <1>4, <1>5, <1>6 DEF LoggerMoves

LEMMA OutputStep ==
  ASSUME TypeOK, EmittingInv, OutputInv, Stable, LoggerMoves
  PROVE  OutputInv'
<1> SUFFICES ASSUME NEW q \in Requests, NEW i \in 1 .. Len(output'[q]) PROVE OverOK(q, output[q][i])'
  BY DEF OutputInv, OverOK
<1>1. ASSUME NEW s \in FileScan, OverOK(q, s), output'[q][i] = s PROVE OverOK(q, output[q][i])'
  <2>1. ScanOK(q, s)'
    BY <1>1, ScanOKStable DEF OverOK
  <2> QED BY <1>1, <2>1 DEF OverOK, ScanOK
<1>2. \A j \in 1 .. Len(output[q]) : output[q][j] \in FileScan /\ OverOK(q, output[q][j])
  BY DEF TypeOK, OutputInv, OverOK
<1>3. ASSUME NEW p \in Requests, Emit(p) PROVE OverOK(q, output[q][i])'
  <2>1. emitting[p] \in FileScan /\ OverOK(p, emitting[p])
    BY <1>3 DEF Emit, EmittingInv, OverOK, TypeOK, IsScanMap
  <2>2. \/ i \in 1 .. Len(output[q]) /\ output'[q][i] = output[q][i]
        \/ q = p /\ output'[q][i] = emitting[p]
    BY <1>3, EmitStep
  <2> QED BY <1>1, <1>2, <2>1, <2>2
<1>4. CASE UNCHANGED output
  BY <1>1, <1>2, <1>4
<1> QED BY <1>3, <1>4 DEF LoggerMoves, Handle

-----------------------------------------------------------------------------
LEMMA InitInv == Init => IInv
<1> SUFFICES ASSUME Init PROVE IInv
  OBVIOUS
<1>1. TypeOK
  <2>1. ScanFailed \in Outcome
    BY DEF ScanFailed, Outcome, Findings
  <2>2. outcome \in [Scanners -> [Requests -> Outcome]]
    BY <2>1 DEF Init
  <2> QED BY <2>2, EmptyMapType DEF Init, TypeOK, Handling, Live, Cleaning
<1>2. SentInv
  BY DEF Init, SentInv
<1>3. CountInv
  BY DEF Init, CountInv, Receivers
<1>4. InboxInv /\ ScansInv /\ EmittingInv /\ OutputInv
  BY EmptyMapType DEF Init, InboxInv, ScansInv, EmittingInv, OutputInv
<1> QED BY <1>1, <1>2, <1>3, <1>4 DEF IInv, TypeInv

LEMMA NextInv == IInv /\ [Next]_vars => IInv'
<1> SUFFICES ASSUME IInv, [Next]_vars PROVE IInv'
  OBVIOUS
<1> USE DEF IInv, TypeInv
<1>1. TypeOK' /\ SentInv' /\ CountInv'
  BY TypeStep, SentStep, CountStep
<1>2. Stable /\ InboxMoves /\ LoggerMoves
  BY StableStep, InboxStep, LoggerMovesStep
<1>3. InboxInv' /\ ScansInv' /\ EmittingInv' /\ OutputInv'
  BY <1>2, InboxInvStep, ScansStep, EmittingStep, OutputStep
<1> QED BY <1>1, <1>3

(* Every reachable state satisfies the inductive invariant.                *)
THEOREM Invariance == Spec => []IInv
<1> QED BY InitInv, NextInv, PTL DEF Spec

(* Type correctness: the variables of the watcher, the scanners and the    *)
(* logger keep their types, and the logger's maps hold scans of requests.  *)
THEOREM TypeCorrect == Spec => []TypeOK
<1>1. IInv => TypeOK
  BY DEF IInv, TypeInv
<1> QED BY Invariance, <1>1, PTL

(* A scan that is over before any time limit has heard all there is of it. *)
LEMMA OverIsFinal ==
  ASSUME IInv, NEW q \in Requests, NEW s \in FileScan, OverOK(q, s), InTime(s)
  PROVE  /\ s.file /\ phase[q] = "submitted"
         /\ \A w \in Receivers(q) : s.results[w].state = "done" /\ task[w][q] = "finished"
<1>1. Complete(s) /\ s.age < MinScanTime
  BY DEF OverOK, InTime
<1>2. s.expected >= 0
  <2>1. s.age \in Int /\ MinScanTime \in Int
    BY ScanModelAssumption DEF FileScan, Ages
  <2> QED BY <1>1, <2>1 DEF Complete
<1>3. /\ s.file /\ phase[q] = "submitted" /\ s.expected = counted[q]
      /\ \A w \in Scanners : /\ s.results[w].state # "absent" => task[w][q] # "none"
                             /\ s.results[w].state = "done" => task[w][q] = "finished"
  BY <1>2 DEF OverOK, ScanOK
<1>4. s.expected = Cardinality(Receivers(q)) /\ Receivers(q) \subseteq Scanners
  BY <1>3 DEF IInv, CountInv, Receivers
<1>5. Begun(s) \subseteq Receivers(q)
  BY <1>3 DEF Begun, Receivers
<1>6. \A w \in Receivers(q) : s.results[w].state = "done"
  BY <1>1, <1>4, <1>5, CompleteIsFinal, ScanModelAssumption
<1> QED BY <1>3, <1>4, <1>6

LEMMA FinalFromInv == IInv => RecordsAreFinal
<1> SUFFICES ASSUME IInv, NEW q \in Requests, NEW s \in Records(q), InTime(s)
             PROVE  /\ s.file
                    /\ \A w \in Receivers(q) : s.results[w].state = "done" /\ task[w][q] = "finished"
  BY DEF RecordsAreFinal
<1>1. PICK i \in 1 .. Len(output[q]) : s = output[q][i]
  BY DEF Records, IInv, TypeInv, TypeOK
<1>2. s \in FileScan /\ OverOK(q, s)
  BY <1>1 DEF IInv, TypeInv, TypeOK, OutputInv, OverOK
<1> QED BY <1>2, OverIsFinal

(* A record that time did not force is final, for any number of requests   *)
(* and scanners and any stops: all the scanners the request reached have   *)
(* published their end, and none of them will open the file again.         *)
THEOREM RecordsFinal == Spec => []RecordsAreFinal
<1> QED BY Invariance, FinalFromInv, PTL
=============================================================================
