------------------------------ MODULE FileScan -------------------------------
(***************************************************************************)
(* Malcolm's file scanning service: filescan_watcher publishes a request   *)
(* for every file it is told of, the scanners scan it, and filescan_logger *)
(* collects their messages, writes one record for a finished scan and      *)
(* deletes the file if the preservation policy says so.                    *)
(*                                                                         *)
(* The processes share nothing but the redis channels and the directory of *)
(* extracted files.  A channel delivers what is published to the           *)
(* subscribers of that moment, in order, and keeps nothing: what is        *)
(* published while a subscriber is down never reaches it.  The request     *)
(* channel is folded into the task of each scanner, since a scanner starts *)
(* a concurrent task for each request; the notify and the result channel   *)
(* are read by the logger through one connection, hence one sequence.      *)
(***************************************************************************)
EXTENDS ScanModel

CONSTANTS
  Files,          \* the extracted files
  FileOf,         \* the file each request is about
  Policy,         \* FILESCAN_PRESERVATION: "all", "quarantined" or "none"
  DeleteLimit,    \* preservation.concurrent_deletes
  Outcomes,       \* what a scan may produce, a subset of Outcome
  MaxInbox,       \* bound: messages waiting for the logger
  MaxStops        \* bound: processes stopped or killed in a behaviour

\* The end of a call of Scanner.scan: the results it yielded, the error that
\* ended it if one did, and the note that closes it.
Outcome == [results : Seq(Findings), last : {"end", "timeout"}]

ScanFailed == [results |-> <<"error">>, last |-> "end"]

ASSUME FileScanAssumption ==
  /\ FileOf \in [Requests -> Files]
  /\ Policy \in {"all", "quarantined", "none"}
  /\ DeleteLimit \in Nat \ {0}
  /\ Outcomes \subseteq Outcome
  /\ MaxInbox \in Nat \ {0}
  /\ MaxStops \in Nat

VARIABLES
  present,    \* the files that exist
  phase,      \* how far handle_file_event got with each request
  counted,    \* the number of receivers redis returned for each request
  scanner,    \* whether each scanner process is up
  task,       \* each scanner's handle_request task for each request
  outcome,    \* what each task's scan produced
  sent,       \* how many of its results and its end each task has published
  inbox,      \* messages on the logger's subscription
  logger,     \* whether the logger is up
  scans,      \* FileScanMap.scans
  emitting,   \* finished scans the logger has yet to write
  output,     \* the records written for each request, oldest first
  cleanup,    \* the preservation cleanup task of each request
  stops       \* processes stopped so far

watcherVars == <<phase, counted>>
scannerVars == <<scanner, task, outcome, sent>>
loggerVars  == <<logger, scans, emitting, output>>
vars == <<present, watcherVars, scannerVars, inbox, loggerVars, cleanup, stops>>

-----------------------------------------------------------------------------
(* Derived state and helpers.                                              *)

\* A process that is shutting down still holds its subscription.
Subscribed == {w \in Scanners : scanner[w] # "down"}

\* The scanners the request of q was delivered to.
Receivers(q) == {w \in Scanners : task[w][q] # "none"}

Live == {"queued", "begun", "scanning", "sending"}

\* The messages handle_request publishes once the scan is over.
Messages_EndFirst(o, q, w) ==   \* (mutant)
  <<Note(o.last, q, w)>> \o [i \in 1 .. Len(o.results) |-> ResultMsg(q, w, o.results[i])]

Messages(o, q, w) ==
  [i \in 1 .. Len(o.results) |-> ResultMsg(q, w, o.results[i])] \o <<Note(o.last, q, w)>>

\* result_qualifies_for_preservation, and the cleanup's decision.
Qualifies_All(s) == \A w \in Begun(s) : s.results[w].hit   \* (mutant)
Qualifies(s) == \E w \in Scanners : s.results[w].hit

Deletes_Flagged(s) == Policy = "none" \/ (Policy = "quarantined" /\ Qualifies(s))   \* (mutant)
Deletes(s) == Policy = "none" \/ (Policy = "quarantined" /\ ~Qualifies(s))

Room == Len(inbox) < MaxInbox

\* PUBLISH on the notify or the result channel.
Publish(m) == inbox' = IF logger = "up" THEN Append(inbox, m) ELSE inbox

Init ==
  /\ present  = Files
  /\ phase    = [q \in Requests |-> "idle"]
  /\ counted  = [q \in Requests |-> 0]
  /\ scanner  = [w \in Scanners |-> "up"]
  /\ task     = [w \in Scanners |-> [q \in Requests |-> "none"]]
  /\ outcome  = [w \in Scanners |-> [q \in Requests |-> ScanFailed]]
  /\ sent     = [w \in Scanners |-> [q \in Requests |-> 0]]
  /\ inbox    = <<>>
  /\ logger   = "up"
  /\ scans    = EmptyMap
  /\ emitting = EmptyMap
  /\ output   = [q \in Requests |-> <<>>]
  /\ cleanup  = [q \in Requests |-> "none"]
  /\ stops    = 0

-----------------------------------------------------------------------------
(* The watcher: it has seen that the file is there (and read it, for its   *)
(* size and hash); handle_file_event publishes the request, and then tells *)
(* the logger how many scanners received it.                               *)

Observe(q) ==
  /\ phase[q] = "idle"
  /\ FileOf[q] \in present
  /\ phase' = [phase EXCEPT ![q] = "observed"]
  /\ UNCHANGED <<present, counted, scannerVars, inbox, loggerVars, cleanup, stops>>

PublishRequest(q) ==
  /\ phase[q] = "observed"
  /\ phase'   = [phase EXCEPT ![q] = "requested"]
  /\ counted' = [counted EXCEPT ![q] = Cardinality(Subscribed)]
  /\ task'    = [w \in Scanners |->
                   [task[w] EXCEPT ![q] = CASE scanner[w] = "up"       -> "queued"
                                            [] scanner[w] = "stopping" -> "lost"
                                            [] OTHER                   -> @]]
  /\ UNCHANGED <<present, scanner, outcome, sent, inbox, loggerVars, cleanup, stops>>

PublishSubmit(q) ==
  /\ phase[q] = "requested"
  /\ Room
  /\ phase' = [phase EXCEPT ![q] = "submitted"]
  /\ Publish(SubmitMsg(q, counted[q]))
  /\ UNCHANGED <<present, counted, scannerVars, loggerVars, cleanup, stops>>

\* The watcher dies with events half handled.
Handling == {"observed", "requested"}

CrashWatcher ==
  /\ stops < MaxStops
  /\ \E q \in Requests : phase[q] \in Handling
  /\ phase' = [q \in Requests |-> IF phase[q] \in Handling THEN "dropped" ELSE phase[q]]
  /\ stops' = stops + 1
  /\ UNCHANGED <<present, counted, scannerVars, inbox, loggerVars, cleanup>>

-----------------------------------------------------------------------------
(* A scanner: process_requests starts a handle_request task per request.   *)

SetTask(w, q, s) == task' = [task EXCEPT ![w][q] = s]

Begin(w, q) ==
  /\ scanner[w] = "up" /\ task[w][q] = "queued"
  /\ Room
  /\ SetTask(w, q, "begun")
  /\ Publish(Note("begin", q, w))
  /\ UNCHANGED <<present, watcherVars, scanner, outcome, sent, loggerVars, cleanup, stops>>

\* scan() resolves the path before it reads: a file that is gone by then is
\* an exception, reported as an error result.
OpenFile(w, q) ==
  /\ scanner[w] = "up" /\ task[w][q] = "begun"
  /\ IF FileOf[q] \in present
     THEN SetTask(w, q, "scanning") /\ UNCHANGED outcome
     ELSE SetTask(w, q, "sending") /\ outcome' = [outcome EXCEPT ![w][q] = ScanFailed]
  /\ UNCHANGED <<present, watcherVars, scanner, sent, inbox, loggerVars, cleanup, stops>>

FinishScan(w, q) ==
  /\ scanner[w] = "up" /\ task[w][q] = "scanning"
  /\ SetTask(w, q, "sending")
  /\ \E o \in Outcomes : outcome' = [outcome EXCEPT ![w][q] = o]
  /\ UNCHANGED <<present, watcherVars, scanner, sent, inbox, loggerVars, cleanup, stops>>

\* The finally clause publishes every result and then the end.  The task is
\* in the state "then" after a publish that is not its last.
SendNext(w, q, then) ==
  LET ms == Messages(outcome[w][q], q, w)
      n  == sent[w][q] + 1
  IN  /\ task[w][q] = "sending"
      /\ Room
      /\ Publish(ms[n])
      /\ sent' = [sent EXCEPT ![w][q] = n]
      /\ SetTask(w, q, IF n = Len(ms) THEN "finished" ELSE then)

Send(w, q) ==
  /\ scanner[w] = "up"
  /\ SendNext(w, q, "sending")
  /\ UNCHANGED <<present, watcherVars, scanner, outcome, loggerVars, cleanup, stops>>

\* SIGTERM: requests not yet read from the subscription are lost.
StopScanner(w) ==
  /\ stops < MaxStops
  /\ scanner[w] = "up"
  /\ scanner' = [scanner EXCEPT ![w] = "stopping"]
  /\ task' = [task EXCEPT ![w] = [q \in Requests |-> IF @[q] = "queued" THEN "lost" ELSE @[q]]]
  /\ stops' = stops + 1
  /\ UNCHANGED <<present, watcherVars, outcome, sent, inbox, loggerVars, cleanup>>

\* A cancelled task enters its finally clause with what the scan yielded so
\* far and "request cancelled", but each await there is cancelled again: at
\* most the publish that is then in flight reaches redis.
FirstFindings(w, q) ==
  {"error"} \cup IF task[w][q] = "scanning"
                 THEN {o.results[1] : o \in {p \in Outcomes : p.results # <<>>}}
                 ELSE {}

CancelTask(w, q) ==
  /\ scanner[w] = "stopping"
  /\ \/ /\ task[w][q] \in Live
        /\ SetTask(w, q, "lost")
        /\ UNCHANGED <<inbox, sent>>
     \/ /\ task[w][q] \in {"begun", "scanning"}
        /\ Room
        /\ \E f \in FirstFindings(w, q) : Publish(ResultMsg(q, w, f))
        /\ SetTask(w, q, "lost")
        /\ UNCHANGED sent
     \/ SendNext(w, q, "lost")
  /\ UNCHANGED <<present, watcherVars, scanner, outcome, loggerVars, cleanup, stops>>

\* Every task has ended: the process exits.
ExitScanner(w) ==
  /\ scanner[w] = "stopping"
  /\ \A q \in Requests : task[w][q] \notin Live
  /\ scanner' = [scanner EXCEPT ![w] = "down"]
  /\ UNCHANGED <<present, watcherVars, task, outcome, sent, inbox, loggerVars, cleanup, stops>>

\* SIGKILL, or a lost redis connection.
KillScanner(w) ==
  /\ stops < MaxStops
  /\ scanner[w] # "down"
  /\ scanner' = [scanner EXCEPT ![w] = "down"]
  /\ task' = [task EXCEPT ![w] = [q \in Requests |-> IF @[q] \in Live THEN "lost" ELSE @[q]]]
  /\ stops' = stops + 1
  /\ UNCHANGED <<present, watcherVars, outcome, sent, inbox, loggerVars, cleanup>>

\* supervisord restarts it, and it subscribes again.
StartScanner(w) ==
  /\ scanner[w] = "down"
  /\ scanner' = [scanner EXCEPT ![w] = "up"]
  /\ UNCHANGED <<present, watcherVars, task, outcome, sent, inbox, loggerVars, cleanup, stops>>

-----------------------------------------------------------------------------
(* The logger.  Between two awaits nothing else in the process runs, so    *)
(* applying a message and taking the finished scans out of the map is one  *)
(* step, and writing a record, starting its cleanup and publishing         *)
(* "complete" is another; the loop reads no message before all are written.*)
(* Time shows only here: the ages are what the clock says at that moment.  *)

Handle ==
  /\ logger = "up" /\ emitting = EmptyMap
  /\ inbox # <<>>
  /\ inbox' = Tail(inbox)
  /\ LET m == Head(inbox) IN
     IF Ignored(m)
     THEN UNCHANGED <<scans, emitting>>
     ELSE \E ages \in [Requests -> Ages] :
            /\ \A q \in DOMAIN scans : ages[q] >= scans[q].age
            /\ LET aged == Aged(scans, m, ages)
                   map  == UpdateMap(aged, m)
               IN  IF Accepts(aged[m.id], m)
                   THEN /\ scans' = Working(map)
                        /\ emitting' = Part(map, Finished(map))
                   ELSE scans' = aged /\ UNCHANGED emitting
  /\ UNCHANGED <<present, watcherVars, scannerVars, logger, output, cleanup, stops>>

Emit(q) ==
  /\ logger = "up" /\ q \in DOMAIN emitting
  /\ output' = [output EXCEPT ![q] = Append(@, emitting[q])]
  /\ cleanup' = IF emitting[q].file /\ Policy # "all"
                THEN [cleanup EXCEPT ![q] = IF Deletes(emitting[q]) THEN "waiting" ELSE "kept"]
                ELSE cleanup
  /\ Publish(CompleteMsg(q))
  /\ emitting' = Part(emitting, DOMAIN emitting \ {q})
  /\ UNCHANGED <<present, watcherVars, scannerVars, logger, scans, stops>>

\* A cleanup task takes one of the limiter's tokens and unlinks in a thread.
FreeToken_Kept ==   \* (mutant)
  Cardinality({p \in Requests : cleanup[p] \in {"unlinking", "deleted"}}) < DeleteLimit
FreeToken == Cardinality({p \in Requests : cleanup[p] = "unlinking"}) < DeleteLimit

StartDelete(q) ==
  /\ logger = "up"
  /\ cleanup[q] = "waiting"
  /\ FreeToken
  /\ cleanup' = [cleanup EXCEPT ![q] = "unlinking"]
  /\ UNCHANGED <<present, watcherVars, scannerVars, inbox, loggerVars, stops>>

Unlink(q) ==
  /\ logger = "up"
  /\ cleanup[q] = "unlinking"
  /\ present' = present \ {FileOf[q]}
  /\ cleanup' = [cleanup EXCEPT ![q] = "deleted"]
  /\ UNCHANGED <<watcherVars, scannerVars, inbox, loggerVars, stops>>

Cleaning == {"waiting", "unlinking"}

\* A SIGTERM does nothing: the scope that is shielded holds the loop as well as the
\* cleanups, so the cancellation reaches neither, and the process goes on as it did until
\* supervisord kills it.  What ends it is that SIGKILL, or an exception in the loop (a
\* lost redis connection, a message that does not parse), which cancels the cleanups.
KillLogger ==
  /\ stops < MaxStops
  /\ logger = "up"
  /\ logger' = "down"
  /\ inbox' = <<>> /\ scans' = EmptyMap /\ emitting' = EmptyMap
  /\ cleanup' = [q \in Requests |-> IF cleanup[q] \in Cleaning THEN "killed" ELSE cleanup[q]]
  /\ stops' = stops + 1
  /\ UNCHANGED <<present, watcherVars, scannerVars, output>>

StartLogger ==
  /\ logger = "down"
  /\ logger' = "up"
  /\ UNCHANGED <<present, watcherVars, scannerVars, inbox, scans, emitting, output, cleanup, stops>>

-----------------------------------------------------------------------------
\* Nothing is under way: every process waits for a file event.
Quiet ==
  /\ inbox = <<>> /\ emitting = EmptyMap
  /\ logger = "up" /\ \A w \in Scanners : scanner[w] = "up"
  /\ \A q \in Requests : /\ phase[q] \notin Handling
                         /\ phase[q] = "idle" => FileOf[q] \notin present
                         /\ cleanup[q] \notin Cleaning
                         /\ \A w \in Scanners : task[w][q] \notin Live

Idle == Quiet /\ UNCHANGED vars

ScannerStep(w, q) ==
  Begin(w, q) \/ OpenFile(w, q) \/ FinishScan(w, q) \/ Send(w, q) \/ CancelTask(w, q)
LoggerStep == Handle \/ (\E q \in Requests : Emit(q)) \/ StartLogger
Stop == \/ CrashWatcher \/ KillLogger
        \/ \E w \in Scanners : StopScanner(w) \/ KillScanner(w)

Next ==
  \/ \E q \in Requests : Observe(q) \/ PublishRequest(q) \/ PublishSubmit(q)
  \/ \E w \in Scanners, q \in Requests : ScannerStep(w, q)
  \/ \E w \in Scanners : ExitScanner(w) \/ StartScanner(w)
  \/ LoggerStep
  \/ \E q \in Requests : StartDelete(q) \/ Unlink(q)
  \/ Stop
  \/ Idle

Spec == Init /\ [][Next]_vars

\* Nothing forces a file event or a stop; everything else an event loop, a thread or supervisord gets round to.
Fairness ==
  /\ \A q \in Requests : /\ WF_vars(PublishRequest(q) \/ PublishSubmit(q))
                         /\ WF_vars(StartDelete(q))
                         /\ WF_vars(Unlink(q))
  /\ \A w \in Scanners : /\ WF_vars(ExitScanner(w) \/ StartScanner(w))
                         /\ \A q \in Requests : WF_vars(ScannerStep(w, q))
  /\ WF_vars(LoggerStep)

FairSpec == Spec /\ Fairness

-----------------------------------------------------------------------------
TypeOK ==
  /\ present \subseteq Files
  /\ phase \in [Requests -> Handling \cup {"idle", "submitted", "dropped"}]
  /\ counted \in [Requests -> Nat]
  /\ scanner \in [Scanners -> {"up", "stopping", "down"}]
  /\ task \in [Scanners -> [Requests -> Live \cup {"none", "finished", "lost"}]]
  /\ outcome \in [Scanners -> [Requests -> Outcome]]
  /\ sent \in [Scanners -> [Requests -> Nat]]
  /\ inbox \in Seq(Message)
  /\ logger \in {"up", "down"}
  /\ IsScanMap(scans)
  /\ IsScanMap(emitting)
  /\ output \in [Requests -> Seq(FileScan)]
  /\ cleanup \in [Requests -> Cleaning \cup {"none", "kept", "deleted", "killed"}]
  /\ stops \in Nat

Records(q) == {output[q][i] : i \in DOMAIN output[q]}

\* Neither of the two time limits had a part in finishing the scan.
InTime(s) == s.age < MinScanTime /\ ~Expired(s)

(* A record that time did not force is final: it names the file, every     *)
(* scanner the request was delivered to has published its end, and none of *)
(* them will touch the file again, so the cleanup that follows deletes no  *)
(* file that is being scanned (FileScan.complete, handle_file_event).      *)
RecordsAreFinal ==
  \A q \in Requests : \A s \in Records(q) :
    InTime(s) => /\ s.file
                 /\ \A w \in Receivers(q) : /\ s.results[w].state = "done"
                                            /\ task[w][q] = "finished"

\* Nothing of q is under way: it is submitted, its scans are over, and the logger has
\* read and written all there is of it.
Settled(q) ==
  /\ phase[q] = "submitted"
  /\ \A w \in Scanners : task[w][q] \in {"none", "finished"}
  /\ \A i \in DOMAIN inbox : inbox[i].id # q
  /\ q \notin DOMAIN emitting

(* A request's file is put on record at most once, whatever arrives late,  *)
(* early or out of order, and once nothing of it is under way it is on     *)
(* record and forgotten, unless a process stopped or a time limit forced a *)
(* record (FileScanMap.get_completed_scans).                               *)
RecordedOnce ==
  \A q \in Requests :
    LET n == Cardinality({i \in DOMAIN output[q] : output[q][i].file})
    IN  /\ n <= 1
        /\ stops = 0 /\ Settled(q) /\ (\A s \in Records(q) : InTime(s))
           => n = 1 /\ q \notin DOMAIN scans

(* A finished scanner's part of a record says what the scan found: all of  *)
(* its results are in, and it failed or timed out only if it did           *)
(* (handle_request publishes results before the end; FileResult.update).   *)
VerdictsAreFaithful ==
  \A q \in Requests, w \in Scanners : \A s \in Records(q) :
    s.results[w].state = "done" =>
      LET o == outcome[w][q]
          Found(f) == \E i \in DOMAIN o.results : o.results[i] = f
      IN  /\ s.results[w].hit = Found("hit")
          /\ s.results[w].errored = (o.last = "timeout" \/ Found("error"))

(* The policy lets a file go when its record s has no rule hit, or at once. *)
Hit(s)  == \E w \in Scanners : s.results[w].state # "absent" /\ s.results[w].hit
Drop(s) == s.file /\ (Policy = "none" \/ (Policy = "quarantined" /\ ~Hit(s)))

(* No file disappears before a record of it was written that the policy    *)
(* lets go (watch_pubsub, preservation_cleanup_scan_artifacts).            *)
DeletesAreOnRecord ==
  \A f \in Files \ present :
    \E q \in Requests : FileOf[q] = f /\ \E s \in Records(q) : Drop(s)

(* docs/file-scanning.md: "quarantined: preserve only files ... that are   *)
(* flagged": a file whose recorded scan has a rule hit is still there.     *)
FlaggedFilesAreKept ==
  Policy = "quarantined" =>
    \A q \in Requests : \A s \in Records(q) : s.file /\ Hit(s) => FileOf[q] \in present

(* The service implements ScanPromise: the verdict on a request is that of *)
(* its file-bearing record.                                                *)
Verdict(q) ==
  IF \A s \in Records(q) : ~s.file THEN "pending"
  ELSE IF \E s \in Records(q) : Drop(s) THEN "drop"
  ELSE "keep"

Promise == INSTANCE ScanPromise WITH verdict <- [q \in Requests |-> Verdict(q)]

KeepsPromise == Promise!Spec

(* Unless a process stops, every submitted request is recorded with its    *)
(* file: no lost wake-up, no expected count that is never reached.         *)
SubmittedIsRecorded ==
  \A q \in Requests :
    phase[q] = "submitted" ~> stops > 0 \/ \E s \in Records(q) : s.file

(* What a record lets go is deleted in the end, however many cleanups wait *)
(* for the limiter's tokens; only the death of the logger keeps a cleanup  *)
(* from ending (preservation_cleanup_scan_artifacts).                      *)
DroppedFilesGo ==
  \A q \in Requests :
    (\E s \in Records(q) : Drop(s)) ~>
      \/ cleanup[q] = "deleted" /\ FileOf[q] \notin present
      \/ cleanup[q] = "killed"

(* Unless a process stops, and before the time limits, the logger forgets  *)
(* every scan it has recorded: no entry comes back for a late or an own    *)
(* message.                                                                *)
LoggerForgets == <>(stops > 0) \/ <>[](scans = EmptyMap)
=============================================================================
