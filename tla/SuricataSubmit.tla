---------------------------- MODULE SuricataSubmit ----------------------------
(***************************************************************************)
(* The Suricata worker of pcap_processor and the socket clients it submits *)
(* captures through (suricata_socket.py).  One thread takes a capture off  *)
(* its queue, asks every client how busy its instance is and submits it to *)
(* the least busy one.  A command is sent and its answer awaited; when     *)
(* that fails the client connects again, and each connection first makes   *)
(* sure, under a lock of all clients, that the instance has run a warm-up  *)
(* capture and reloaded its rules since it started.                        *)
(*                                                                         *)
(* A Suricata instance answers the commands of a connection in order.  It  *)
(* may still read what was sent before the connection was closed; nobody   *)
(* gets the answer.  It may die at any point and is started again, behind  *)
(* the same socket path.                                                   *)
(***************************************************************************)
EXTENDS Integers, FiniteSets, Sequences

CONSTANTS
  Paths,           \* the socket paths
  Captures,        \* captures to be processed
  NoCapture,       \* stands for none
  Tries,           \* _send_command: retries
  Connects,        \* max_retries of a connection
  ForceReconnect,  \* SURICATA_FAILURES_FORCE_RECONNECT
  Prompt,          \* no handshake of a last attempt is answered late
  MaxFaults        \* bound: timeouts, refusals, deaths and crashes

ASSUME SuricataSubmitAssumption ==
  /\ NoCapture \notin Captures
  /\ Tries \in Nat \ {0} /\ Connects \in Nat \ {0} /\ Prompt \in BOOLEAN
  /\ ForceReconnect \in Nat /\ MaxFaults \in Nat

VARIABLES
  inst,       \* each Suricata instance
  open,       \* whether each client's socket is connected to the instance
  wire,       \* commands on the client's connection the instance has not read
  orphans,    \* how many of each command it has not read, of connections since closed
  replies,    \* answers the client has not read
  thread,     \* what the worker's thread is doing
  locked,     \* _reloaded_instances_lock
  recorded,   \* _reloaded_instances: the start of each instance, 0 for none
  client,     \* suricataClients: whether there is a client for each path
  failures,   \* processFailures
  sizes,      \* the queue sizes of the clients asked so far
  plan,       \* the paths the refresh of the clients has yet to visit
  todo,       \* newFileQueue
  job,        \* the capture taken off it
  verdict, acted,  \* history: report and runs of each capture
  plain,      \* history: captures run without rule metadata
  faults      \* faults so far

connVars   == <<open, wire, orphans, replies>>
threadVars == <<thread, locked, recorded, sizes, plan>>
jobVars    == <<client, failures, job, verdict>>
vars == <<inst, connVars, threadVars, jobVars, todo, acted, plain, faults>>

-----------------------------------------------------------------------------
(* Commands and answers.  "size" and "number" are both pcap-file-number,   *)
(* "pcap" and "warm" both pcap-file; the latter of each pair is sent by    *)
(* _ensure_rules_reloaded, with retries=1.                                 *)

Kinds == {"hello", "size", "pcap", "warm", "current", "number", "reload"}
Command == [kind : {"pcap"}, cap : Captures] \cup [kind : Kinds \ {"pcap"}, cap : {NoCapture}]
Reply == [to : Command, ok : BOOLEAN, n : Nat]

Inner == {"warm", "current", "number", "reload"}

\* How often _send_command tries: once under the lock.
Retries_Default(kind) == Tries   \* (mutant)
Retries(kind) == IF kind \in Inner THEN 1 ELSE Tries

\* The commands an instance acts on.
Effective == [kind : {"pcap"}, cap : Captures] \cup [kind : {"warm", "reload"}, cap : {NoCapture}]

SizeError_Negative == -1   \* (mutant)
SizeError == 999
NoSizes == [p \in {} |-> 0]

Instance == [up : BOOLEAN, boot : Nat, queue : Seq(Captures \cup {NoCapture}),
             busy : BOOLEAN, ran : BOOLEAN, meta : BOOLEAN]

\* An instance that has just been started for the nth time.
Started(n) == [up |-> TRUE, boot |-> n, queue |-> <<>>, busy |-> FALSE, ran |-> FALSE, meta |-> FALSE]

Phases == {"idle", "choose", "send", "recv", "connect", "stat", "lock", "done", "refresh"}

\* outer: the command of _send_command the thread connects again for; sent:
\* whether it has been sent; idle, quiet, late: the state of _warm_up's loop.
Thread == [at : Phases, path : Paths \cup {"none"}, kind : Kinds, outer : {"none", "size", "pcap"},
           sent : BOOLEAN, tries : Nat, connects : Nat, id : Nat, idle : Nat,
           quiet : BOOLEAN, late : BOOLEAN]

At(phase) ==
  [at |-> phase, path |-> "none", kind |-> "hello", outer |-> "none", sent |-> FALSE, tries |-> 0,
   connects |-> 0, id |-> 0, idle |-> 0, quiet |-> FALSE, late |-> FALSE]

Now == [kind |-> thread.kind, cap |-> IF thread.kind = "pcap" THEN job ELSE NoCapture]
Clients == {p \in Paths : client[p]}

Init ==
  /\ inst = [p \in Paths |-> Started(1)]
  /\ open = [p \in Paths |-> FALSE]
  /\ wire = [p \in Paths |-> <<>>] /\ orphans = [p \in Paths |-> [c \in Effective |-> 0]]
  /\ replies = [p \in Paths |-> <<>>]
  /\ thread = At("idle") /\ locked = FALSE
  /\ recorded = [p \in Paths |-> 0]
  /\ client = [p \in Paths |-> FALSE] /\ failures = [p \in Paths |-> 0]
  /\ sizes = NoSizes /\ plan = {}
  /\ todo = <<>> /\ job = NoCapture
  /\ verdict = [c \in Captures |-> "none"]
  /\ acted = [c \in Captures |-> 0]
  /\ plain = {} /\ faults = 0

Fault == faults < MaxFaults /\ faults' = faults + 1
NoFault == UNCHANGED faults

-----------------------------------------------------------------------------
(* The socket.                                                             *)

\* What the instance has yet to act on when the connection is closed.
Unread(p) ==
  [c \in Effective |-> orphans[p][c] + Cardinality({i \in DOMAIN wire[p] : wire[p][i] = c})]

Closed(p) ==
  /\ open' = [open EXCEPT ![p] = FALSE]
  /\ orphans' = [orphans EXCEPT ![p] = Unread(p)]
  /\ wire' = [wire EXCEPT ![p] = <<>>]
  /\ replies' = [replies EXCEPT ![p] = <<>>]

ClosedIf_Never(p, sent) == UNCHANGED connVars   \* (mutant)
ClosedIf(p, sent) == IF sent THEN Closed(p) ELSE UNCHANGED connVars

-----------------------------------------------------------------------------
(* How a call of the client ends for its caller.                           *)

\* queue_size and process_pcap return.
Sized(n) ==
  /\ sizes' = [q \in DOMAIN sizes \cup {thread.path} |-> IF q = thread.path THEN n ELSE sizes[q]]
  /\ thread' = At("choose")
  /\ UNCHANGED <<plan, jobVars>>

Submitted(ok) ==
  /\ verdict' = [verdict EXCEPT ![job] = IF ok THEN "submitted" ELSE "failed"]
  /\ failures' = [failures EXCEPT ![thread.path] = IF ok THEN 0 ELSE @ + 1]
  /\ job' = NoCapture
  /\ sizes' = NoSizes
  /\ thread' = At("done")
  /\ UNCHANGED <<plan, client>>

\* The constructor returns, or raises an exception.
Constructed(ok) ==
  /\ client' = [client EXCEPT ![thread.path] = ok]
  /\ failures' = [failures EXCEPT ![thread.path] = 0]
  /\ plan' = plan \ {thread.path}
  /\ thread' = At("refresh")
  /\ UNCHANGED <<sizes, job, verdict>>

\* The outer call ends without the answer it asked for.
GiveUp ==
  CASE thread.outer = "size" -> Sized(SizeError)
    [] thread.outer = "pcap" -> Submitted(FALSE)
    [] OTHER -> Constructed(FALSE)

Goto(t) == thread' = t /\ UNCHANGED <<sizes, plan, jobVars>>

\* A non-idempotent command that was sent is not sent again.
Resends_Always == thread.outer # "none"   \* (mutant)
Resends == thread.outer = "size" \/ (thread.outer = "pcap" /\ ~thread.sent)

\* _connect returns: the rest of _reconnect's caller, or of the constructor.
Connected ==
  IF thread.outer = "none" THEN Constructed(TRUE)
  ELSE IF Resends
  THEN Goto([At("send") EXCEPT !.path = thread.path, !.kind = thread.outer,
                               !.outer = thread.outer, !.tries = thread.tries])
  ELSE GiveUp

\* _ensure_rules_reloaded returns, and with it the lock.
Ensured == locked' = FALSE /\ Connected

\* An attempt to connect has failed.
NotConnected ==
  IF thread.connects + 1 >= Connects THEN GiveUp
  ELSE Goto([thread EXCEPT !.at = "connect", !.kind = "hello", !.connects = @ + 1])

Ask(kind) == Goto([thread EXCEPT !.at = "send", !.kind = kind])

-----------------------------------------------------------------------------
(* The answer ok, n to the command under way; a failure is "not ok".       *)

IdleEnough_Once(n) == n >= 1   \* (mutant)
IdleEnough(n) == n >= 2

\* _warm_up and reload_rules, under the lock.
EnsureStep(ok, n) ==
  CASE thread.kind = "warm" ->
         IF ok THEN Ask("current") /\ UNCHANGED <<locked, recorded>>
         ELSE Ensured /\ UNCHANGED recorded
    [] thread.kind = "current" ->
         /\ Goto([thread EXCEPT !.at = "send", !.kind = "number", !.quiet = ok /\ n = 0])
         /\ UNCHANGED <<locked, recorded>>
    [] thread.kind = "number" ->
         LET idle == IF thread.quiet /\ ok /\ n = 0 THEN thread.idle + 1 ELSE 0
         IN  /\ Goto([thread EXCEPT !.at = "send", !.idle = idle, !.quiet = FALSE,
                                    !.kind = IF IdleEnough(idle) THEN "reload" ELSE "current"])
             /\ UNCHANGED <<locked, recorded>>
    [] thread.kind = "reload" ->
         /\ Ensured
         /\ recorded' = IF ok THEN [recorded EXCEPT ![thread.path] = thread.id] ELSE recorded

Answered(r) ==
  IF thread.kind \in Inner THEN EnsureStep(r.ok, r.n)
  ELSE /\ CASE thread.kind = "hello" -> IF r.ok THEN Goto([thread EXCEPT !.at = "stat"]) ELSE NotConnected
            [] thread.kind = "size"  -> Sized(IF r.ok THEN r.n ELSE SizeError)
            [] thread.kind = "pcap"  -> Submitted(r.ok)
       /\ UNCHANGED <<locked, recorded>>

\* _send_command returns None.
NoResponse ==
  IF thread.kind \in Inner THEN EnsureStep(FALSE, 0)
  ELSE GiveUp /\ UNCHANGED <<locked, recorded>>

\* A socket error.  The last try of a command closes the socket if a late
\* answer could arrive on it; every other connects again.
Failed(sent) ==
  IF thread.kind = "hello"
  THEN NotConnected /\ UNCHANGED <<connVars, locked, recorded>>
  ELSE IF thread.tries + 1 >= Retries(thread.kind)
  THEN NoResponse /\ ClosedIf(thread.path, sent)
  ELSE /\ Goto([thread EXCEPT !.at = "connect", !.kind = "hello", !.sent = sent,
                              !.tries = @ + 1, !.connects = 0])
       /\ Closed(thread.path)
       /\ UNCHANGED <<locked, recorded>>

-----------------------------------------------------------------------------
(* The steps of the thread.                                                *)

\* A capture that is not meant for Suricata, or not there, is passed over.
Pop ==
  /\ thread.at = "idle" /\ Clients # {} /\ todo # <<>>
  /\ todo' = Tail(todo)
  /\ \/ /\ job' = Head(todo) /\ thread' = At("choose")
        /\ UNCHANGED verdict
     \/ /\ verdict' = [verdict EXCEPT ![Head(todo)] = "dropped"] /\ thread' = At("done")
        /\ UNCHANGED job
  /\ UNCHANGED <<inst, connVars, locked, recorded, sizes, plan, client, failures, acted, plain, faults>>

Call(p, kind) ==
  /\ thread' = [At("send") EXCEPT !.path = p, !.kind = kind, !.outer = kind]
  /\ UNCHANGED <<inst, connVars, locked, recorded, plan, jobVars, todo, acted, plain, faults>>

AskSize(p) ==
  /\ thread.at = "choose" /\ p \in Clients \ DOMAIN sizes
  /\ UNCHANGED sizes
  /\ Call(p, "size")

Submit(p) ==
  /\ thread.at = "choose" /\ DOMAIN sizes = Clients
  /\ p \in Clients /\ \A q \in Clients : sizes[p] <= sizes[q]
  /\ UNCHANGED sizes
  /\ Call(p, "pcap")

Expired == thread.kind = "current" /\ thread.late

Send ==
  /\ thread.at = "send" /\ ~Expired
  /\ IF open[thread.path]
     THEN /\ wire' = [wire EXCEPT ![thread.path] = Append(@, Now)]
          /\ thread' = [thread EXCEPT !.at = "recv"]
          /\ UNCHANGED <<open, orphans, replies, locked, recorded, sizes, plan, jobVars>>
     ELSE Failed(FALSE)
  /\ UNCHANGED <<inst, todo, acted, plain, faults>>

\* The deadline of the warm-up has passed when it tests its loop.
WarmUpEnds ==
  /\ thread.at = "send" /\ Expired
  /\ Ensured
  /\ UNCHANGED <<inst, connVars, recorded, todo, acted, plain, faults>>

Receive ==
  /\ thread.at = "recv" /\ replies[thread.path] # <<>>
  /\ Answered(Head(replies[thread.path]))
  /\ replies' = [replies EXCEPT ![thread.path] = Tail(@)]
  /\ UNCHANGED <<inst, open, wire, orphans, todo, acted, plain, faults>>

\* The last attempt to connect has sent its handshake, and the instance, which
\* is there, takes too long to answer it.
LateHandshake ==
  thread.kind = "hello" /\ thread.connects + 1 >= Connects /\ open[thread.path]

\* No answer: the connection is gone, or the answer takes too long.
NoAnswer ==
  /\ thread.at = "recv" /\ replies[thread.path] = <<>>
  /\ IF open[thread.path] THEN Fault /\ (LateHandshake => ~Prompt) ELSE NoFault
  /\ Failed(TRUE)
  /\ UNCHANGED <<inst, todo, acted, plain>>

\* A new socket, the old one is closed; the handshake is sent at once.
Connect ==
  /\ thread.at = "connect"
  /\ LET p == thread.path IN
     /\ orphans' = [orphans EXCEPT ![p] = Unread(p)]
     /\ replies' = [replies EXCEPT ![p] = <<>>]
     /\ open' = [open EXCEPT ![p] = inst[p].up]
     /\ IF inst[p].up
        THEN /\ Goto([thread EXCEPT !.at = "recv"])
             /\ wire' = [wire EXCEPT ![p] = <<Now>>]
        ELSE NotConnected /\ wire' = [wire EXCEPT ![p] = <<>>]
  /\ UNCHANGED <<inst, locked, recorded, todo, acted, plain, faults>>

\* os.stat(socket_path); the file may be gone with the instance.
Stat ==
  /\ thread.at = "stat"
  /\ \/ Goto([thread EXCEPT !.at = "lock", !.id = inst[thread.path].boot])
     \/ ~inst[thread.path].up /\ Connected
  /\ UNCHANGED <<inst, connVars, locked, recorded, todo, acted, plain, faults>>

Recorded == recorded[thread.path] = thread.id

\* with _reloaded_instances_lock: not reentrant.
Acquire ==
  /\ thread.at = "lock" /\ ~locked
  /\ IF Recorded
     THEN Connected /\ UNCHANGED locked
     ELSE Ask("warm") /\ locked' = TRUE
  /\ UNCHANGED <<inst, connVars, recorded, todo, acted, plain, faults>>

\* The socket files glob finds: a dead instance may leave its file.
Glob == {S \in SUBSET Paths : {p \in Paths : inst[p].up} \subseteq S}

\* After a capture the clients are refreshed if it was long ago.
Refresh ==
  /\ \/ thread.at = "idle" /\ Clients = {}
     \/ thread.at = "done"
  /\ \E S \in Glob : plan' = S
  /\ thread' = At("refresh")
  /\ UNCHANGED <<inst, connVars, locked, recorded, sizes, jobVars, todo, acted, plain, faults>>

NextCapture ==
  /\ thread.at = "done" \/ (thread.at = "refresh" /\ plan = {})
  /\ thread' = At("idle")
  /\ UNCHANGED <<inst, connVars, locked, recorded, sizes, plan, jobVars, todo, acted, plain, faults>>

Visit(p) ==
  /\ thread.at = "refresh" /\ p \in plan
  /\ IF client[p] /\ failures[p] <= ForceReconnect
     THEN plan' = plan \ {p} /\ UNCHANGED thread
     ELSE thread' = [At("connect") EXCEPT !.path = p] /\ UNCHANGED plan
  /\ UNCHANGED <<inst, connVars, locked, recorded, sizes, jobVars, todo, acted, plain, faults>>

-----------------------------------------------------------------------------
(* The environment: announcements, instances, time and failures.           *)

Announced(c) == c = job \/ verdict[c] # "none" \/ \E i \in DOMAIN todo : todo[i] = c

\* main: a message of the watcher is queued.
Announce(c) ==
  /\ ~Announced(c)
  /\ todo' = Append(todo, c)
  /\ UNCHANGED <<inst, connVars, threadVars, jobVars, acted, plain, faults>>

\* The instance acts on a command, and what it answers.  One that refuses
\* the handshake hangs up.
Act(p, c) ==
  /\ inst' = CASE c.kind \in {"pcap", "warm"} -> [inst EXCEPT ![p].queue = Append(@, c.cap)]
               [] c.kind = "reload" -> [inst EXCEPT ![p].meta = inst[p].ran]
               [] OTHER -> inst
  /\ IF c.kind = "pcap"
     THEN /\ acted' = [acted EXCEPT ![c.cap] = @ + 1]
          /\ plain' = IF inst[p].meta THEN plain ELSE plain \cup {c.cap}
     ELSE UNCHANGED <<acted, plain>>

Value(p, c) ==
  CASE c.kind \in {"size", "number"} -> Len(inst[p].queue)
    [] c.kind = "current" /\ inst[p].busy -> 1
    [] OTHER -> 0

Respond(p) ==
  /\ inst[p].up /\ wire[p] # <<>>
  /\ LET c == Head(wire[p]) IN
     \/ /\ Act(p, c) /\ NoFault
        /\ replies' = [replies EXCEPT ![p] = Append(@, [to |-> c, ok |-> TRUE, n |-> Value(p, c)])]
        /\ UNCHANGED open
     \/ /\ Fault
        /\ replies' = [replies EXCEPT ![p] = Append(@, [to |-> c, ok |-> FALSE, n |-> 0])]
        /\ open' = [open EXCEPT ![p] = c.kind # "hello"]
        /\ UNCHANGED <<inst, acted, plain>>
  /\ wire' = [wire EXCEPT ![p] = Tail(@)]
  /\ UNCHANGED <<orphans, threadVars, jobVars, todo>>

\* A command of a closed connection is read all the same, or never.
ReadOrphan(p) ==
  /\ inst[p].up
  /\ \E c \in Effective :
       /\ orphans[p][c] > 0
       /\ orphans' = [orphans EXCEPT ![p][c] = @ - 1]
       /\ \/ Act(p, c)
          \/ UNCHANGED <<inst, acted, plain>>
  /\ UNCHANGED <<open, wire, replies, threadVars, jobVars, todo, faults>>

\* A capture is run; its outputs are set up at some point of the run.
StartRun(p) ==
  /\ inst[p].up /\ ~inst[p].busy /\ inst[p].queue # <<>>
  /\ inst' = [inst EXCEPT ![p].queue = Tail(@), ![p].busy = TRUE]
  /\ UNCHANGED <<connVars, threadVars, jobVars, todo, acted, plain, faults>>

EndRun(p) ==
  /\ inst[p].up /\ inst[p].busy
  /\ inst' = [inst EXCEPT ![p].busy = FALSE, ![p].ran = TRUE]
  /\ UNCHANGED <<connVars, threadVars, jobVars, todo, acted, plain, faults>>

\* What it has not read is lost; what it has answered still reaches the client.
Die(p) ==
  /\ Fault
  /\ inst[p].up
  /\ inst' = [inst EXCEPT ![p] = [Started(@.boot) EXCEPT !.up = FALSE]]
  /\ open' = [open EXCEPT ![p] = FALSE]
  /\ wire' = [wire EXCEPT ![p] = <<>>]
  /\ orphans' = [orphans EXCEPT ![p] = [c \in Effective |-> 0]]
  /\ UNCHANGED <<replies, threadVars, jobVars, todo, acted, plain>>

Boot(p) ==
  /\ ~inst[p].up
  /\ inst' = [inst EXCEPT ![p] = Started(@.boot + 1)]
  /\ UNCHANGED <<connVars, threadVars, jobVars, todo, acted, plain, faults>>

\* The warm-up's time is over: the instance is slow, or no longer there.
Deadline ==
  /\ locked /\ thread.kind \in {"current", "number"} /\ ~thread.late
  /\ IF open[thread.path] THEN Fault ELSE NoFault
  /\ thread' = [thread EXCEPT !.late = TRUE]
  /\ UNCHANGED <<inst, connVars, locked, recorded, sizes, plan, jobVars, todo, acted, plain>>

\* pcap_processor is killed and started again.
Crash ==
  /\ Fault
  /\ verdict' = [c \in Captures |-> IF verdict[c] = "none" /\ Announced(c) THEN "dropped" ELSE verdict[c]]
  /\ todo' = <<>> /\ job' = NoCapture
  /\ thread' = At("idle") /\ locked' = FALSE /\ sizes' = NoSizes /\ plan' = {}
  /\ recorded' = [p \in Paths |-> 0]
  /\ client' = [p \in Paths |-> FALSE] /\ failures' = [p \in Paths |-> 0]
  /\ open' = [p \in Paths |-> FALSE]
  /\ orphans' = [p \in Paths |-> Unread(p)]
  /\ wire' = [p \in Paths |-> <<>>] /\ replies' = [p \in Paths |-> <<>>]
  /\ UNCHANGED <<inst, acted, plain>>

-----------------------------------------------------------------------------
ThreadStep ==
  \/ Pop \/ Send \/ WarmUpEnds \/ Receive \/ NoAnswer \/ Connect \/ Stat \/ Acquire
  \/ Refresh \/ NextCapture
  \/ \E p \in Paths : AskSize(p) \/ Submit(p) \/ Visit(p)
InstanceStep(p) == Respond(p) \/ ReadOrphan(p) \/ StartRun(p) \/ EndRun(p) \/ Boot(p)

Next ==
  \/ ThreadStep
  \/ \E p \in Paths : InstanceStep(p) \/ Die(p)
  \/ \E c \in Captures : Announce(c)
  \/ Deadline \/ Crash

Spec == Init /\ [][Next]_vars

\* The thread runs, time passes, and an instance reads, works and is started again.
Fairness ==
  /\ WF_vars(ThreadStep) /\ WF_vars(Deadline)
  /\ \A p \in Paths : /\ WF_vars(Respond(p)) /\ WF_vars(StartRun(p))
                      /\ WF_vars(EndRun(p)) /\ WF_vars(Boot(p))

FairSpec == Spec /\ Fairness

-----------------------------------------------------------------------------
TypeOK ==
  /\ inst \in [Paths -> Instance]
  /\ open \in [Paths -> BOOLEAN]
  /\ wire \in [Paths -> Seq(Command)] /\ orphans \in [Paths -> [Effective -> Nat]]
  /\ replies \in [Paths -> Seq(Reply)]
  /\ thread \in Thread
  /\ locked \in BOOLEAN
  /\ recorded \in [Paths -> Nat]
  /\ client \in [Paths -> BOOLEAN] /\ failures \in [Paths -> Nat]
  /\ DOMAIN sizes \subseteq Paths /\ \A p \in DOMAIN sizes : sizes[p] \in Nat
  /\ plan \subseteq Paths
  /\ todo \in Seq(Captures) /\ job \in Captures \cup {NoCapture}
  /\ verdict \in [Captures -> {"none", "submitted", "failed", "dropped"}]
  /\ acted \in [Captures -> Nat]
  /\ plain \subseteq Captures /\ faults \in Nat

(* What is on a connection is the command the thread waits for and nothing *)
(* else: an answer that comes late is never taken for the next one's       *)
(* ("a late reply could still arrive, so close the socket").               *)
AnswersMatch ==
  \A p \in Paths :
    LET inFlight == {wire[p][i] : i \in DOMAIN wire[p]} \cup {replies[p][i].to : i \in DOMAIN replies[p]}
    IN  /\ Len(wire[p]) + Len(replies[p]) <= 1
        /\ inFlight # {} => /\ thread.path = p
                            /\ thread.at = "connect" \/ (thread.at = "recv" /\ inFlight = {Now})

(* The same, of the answer the thread is about to take.                    *)
OwnAnswers ==
  thread.at = "recv" /\ replies[thread.path] # <<>> => Head(replies[thread.path]).to = Now

(* An instance on record is one that has, since it started, run a capture  *)
(* and reloaded its rules afterwards (_ensure_rules_reloaded: the identity *)
(* is read before the reload, the connection outlives no instance).        *)
RecordIsTrue ==
  \A p \in Paths : inst[p].up /\ recorded[p] = inst[p].boot => inst[p].meta

(* As long as nothing fails, every capture is run with rule metadata.      *)
RunWithMetadata == faults = 0 => plain = {}

(* The worker implements SubmitPromise: among others, no capture is run    *)
(* twice ("Once such a command has been sent, it isn't sent again",        *)
(* _send_command).                                                         *)
Promise == INSTANCE SubmitPromise
KeepsPromise == Promise!Spec

(* Every capture announced is reported on or dropped in the end: no retry, *)
(* reconnection or warm-up goes on for ever, and the thread never waits    *)
(* for the lock it holds (retries=1 in _warm_up, _is_idle, reload_rules).  *)
EveryCaptureEnds == \A c \in Captures : Announced(c) ~> verdict[c] # "none"
=============================================================================
