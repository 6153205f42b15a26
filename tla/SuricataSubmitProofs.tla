------------------------- MODULE SuricataSubmitProofs -------------------------
(***************************************************************************)
(* What the Suricata worker can rely on, for any sockets, captures, tries  *)
(* and faults.  Whatever is late: a capture is run at most once and        *)
(* reported on at most once, a call ends, and the thread never stands      *)
(* still in one.  As long as no handshake of a last attempt is late, an    *)
(* answer is that of its command, a capture reported as submitted has been *)
(* taken by an instance, and the record of warmed-up instances is true.    *)
(* As long as nothing fails, every capture is run with rule metadata.      *)
(*                                                                         *)
(* CallInv: types, and how the phases of a call go together.  On it rests  *)
(* OnceInv, which counts the commands of a capture that are yet to be      *)
(* acted on.  ConnInv: a connection carries the command the thread waits   *)
(* for or nothing; on it rest RecordInv (what the thread knows under the   *)
(* lock of the instance it looked at) and Undisturbed (nothing failed).    *)
(***************************************************************************)

EXTENDS SuricataSubmit, FiniteSetTheorems, TLAPS

Calling == {"send", "recv", "connect", "stat", "lock"}
Outer   == {"size", "pcap"}

\* How the phases of a call, the command and the lock go together.
Shape ==
  /\ thread.at \in Calling => thread.path \in Paths
  /\ thread.outer # "none" => thread.at \in Calling
  /\ thread.at = "choose" \/ thread.outer # "none" => job \in Captures
  /\ thread.at \in {"connect", "stat", "lock"} => thread.kind = "hello"
  /\ thread.at = "send" => thread.kind # "hello"
  /\ thread.at \in {"send", "recv"} /\ thread.kind \in Outer =>
       thread.outer = thread.kind /\ ~thread.sent
  /\ locked <=> thread.at \in {"send", "recv"} /\ thread.kind \in Inner

Pcap(c) == [kind |-> "pcap", cap |-> c]

Quiet(p) == wire[p] = <<>> /\ replies[p] = <<>>
Asked(p) == wire[p] = <<Now>> /\ replies[p] = <<>> /\ open[p]
ReplyIs(p, ok, n) == wire[p] = <<>> /\ replies[p] = <<[to |-> Now, ok |-> ok, n |-> n]>>
Told(p)    == \E ok \in BOOLEAN, n \in Nat : ReplyIs(p, ok, n)

\* The thread waits for an answer, or is about to give the connection up for
\* another one.
Waiting(p) == thread.at \in {"recv", "connect"} /\ thread.path = p

CallInv == TypeOK /\ Shape

ConnInv ==
  \A p \in Paths :
    /\ open[p] => inst[p].up
    /\ Quiet(p) \/ (Waiting(p) /\ (Asked(p) \/ Told(p)))

BaseInv == TypeOK /\ Shape /\ ConnInv

-----------------------------------------------------------------------------
(* How a call ends.                                                        *)

Resent == [At("send") EXCEPT !.path = thread.path, !.kind = thread.outer,
                             !.outer = thread.outer, !.tries = thread.tries]

\* The thread has left the connection, or asks its question again.
Ended ==
  \/ thread.outer = "size" /\ Sized(SizeError)
  \/ thread.outer = "pcap" /\ Submitted(FALSE)
  \/ thread.outer = "none" /\ \E ok \in BOOLEAN : Constructed(ok)
  \/ thread.outer # "none" /\ (thread.outer = "pcap" => ~thread.sent) /\ Goto(Resent)

LEMMA ThreadFields ==
  ASSUME thread \in Thread
  PROVE  /\ thread.at \in Phases /\ thread.path \in Paths \cup {"none"} /\ thread.kind \in Kinds
         /\ thread.outer \in {"none", "size", "pcap"} /\ thread.sent \in BOOLEAN
         /\ thread.tries \in Nat /\ thread.connects \in Nat /\ thread.id \in Nat
         /\ thread.idle \in Nat /\ thread.quiet \in BOOLEAN /\ thread.late \in BOOLEAN
BY DEF Thread

LEMMA GiveUpEnds ==
  ASSUME TypeOK, GiveUp
  PROVE  Ended
BY ThreadFields DEF GiveUp, Ended, TypeOK

LEMMA ConnectedEnds ==
  ASSUME TypeOK, Connected
  PROVE  Ended
BY ThreadFields, GiveUpEnds DEF Connected, Ended, TypeOK, Resends, Resent

Retried(sent) ==
  Goto([thread EXCEPT !.at = "connect", !.kind = "hello", !.sent = sent,
                      !.tries = @ + 1, !.connects = 0])

LEMMA FailedCases ==
  ASSUME TypeOK, NEW sent \in BOOLEAN, Failed(sent)
  PROVE  \/ /\ thread.kind = "hello" /\ NotConnected
            /\ UNCHANGED <<connVars, locked, recorded>>
         \/ /\ thread.kind \in Inner /\ EnsureStep(FALSE, 0)
            /\ ClosedIf(thread.path, sent)
         \/ /\ thread.kind \in Outer /\ GiveUp
            /\ ClosedIf(thread.path, sent) /\ UNCHANGED <<locked, recorded>>
         \/ /\ thread.kind \in Outer /\ Retried(sent)
            /\ Closed(thread.path) /\ UNCHANGED <<locked, recorded>>
<1>1. thread.kind \in Kinds /\ thread.tries \in Nat
  BY ThreadFields DEF TypeOK
<1>2. thread.kind = "hello" \/ thread.kind \in Inner \/ thread.kind \in Outer
  BY <1>1 DEF Kinds, Inner, Outer
<1>3. CASE thread.kind = "hello"
  BY <1>3 DEF Failed
<1>4. CASE thread.kind \in Inner
  <2>1. thread.tries + 1 >= Retries(thread.kind) /\ thread.kind # "hello"
    BY <1>1, <1>4 DEF Retries, Inner
  <2>2. NoResponse /\ ClosedIf(thread.path, sent)
    BY <2>1, Zenon DEF Failed
  <2> QED BY <1>4, <2>2, Zenon DEF NoResponse
<1>5. CASE thread.kind \in Outer
  <2>1. thread.kind # "hello" /\ thread.kind \notin Inner
    BY <1>5 DEF Inner, Outer
  <2>2. \/ NoResponse /\ ClosedIf(thread.path, sent)
        \/ Retried(sent) /\ Closed(thread.path) /\ UNCHANGED <<locked, recorded>>
    BY <2>1, Zenon DEF Failed, Retried
  <2>3. NoResponse => GiveUp /\ UNCHANGED <<locked, recorded>>
    BY <2>1, Zenon DEF NoResponse
  <2> QED BY <1>5, <2>2, <2>3, Zenon
<1> QED BY <1>2, <1>3, <1>4, <1>5

LEMMA NotConnectedCases ==
  ASSUME TypeOK, NotConnected
  PROVE  \/ Ended
         \/ Goto([thread EXCEPT !.at = "connect", !.kind = "hello", !.connects = @ + 1])
BY GiveUpEnds DEF NotConnected

\* The next question under the lock.
Asks(kind, idle, quiet) ==
  Goto([thread EXCEPT !.at = "send", !.kind = kind, !.idle = idle, !.quiet = quiet])

LEMMA EnsureCases ==
  ASSUME TypeOK, NEW ok \in BOOLEAN, NEW n \in Nat, EnsureStep(ok, n), thread.kind \in Inner
  PROVE  \/ /\ Ended /\ locked' = FALSE /\ (thread.kind = "reload" \/ ~ok)
            /\ \/ recorded' = recorded
               \/ /\ thread.kind = "reload" /\ ok
                  /\ recorded' = [recorded EXCEPT ![thread.path] = thread.id]
         \/ /\ UNCHANGED <<locked, recorded>>
            /\ \/ thread.kind = "warm" /\ ok /\ Asks("current", thread.idle, thread.quiet)
               \/ thread.kind = "current" /\ Asks("number", thread.idle, ok /\ n = 0)
               \/ /\ thread.kind = "number" /\ thread.quiet /\ ok /\ n = 0
                  /\ \E k \in {"current", "reload"} :
                       (k = "reload" => thread.idle >= 1) /\ Asks(k, thread.idle + 1, FALSE)
               \/ thread.kind = "number" /\ Asks("current", 0, FALSE)
<1> USE ThreadFields DEF TypeOK
<1>1. CASE thread.kind = "warm"
  <2>1. Ask("current") => Asks("current", thread.idle, thread.quiet)
    BY DEF Ask, Asks, Goto, Thread
  <2> QED BY <1>1, <2>1, ConnectedEnds DEF EnsureStep, Ensured
<1>2. CASE thread.kind = "current"
  BY <1>2 DEF EnsureStep, Asks, Goto, Thread
<1>3. CASE thread.kind = "number"
  <2> DEFINE seen == thread.quiet /\ ok /\ n = 0
             idle == IF seen THEN thread.idle + 1 ELSE 0
             next == IF idle >= 2 THEN "reload" ELSE "current"
  <2>1. Asks(next, idle, FALSE) /\ UNCHANGED <<locked, recorded>>
    <3>1. Goto([thread EXCEPT !.at = "send", !.idle = idle, !.quiet = FALSE, !.kind = next])
          /\ UNCHANGED <<locked, recorded>>
      BY <1>3 DEF EnsureStep, IdleEnough
    <3>2. [thread EXCEPT !.at = "send", !.idle = idle, !.quiet = FALSE, !.kind = next]
            = [thread EXCEPT !.at = "send", !.kind = next, !.idle = idle, !.quiet = FALSE]
      BY DEF Thread
    <3> QED BY <3>1, <3>2 DEF Asks
  <2>2. CASE seen
    <3>1. idle = thread.idle + 1 /\ next \in {"current", "reload"}
          /\ (next = "reload" => thread.idle >= 1)
      BY <2>2
    <3> QED BY <1>3, <2>1, <2>2, <3>1
  <2>3. CASE ~seen
    <3>1. idle = 0 /\ next = "current"
      BY <2>3
    <3>2. Asks("current", 0, FALSE) /\ UNCHANGED <<locked, recorded>>
      BY ONLY <2>1, <3>1
    <3> QED BY <1>3, <3>2
  <2> QED BY <2>2, <2>3
<1>4. CASE thread.kind = "reload"
  BY <1>4, ConnectedEnds DEF EnsureStep, Ensured
<1> QED BY <1>1, <1>2, <1>3, <1>4 DEF Inner

JobTypes ==
  /\ thread \in Thread
  /\ client \in [Paths -> BOOLEAN] /\ failures \in [Paths -> Nat]
  /\ DOMAIN sizes \subseteq Paths /\ \A p \in DOMAIN sizes : sizes[p] \in Nat
  /\ plan \subseteq Paths /\ job \in Captures \cup {NoCapture}
  /\ verdict \in [Captures -> {"none", "submitted", "failed", "dropped"}]

LEMMA AtFields ==
  ASSUME NEW phase \in Phases
  PROVE  /\ At(phase) \in Thread /\ At(phase).at = phase /\ At(phase).outer = "none"
         /\ At(phase).kind = "hello" /\ At(phase).path = "none" /\ ~At(phase).sent
         /\ ~At(phase).late
BY DEF At, Thread, Kinds

LEMMA SizedShape ==
  ASSUME TypeOK, Shape, NEW n \in Nat, Sized(n), thread.outer = "size", ~locked'
  PROVE  JobTypes' /\ Shape' /\ thread' = At("choose")
<1>1. thread.path \in Paths /\ job \in Captures
  BY DEF Shape
<1>2. At("choose") \in Thread /\ At("choose").at = "choose" /\ At("choose").outer = "none"
  BY AtFields DEF Phases
<1>3. /\ thread' = At("choose") /\ job' = job /\ plan' = plan /\ client' = client
      /\ failures' = failures /\ verdict' = verdict
      /\ sizes' = [q \in DOMAIN sizes \cup {thread.path} |-> IF q = thread.path THEN n ELSE sizes[q]]
  BY DEF Sized, jobVars
<1>4. JobTypes'
  BY <1>1, <1>2, <1>3 DEF TypeOK, JobTypes
<1>5. Shape'
  BY <1>1, <1>2, <1>3 DEF Shape, Calling
<1> QED BY <1>3, <1>4, <1>5

LEMMA SubmittedShape ==
  ASSUME TypeOK, Shape, NEW ok \in BOOLEAN, Submitted(ok), thread.outer = "pcap", ~locked'
  PROVE  JobTypes' /\ Shape' /\ thread' = At("done")
<1>1. thread.path \in Paths /\ job \in Captures
  BY DEF Shape
<1>2. At("done") \in Thread /\ At("done").at = "done" /\ At("done").outer = "none"
  BY AtFields DEF Phases
<1>3. /\ thread' = At("done") /\ job' = NoCapture /\ plan' = plan /\ client' = client
      /\ sizes' = NoSizes
      /\ failures' = [failures EXCEPT ![thread.path] = IF ok THEN 0 ELSE @ + 1]
      /\ verdict' = [verdict EXCEPT ![job] = IF ok THEN "submitted" ELSE "failed"]
  BY DEF Submitted
<1>4. JobTypes'
  BY <1>1, <1>2, <1>3 DEF TypeOK, JobTypes, NoSizes
<1>5. Shape'
  BY <1>1, <1>2, <1>3 DEF Shape, Calling
<1> QED BY <1>3, <1>4, <1>5

LEMMA ConstructedShape ==
  ASSUME TypeOK, Shape, NEW ok \in BOOLEAN, Constructed(ok), thread.at \in Calling, ~locked'
  PROVE  JobTypes' /\ Shape' /\ thread' = At("refresh")
<1>1. thread.path \in Paths
  BY DEF Shape
<1>2. At("refresh") \in Thread /\ At("refresh").at = "refresh" /\ At("refresh").outer = "none"
  BY AtFields DEF Phases
<1>3. /\ thread' = At("refresh") /\ job' = job /\ plan' = plan \ {thread.path}
      /\ sizes' = sizes /\ verdict' = verdict
      /\ client' = [client EXCEPT ![thread.path] = ok]
      /\ failures' = [failures EXCEPT ![thread.path] = 0]
  BY DEF Constructed
<1>4. JobTypes'
  BY <1>1, <1>2, <1>3 DEF TypeOK, JobTypes
<1>5. Shape'
  BY <1>1, <1>2, <1>3 DEF Shape, Calling
<1> QED BY <1>3, <1>4, <1>5

LEMMA ResentShape ==
  ASSUME TypeOK, Shape, Goto(Resent), thread.outer # "none", ~locked'
  PROVE  JobTypes' /\ Shape' /\ thread'.at = "send"
<1>1. thread.path \in Paths /\ job \in Captures /\ thread.outer \in Outer
  BY ThreadFields DEF Shape, TypeOK, Outer
<1>2. /\ Resent \in Thread /\ Resent.at = "send" /\ Resent.outer = thread.outer
      /\ Resent.kind = thread.outer /\ ~Resent.sent /\ Resent.path = thread.path
  BY <1>1, ThreadFields DEF Resent, At, Thread, Phases, Kinds, TypeOK, Outer
<1>3. thread' = Resent /\ UNCHANGED <<sizes, plan, client, failures, job, verdict>>
  BY DEF Goto, jobVars
<1>4. JobTypes'
  BY <1>2, <1>3 DEF TypeOK, JobTypes
<1>5. Shape'
  BY <1>1, <1>2, <1>3 DEF Shape, Calling, Outer, Inner
<1> QED BY <1>2, <1>3, <1>4, <1>5

LEMMA EndedShape ==
  ASSUME TypeOK, Shape, Ended, thread.at \in Calling, ~locked'
  PROVE  JobTypes' /\ Shape' /\ thread'.at \in {"choose", "done", "refresh", "send"}
<1>1. At("choose").at = "choose" /\ At("done").at = "done" /\ At("refresh").at = "refresh"
  BY DEF At
<1>2. CASE thread.outer = "size" /\ Sized(SizeError)
  <2>1. SizeError \in Nat
    BY DEF SizeError
  <2> QED BY <1>1, <1>2, <2>1, SizedShape
<1>3. CASE thread.outer = "pcap" /\ Submitted(FALSE)
  BY <1>1, <1>3, SubmittedShape
<1>4. CASE \E ok \in BOOLEAN : Constructed(ok)
  BY <1>1, <1>4, ConstructedShape
<1>5. CASE thread.outer # "none" /\ Goto(Resent)
  BY <1>5, ResentShape
<1> QED BY <1>2, <1>3, <1>4, <1>5, Zenon DEF Ended

-----------------------------------------------------------------------------
(* The connections.                                                        *)

ConnTypes ==
  /\ open \in [Paths -> BOOLEAN]
  /\ wire \in [Paths -> Seq(Command)] /\ orphans \in [Paths -> [Effective -> Nat]]
  /\ replies \in [Paths -> Seq(Reply)]
RestTypes ==
  /\ inst \in [Paths -> Instance] /\ todo \in Seq(Captures)
  /\ acted \in [Captures -> Nat] /\ plain \subseteq Captures /\ faults \in Nat
LockTypes == locked \in BOOLEAN /\ recorded \in [Paths -> Nat]

LEMMA TypeParts ==
  ASSUME JobTypes', ConnTypes', RestTypes', LockTypes'
  PROVE  TypeOK'
BY DEF TypeOK, JobTypes, ConnTypes, RestTypes, LockTypes

LEMMA UnreadType ==
  ASSUME TypeOK, NEW p \in Paths
  PROVE  Unread(p) \in [Effective -> Nat]
<1> SUFFICES ASSUME NEW c \in Effective
             PROVE  orphans[p][c] + Cardinality({i \in DOMAIN wire[p] : wire[p][i] = c}) \in Nat
  BY DEF Unread
<1>1. IsFiniteSet(1 .. Len(wire[p]))
  BY FS_Interval DEF TypeOK
<1>2. IsFiniteSet({i \in DOMAIN wire[p] : wire[p][i] = c})
  BY <1>1, FS_Subset DEF TypeOK
<1> QED BY <1>2, FS_CardinalityType DEF TypeOK

LEMMA StillConn ==
  ASSUME TypeOK, UNCHANGED connVars
  PROVE  ConnTypes'
BY DEF TypeOK, ConnTypes, connVars

LEMMA FailedCloses ==
  ASSUME TypeOK, NEW sent \in BOOLEAN, Failed(sent)
  PROVE  Closed(thread.path) \/ UNCHANGED connVars
BY FailedCases DEF ClosedIf

LEMMA FailedConn ==
  ASSUME TypeOK, thread.path \in Paths, NEW sent \in BOOLEAN, Failed(sent)
  PROVE  ConnTypes'
<1>1. Closed(thread.path) => ConnTypes'
  BY UnreadType DEF TypeOK, ConnTypes, Closed
<1> QED BY <1>1, FailedCloses, StillConn

\* A pcap command is about a capture.
LEMMA CommandIs ==
  ASSUME NEW c \in Command
  PROVE  /\ c.kind \in Kinds /\ c.cap \in Captures \cup {NoCapture}
         /\ c.kind = "pcap" => c.cap \in Captures /\ c = Pcap(c.cap) /\ c \in Effective
BY DEF Command, Kinds, Pcap, Effective

LEMMA NowIs ==
  ASSUME CallInv, thread.at \in {"send", "recv", "connect"}
  PROVE  /\ Now \in Command /\ Now.kind = thread.kind
         /\ thread.kind = "pcap" => Now = Pcap(job) /\ job \in Captures
         /\ thread.kind # "pcap" => Now.cap = NoCapture
<1>1. thread.kind \in Kinds /\ job \in Captures \cup {NoCapture}
  BY ThreadFields DEF CallInv, TypeOK
<1>2. thread.kind = "pcap" => job \in Captures
  BY DEF CallInv, Shape, Outer
<1> QED BY <1>1, <1>2 DEF Now, Command, Pcap

-----------------------------------------------------------------------------
(* Types and Shape are kept.                                               *)

LEMMA GotoJobs ==
  ASSUME TypeOK, NEW t \in Thread, Goto(t)
  PROVE  JobTypes' /\ thread' = t /\ job' = job
BY DEF Goto, jobVars, TypeOK, JobTypes

LEMMA NotConnectedShape ==
  ASSUME TypeOK, Shape, NotConnected, thread.at \in Calling, ~locked'
  PROVE  JobTypes' /\ Shape'
<1> DEFINE n == thread.connects + 1
           t == [thread EXCEPT !.at = "connect", !.kind = "hello", !.connects = n]
<1>1. CASE Ended
  BY <1>1, EndedShape
<1>2. CASE Goto(t)
  <2>1. thread \in Thread /\ n \in Nat
    BY ThreadFields DEF TypeOK
  <2> HIDE DEF n
  <2>2. t \in Thread /\ t.at = "connect" /\ t.kind = "hello" /\ t.path = thread.path
        /\ t.outer = thread.outer
    BY <2>1 DEF Thread, Phases, Kinds
  <2>3. JobTypes' /\ thread' = t /\ job' = job
    BY <1>2, <2>2, GotoJobs
  <2>4. Shape'
    BY <2>2, <2>3 DEF Shape, Calling
  <2> QED BY <2>3, <2>4
<1> QED BY <1>1, <1>2, NotConnectedCases

LEMMA RetriedShape ==
  ASSUME TypeOK, Shape, NEW sent \in BOOLEAN, Retried(sent), thread.at \in Calling, ~locked'
  PROVE  JobTypes' /\ Shape'
<1> DEFINE n == thread.tries + 1
           t == [thread EXCEPT !.at = "connect", !.kind = "hello", !.sent = sent,
                               !.tries = n, !.connects = 0]
<1>1. thread \in Thread /\ n \in Nat /\ Goto(t)
  BY ThreadFields DEF TypeOK, Retried
<1> HIDE DEF n
<1>2. t \in Thread /\ t.at = "connect" /\ t.kind = "hello" /\ t.path = thread.path
      /\ t.outer = thread.outer
  BY <1>1 DEF Thread, Phases, Kinds
<1>3. JobTypes' /\ thread' = t /\ job' = job
  BY <1>1, <1>2, GotoJobs
<1>4. Shape'
  BY <1>2, <1>3 DEF Shape, Calling
<1> QED BY <1>3, <1>4

LEMMA AsksShape ==
  ASSUME TypeOK, Shape, NEW k \in Inner, NEW idle \in Nat, NEW quiet \in BOOLEAN,
         Asks(k, idle, quiet), thread.at \in Calling, locked'
  PROVE  JobTypes' /\ Shape'
<1> DEFINE t == [thread EXCEPT !.at = "send", !.kind = k, !.idle = idle, !.quiet = quiet]
<1>1. t \in Thread /\ t.at = "send" /\ t.kind = k /\ t.path = thread.path
      /\ t.outer = thread.outer
  BY ThreadFields DEF Thread, Phases, Kinds, TypeOK, Inner
<1>2. JobTypes' /\ thread' = t /\ job' = job
  BY <1>1, GotoJobs DEF Asks
<1>3. Shape'
  BY <1>1, <1>2 DEF Shape, Calling, Inner, Outer
<1> QED BY <1>2, <1>3

LEMMA EnsureShape ==
  ASSUME TypeOK, Shape, NEW ok \in BOOLEAN, NEW n \in Nat, EnsureStep(ok, n),
         thread.at \in {"send", "recv"}, thread.kind \in Inner
  PROVE  JobTypes' /\ Shape' /\ LockTypes'
<1>1. locked /\ thread.at \in Calling
  BY DEF Shape, Calling
<1>2. CASE Ended /\ locked' = FALSE
           /\ (recorded' = recorded \/ recorded' = [recorded EXCEPT ![thread.path] = thread.id])
  BY <1>1, <1>2, EndedShape, ThreadFields DEF LockTypes, TypeOK
<1>3. CASE /\ UNCHANGED <<locked, recorded>>
           /\ \E k \in Inner, idle \in Nat, quiet \in BOOLEAN : Asks(k, idle, quiet)
  BY <1>1, <1>3, AsksShape DEF LockTypes, TypeOK
<1>4. thread.idle \in Nat /\ thread.idle + 1 \in Nat /\ thread.quiet \in BOOLEAN /\ (n = 0) \in BOOLEAN
  BY ThreadFields DEF TypeOK
<1>5. {"current", "number", "reload"} \subseteq Inner
  BY DEF Inner
<1>6. (ok /\ n = 0) \in BOOLEAN
  OBVIOUS
<1> QED BY <1>2, <1>3, <1>4, <1>5, <1>6, EnsureCases

LEMMA FailedCall ==
  ASSUME CallInv, NEW sent \in BOOLEAN, Failed(sent), thread.at \in {"send", "recv"},
         UNCHANGED <<inst, todo, acted, plain>>, faults' \in Nat
  PROVE  CallInv'
<1>0. TypeOK /\ Shape
  BY DEF CallInv
<1>1. thread.path \in Paths /\ thread.at \in Calling
  BY <1>0 DEF Shape, Calling
<1>2. RestTypes' /\ ConnTypes'
  BY <1>0, <1>1, FailedConn DEF TypeOK, RestTypes
<1>3. CASE /\ thread.kind = "hello" /\ NotConnected
           /\ UNCHANGED <<connVars, locked, recorded>>
  <2>1. ~locked'
    BY <1>0, <1>3 DEF Shape, Inner
  <2>2. LockTypes'
    BY <1>0, <1>3 DEF LockTypes, TypeOK
  <2> QED BY <1>0, <1>1, <1>2, <1>3, <2>1, <2>2, NotConnectedShape, TypeParts DEF CallInv
<1>4. CASE thread.kind \in Inner /\ EnsureStep(FALSE, 0)
  BY <1>0, <1>2, <1>4, EnsureShape, TypeParts DEF CallInv
<1>5. CASE thread.kind \in Outer /\ UNCHANGED <<locked, recorded>> /\ (GiveUp \/ Retried(sent))
  <2>1. ~locked'
    BY <1>0, <1>5 DEF Shape, Inner, Outer
  <2>2. JobTypes' /\ Shape'
    BY <1>0, <1>1, <1>5, <2>1, GiveUpEnds, EndedShape, RetriedShape
  <2>3. LockTypes'
    BY <1>0, <1>5 DEF LockTypes, TypeOK
  <2> QED BY <1>2, <2>2, <2>3, TypeParts DEF CallInv
<1>7. \/ /\ thread.kind = "hello" /\ NotConnected
         /\ UNCHANGED <<connVars, locked, recorded>>
      \/ /\ thread.kind \in Inner /\ EnsureStep(FALSE, 0)
         /\ ClosedIf(thread.path, sent)
      \/ /\ thread.kind \in Outer /\ GiveUp
         /\ ClosedIf(thread.path, sent) /\ UNCHANGED <<locked, recorded>>
      \/ /\ thread.kind \in Outer /\ Retried(sent)
         /\ Closed(thread.path) /\ UNCHANGED <<locked, recorded>>
  BY <1>0, FailedCases
<1> QED BY <1>3, <1>4, <1>5, <1>7, Zenon

LEMMA PopCall ==
  ASSUME CallInv, Pop
  PROVE  CallInv'
<1>1. TypeOK /\ Shape /\ thread.at = "idle"
  BY DEF CallInv, Pop
<1>2. Head(todo) \in Captures /\ Tail(todo) \in Seq(Captures)
  BY <1>1 DEF Pop, TypeOK
<1>3. /\ thread' \in Thread /\ thread'.at \in {"choose", "done"} /\ thread'.outer = "none"
      /\ (thread'.at = "choose" => job' = Head(todo))
  BY AtFields DEF Pop, Phases
<1>4. JobTypes' /\ RestTypes' /\ LockTypes'
  BY <1>1, <1>2, <1>3 DEF Pop, TypeOK, JobTypes, RestTypes, LockTypes
<1>5. Shape'
  BY <1>1, <1>2, <1>3 DEF Pop, Shape, Calling
<1>6. ConnTypes'
  BY <1>1, StillConn DEF Pop
<1> QED BY <1>4, <1>5, <1>6, TypeParts DEF CallInv

LEMMA CallCall ==
  ASSUME CallInv, NEW p \in Paths, NEW k \in Outer, thread.at = "choose",
         Call(p, k), sizes' = sizes
  PROVE  CallInv'
<1>1. TypeOK /\ Shape
  BY DEF CallInv
<1>2. /\ thread' \in Thread /\ thread'.at = "send" /\ thread'.outer = k /\ thread'.kind = k
      /\ ~thread'.sent /\ thread'.path = p
  BY DEF Call, At, Thread, Phases, Kinds, Outer
<1>3. JobTypes' /\ RestTypes' /\ LockTypes'
  BY <1>1, <1>2 DEF Call, TypeOK, JobTypes, RestTypes, LockTypes, jobVars
<1>4. Shape'
  BY <1>1, <1>2 DEF Call, Shape, Calling, Outer, Inner, jobVars
<1>5. ConnTypes'
  BY <1>1, StillConn DEF Call
<1> QED BY <1>3, <1>4, <1>5, TypeParts DEF CallInv

\* What Send does when the client is connected.
Sends ==
  /\ wire' = [wire EXCEPT ![thread.path] = Append(@, Now)]
  /\ thread' = [thread EXCEPT !.at = "recv"]
  /\ UNCHANGED <<open, orphans, replies, locked, recorded, sizes, plan, jobVars>>

LEMMA SendCall ==
  ASSUME CallInv, Send
  PROVE  /\ CallInv' /\ thread.at = "send" /\ thread.path \in Paths
         /\ UNCHANGED <<inst, todo, acted, plain, faults>>
         /\ \/ open[thread.path] /\ Sends /\ Now' = Now
            \/ ~open[thread.path] /\ Failed(FALSE)
<1>1. /\ TypeOK /\ Shape /\ thread.at = "send" /\ thread.path \in Paths
      /\ UNCHANGED <<inst, todo, acted, plain, faults>>
  BY DEF CallInv, Send, Shape, Calling
<1>2. CASE open[thread.path]
  <2>1. Sends
    BY <1>2 DEF Send, Sends
  <2>2. thread' \in Thread /\ thread'.at = "recv" /\ thread'.kind = thread.kind
        /\ thread'.path = thread.path /\ thread'.outer = thread.outer /\ thread'.sent = thread.sent
    BY <1>1, <2>1 DEF TypeOK, Thread, Phases, Sends
  <2>3. Now \in Command /\ Now' = Now
    BY <1>1, <2>1, <2>2, NowIs DEF Now, jobVars, Sends
  <2>4. JobTypes' /\ RestTypes' /\ LockTypes'
    BY <1>1, <2>1, <2>2 DEF TypeOK, JobTypes, RestTypes, LockTypes, jobVars, Sends
  <2>5. Shape'
    BY <1>1, <2>1, <2>2 DEF Shape, Calling, jobVars, Sends
  <2>6. ConnTypes'
    BY <1>1, <2>1, <2>3 DEF TypeOK, ConnTypes, Sends
  <2> QED BY <1>1, <1>2, <2>1, <2>3, <2>4, <2>5, <2>6, TypeParts DEF CallInv
<1>3. CASE ~open[thread.path]
  <2>1. Failed(FALSE)
    BY <1>3 DEF Send
  <2> QED BY <1>1, <1>3, <2>1, FailedCall DEF TypeOK
<1> QED BY <1>2, <1>3

LEMMA WarmUpEndsCall ==
  ASSUME CallInv, WarmUpEnds
  PROVE  CallInv'
<1>1. TypeOK /\ Shape /\ thread.at = "send" /\ thread.at \in Calling
  BY DEF CallInv, WarmUpEnds, Calling
<1>2. Ended /\ locked' = FALSE
  BY <1>1, ConnectedEnds DEF WarmUpEnds, Ensured
<1>3. JobTypes' /\ Shape'
  BY <1>1, <1>2, EndedShape
<1>4. RestTypes' /\ LockTypes'
  BY <1>1, <1>2 DEF WarmUpEnds, TypeOK, RestTypes, LockTypes
<1>5. ConnTypes'
  BY <1>1, StillConn DEF WarmUpEnds
<1> QED BY <1>3, <1>4, <1>5, TypeParts DEF CallInv

\* An instance that is there and gives no answer is a fault.
LEMMA NoAnswerFacts ==
  ASSUME TypeOK, NoAnswer
  PROVE  /\ Failed(TRUE) /\ thread.at = "recv" /\ replies[thread.path] = <<>>
         /\ UNCHANGED <<inst, todo, acted, plain>> /\ faults' \in Nat
         /\ (faults' = faults \/ faults' = 0) => ~open[thread.path]
<1>1. /\ Failed(TRUE) /\ thread.at = "recv" /\ replies[thread.path] = <<>>
      /\ UNCHANGED <<inst, todo, acted, plain>>
  BY Zenon DEF NoAnswer
<1>2. CASE open[thread.path]
  <2>1. Fault
    BY <1>2, Zenon DEF NoAnswer
  <2>2. faults' = faults + 1 /\ faults \in Nat
    BY <2>1 DEF Fault, TypeOK
  <2>3. faults' \in Nat /\ faults' # faults /\ faults' # 0
    BY <2>2
  <2> QED BY <1>1, <2>3, Zenon
<1>3. CASE ~open[thread.path]
  <2>1. NoFault
    BY <1>3, Zenon DEF NoAnswer
  <2>2. faults' \in Nat
    BY <2>1 DEF NoFault, TypeOK
  <2> QED BY <1>1, <1>3, <2>2, Zenon
<1> QED BY <1>2, <1>3

LEMMA NoAnswerCall ==
  ASSUME CallInv, NoAnswer
  PROVE  CallInv'
BY NoAnswerFacts, FailedCall DEF CallInv

LEMMA StatCall ==
  ASSUME CallInv, Stat
  PROVE  CallInv'
<1>1. TypeOK /\ Shape /\ thread.at = "stat" /\ thread.at \in Calling /\ thread.path \in Paths
  BY DEF CallInv, Stat, Calling, Shape
<1>2. ~locked /\ ~locked'
  BY <1>1 DEF Stat, Shape, Inner
<1>3. RestTypes' /\ LockTypes'
  BY <1>1, <1>2 DEF Stat, TypeOK, RestTypes, LockTypes
<1>4. ConnTypes'
  BY <1>1, StillConn DEF Stat
<1>5. JobTypes' /\ Shape'
  <2>1. CASE Goto([thread EXCEPT !.at = "lock", !.id = inst[thread.path].boot])
    <3> DEFINE t == [thread EXCEPT !.at = "lock", !.id = inst[thread.path].boot]
    <3>1. inst[thread.path].boot \in Nat /\ thread \in Thread
      BY <1>1 DEF TypeOK, Instance
    <3>2. t \in Thread /\ t.at = "lock" /\ t.kind = "hello" /\ t.path = thread.path
          /\ t.outer = thread.outer
      BY <1>1, <3>1 DEF Shape, Thread, Phases
    <3>3. JobTypes' /\ thread' = t /\ job' = job
      BY <1>1, <2>1, <3>2, GotoJobs
    <3> QED BY <1>1, <1>2, <3>2, <3>3 DEF Shape, Calling
  <2>2. CASE Connected
    BY <1>1, <1>2, <2>2, ConnectedEnds, EndedShape
  <2> QED BY <2>1, <2>2 DEF Stat
<1> QED BY <1>3, <1>4, <1>5, TypeParts DEF CallInv

LEMMA AcquireCall ==
  ASSUME CallInv, Acquire
  PROVE  CallInv'
<1>1. TypeOK /\ Shape /\ thread.at = "lock" /\ thread.at \in Calling /\ ~locked
  BY DEF CallInv, Acquire, Calling
<1>2. ConnTypes'
  BY <1>1, StillConn DEF Acquire
<1>3. RestTypes'
  BY <1>1 DEF Acquire, TypeOK, RestTypes
<1>4. JobTypes' /\ Shape' /\ LockTypes'
  <2>1. CASE Connected /\ UNCHANGED locked
    BY <1>1, <2>1, ConnectedEnds, EndedShape DEF Acquire, LockTypes, TypeOK
  <2>2. CASE Ask("warm") /\ locked' = TRUE
    <3>1. thread.idle \in Nat /\ thread.quiet \in BOOLEAN /\ "warm" \in Inner
      BY <1>1, ThreadFields DEF TypeOK, Inner
    <3>2. Asks("warm", thread.idle, thread.quiet)
      BY <1>1, <2>2 DEF Ask, Asks, Goto, TypeOK, Thread
    <3> QED BY <1>1, <2>2, <3>1, <3>2, AsksShape DEF Acquire, LockTypes, TypeOK
  <2> QED BY <2>1, <2>2 DEF Acquire
<1> QED BY <1>2, <1>3, <1>4, TypeParts DEF CallInv

LEMMA IdleThreadCall ==
  ASSUME CallInv, Refresh \/ NextCapture \/ \E p \in Paths : Visit(p)
  PROVE  CallInv'
<1>1. TypeOK /\ Shape /\ thread.at \in {"idle", "done", "refresh"}
  BY DEF CallInv, Refresh, NextCapture, Visit
<1>2. thread.outer = "none" /\ ~locked /\ thread.at # "recv"
  BY <1>1 DEF Shape, Calling
<1>3. UNCHANGED <<inst, connVars, locked, recorded, sizes, jobVars, todo, acted, plain, faults>>
  BY DEF Refresh, NextCapture, Visit
<1>4. ConnTypes'
  BY <1>1, <1>3, StillConn
<1>5. plan' \subseteq Paths
  BY <1>1 DEF Refresh, NextCapture, Visit, TypeOK, Glob
<1>6. /\ thread' \in Thread /\ thread'.outer = "none" /\ thread'.at \in {"idle", "refresh", "connect"}
      /\ (thread'.at = "connect" => thread'.path \in Paths /\ thread'.kind = "hello")
  <2>1. CASE thread' = At("idle") \/ thread' = At("refresh")
    BY <2>1, AtFields DEF Phases
  <2>2. CASE \E p \in Paths : thread' = [At("connect") EXCEPT !.path = p]
    <3>0. PICK p \in Paths : thread' = [At("connect") EXCEPT !.path = p]
      BY <2>2
    <3>1. thread' = [at |-> "connect", path |-> p, kind |-> "hello", outer |-> "none",
                     sent |-> FALSE, tries |-> 0, connects |-> 0, id |-> 0, idle |-> 0,
                     quiet |-> FALSE, late |-> FALSE]
      BY <3>0 DEF At
    <3>2. thread' \in Thread
      BY <3>1 DEF Thread, Phases, Kinds
    <3> QED BY <3>1, <3>2
  <2>3. CASE thread.at = "refresh" /\ thread' = thread
    BY <1>1, <1>2, <2>3 DEF TypeOK
  <2> QED BY <2>1, <2>2, <2>3 DEF Refresh, NextCapture, Visit
<1>7. JobTypes' /\ RestTypes' /\ LockTypes'
  BY <1>1, <1>3, <1>5, <1>6 DEF TypeOK, JobTypes, RestTypes, LockTypes, jobVars
<1>8. Shape'
  BY <1>2, <1>3, <1>6 DEF Shape, Calling
<1> QED BY <1>4, <1>7, <1>8, TypeParts DEF CallInv

LEMMA ReceiveFacts ==
  ASSUME CallInv, Receive
  PROVE  /\ thread.at = "recv" /\ thread.path \in Paths /\ replies[thread.path] # <<>>
         /\ Head(replies[thread.path]) \in Reply /\ Answered(Head(replies[thread.path]))
         /\ replies' = [replies EXCEPT ![thread.path] = Tail(@)]
         /\ ConnTypes'
         /\ UNCHANGED <<inst, open, wire, orphans, todo, acted, plain, faults>>
<1>1. /\ TypeOK /\ thread.at = "recv" /\ replies[thread.path] # <<>> /\ thread.path \in Paths
      /\ Answered(Head(replies[thread.path]))
      /\ replies' = [replies EXCEPT ![thread.path] = Tail(@)]
      /\ UNCHANGED <<inst, open, wire, orphans, todo, acted, plain, faults>>
  BY DEF Receive, CallInv, Shape, Calling
<1>2. /\ Head(replies[thread.path]) \in Reply
      /\ Tail(replies[thread.path]) \in Seq(Reply)
  BY <1>1 DEF TypeOK
<1>3. ConnTypes'
  BY <1>1, <1>2 DEF TypeOK, ConnTypes
<1> QED BY <1>1, <1>2, <1>3

LEMMA AnsweredCases ==
  ASSUME TypeOK, NEW r \in Reply, Answered(r)
  PROVE  /\ r.ok \in BOOLEAN /\ r.n \in Nat
         /\ \/ thread.kind \in Inner /\ EnsureStep(r.ok, r.n)
            \/ /\ UNCHANGED <<locked, recorded>> /\ thread.kind \notin Inner
               /\ \/ thread.kind = "hello" /\ r.ok /\ Goto([thread EXCEPT !.at = "stat"])
                  \/ thread.kind = "hello" /\ ~r.ok /\ NotConnected
                  \/ thread.kind = "size" /\ Sized(IF r.ok THEN r.n ELSE SizeError)
                  \/ thread.kind = "pcap" /\ Submitted(r.ok)
<1>1. thread.kind \in Kinds /\ r.ok \in BOOLEAN /\ r.n \in Nat
  BY ThreadFields DEF TypeOK, Reply
<1>2. CASE thread.kind \in Inner
  BY <1>1, <1>2 DEF Answered
<1>3. CASE thread.kind \notin Inner
  <2>1. thread.kind \in {"hello", "size", "pcap"}
    BY <1>1, <1>3 DEF Kinds, Inner
  <2> QED BY <1>1, <1>3, <2>1 DEF Answered
<1> QED BY <1>2, <1>3

LEMMA ReceiveCall ==
  ASSUME CallInv, Receive
  PROVE  CallInv'
<1> DEFINE r == Head(replies[thread.path])
<1>1. TypeOK /\ Shape /\ thread.at = "recv" /\ thread.at \in Calling
  BY DEF CallInv, Receive, Calling
<1>2. r \in Reply /\ Answered(r) /\ ConnTypes'
  BY ReceiveFacts
<1>4. RestTypes'
  BY <1>1, ReceiveFacts DEF TypeOK, RestTypes
<1> HIDE DEF r
<1>3. r.ok \in BOOLEAN /\ r.n \in Nat
  BY <1>1, <1>2, AnsweredCases
<1>5. CASE thread.kind \in Inner /\ EnsureStep(r.ok, r.n)
  BY <1>1, <1>2, <1>3, <1>4, <1>5, EnsureShape, TypeParts DEF CallInv
<1>6. CASE UNCHANGED <<locked, recorded>> /\ thread.kind \notin Inner
  <2>1. LockTypes' /\ ~locked'
    BY <1>1, <1>6 DEF LockTypes, TypeOK, Shape
  <2>2. JobTypes' /\ Shape'
    <3>1. CASE thread.kind = "hello" /\ Goto([thread EXCEPT !.at = "stat"])
      <4> DEFINE t == [thread EXCEPT !.at = "stat"]
      <4>1. t \in Thread /\ t.at = "stat" /\ t.kind = "hello" /\ t.path = thread.path
            /\ t.outer = thread.outer
        BY <1>1, <3>1 DEF TypeOK, Thread, Phases
      <4>2. JobTypes' /\ thread' = t /\ job' = job
        BY <1>1, <3>1, <4>1, GotoJobs
      <4> QED BY <1>1, <2>1, <4>1, <4>2 DEF Shape, Calling
    <3>2. CASE NotConnected
      BY <1>1, <2>1, <3>2, NotConnectedShape
    <3>3. CASE thread.kind = "size" /\ Sized(IF r.ok THEN r.n ELSE SizeError)
      <4>1. thread.outer = "size"
        BY <1>1, <3>3 DEF Shape, Outer
      <4>2. (IF r.ok THEN r.n ELSE SizeError) \in Nat
        BY <1>3 DEF SizeError
      <4> QED BY <1>1, <2>1, <3>3, <4>1, <4>2, SizedShape
    <3>4. CASE thread.kind = "pcap" /\ Submitted(r.ok)
      <4>1. thread.outer = "pcap"
        BY <1>1, <3>4 DEF Shape, Outer
      <4> QED BY <1>1, <1>3, <2>1, <3>4, <4>1, SubmittedShape
    <3> QED BY <1>1, <1>2, <1>6, <3>1, <3>2, <3>3, <3>4, AnsweredCases
  <2> QED BY <1>2, <1>4, <2>1, <2>2, TypeParts DEF CallInv
<1> QED BY <1>1, <1>2, <1>5, <1>6, AnsweredCases

\* The connection is made again; the handshake is sent if somebody is there.
LEMMA ConnectFacts ==
  ASSUME CallInv, Connect
  PROVE  /\ thread.at = "connect" /\ thread.path \in Paths /\ thread.kind = "hello" /\ ~locked
         /\ orphans' = [orphans EXCEPT ![thread.path] = Unread(thread.path)]
         /\ replies' = [replies EXCEPT ![thread.path] = <<>>]
         /\ open' = [open EXCEPT ![thread.path] = inst[thread.path].up]
         /\ UNCHANGED <<inst, locked, recorded, todo, acted, plain, faults>>
         /\ \/ /\ inst[thread.path].up /\ Goto([thread EXCEPT !.at = "recv"]) /\ Now' = Now
               /\ wire' = [wire EXCEPT ![thread.path] = <<Now>>]
               /\ thread' = [thread EXCEPT !.at = "recv"]
            \/ /\ ~inst[thread.path].up /\ NotConnected
               /\ wire' = [wire EXCEPT ![thread.path] = <<>>]
<1>1. /\ thread.at = "connect" /\ thread.path \in Paths /\ thread.kind = "hello" /\ ~locked
      /\ thread \in Thread
  BY DEF CallInv, TypeOK, Shape, Connect, Calling, Inner
<1>2. /\ orphans' = [orphans EXCEPT ![thread.path] = Unread(thread.path)]
      /\ replies' = [replies EXCEPT ![thread.path] = <<>>]
      /\ open' = [open EXCEPT ![thread.path] = inst[thread.path].up]
      /\ UNCHANGED <<inst, locked, recorded, todo, acted, plain, faults>>
  BY DEF Connect
<1>3. CASE inst[thread.path].up
  <2>1. /\ Goto([thread EXCEPT !.at = "recv"]) /\ wire' = [wire EXCEPT ![thread.path] = <<Now>>]
        /\ thread' = [thread EXCEPT !.at = "recv"]
    BY <1>3 DEF Connect, Goto
  <2>2. Now' = Now
    BY <1>1, <2>1 DEF Goto, jobVars, Now, Thread
  <2> QED BY <1>1, <1>2, <1>3, <2>1, <2>2
<1>4. CASE ~inst[thread.path].up
  BY <1>1, <1>2, <1>4 DEF Connect
<1> QED BY <1>3, <1>4

LEMMA ConnectCall ==
  ASSUME CallInv, Connect
  PROVE  CallInv'
<1> DEFINE p == thread.path
<1>1. /\ TypeOK /\ Shape /\ thread.at = "connect" /\ p \in Paths /\ ~locked /\ thread.kind = "hello"
      /\ thread.at \in Calling
  BY ConnectFacts DEF CallInv, Calling
<1>3. /\ orphans' = [orphans EXCEPT ![p] = Unread(p)]
      /\ replies' = [replies EXCEPT ![p] = <<>>]
      /\ open' = [open EXCEPT ![p] = inst[p].up]
      /\ UNCHANGED <<inst, locked, recorded, todo, acted, plain, faults>>
  BY ConnectFacts
<1>4. RestTypes' /\ LockTypes'
  BY <1>1, <1>3 DEF TypeOK, RestTypes, LockTypes
<1>5. Unread(p) \in [Effective -> Nat] /\ inst[p].up \in BOOLEAN
  BY <1>1, UnreadType DEF TypeOK, Instance
<1>6. CASE inst[p].up
  <2>1. Goto([thread EXCEPT !.at = "recv"]) /\ wire' = [wire EXCEPT ![p] = <<Now>>]
    BY <1>6, ConnectFacts
  <2> DEFINE t == [thread EXCEPT !.at = "recv"]
  <2>2. t \in Thread /\ t.at = "recv" /\ t.kind = "hello" /\ t.path = p /\ t.outer = thread.outer
    BY <1>1 DEF TypeOK, Thread, Phases
  <2>3. JobTypes' /\ thread' = t /\ job' = job
    BY <1>1, <2>1, <2>2, GotoJobs
  <2>4. Shape'
    BY <1>1, <1>3, <2>2, <2>3 DEF Shape, Calling, Inner, Outer
  <2>5. Now \in Command
    BY <1>1, NowIs DEF CallInv
  <2>6. ConnTypes'
    BY <1>1, <1>3, <1>5, <2>1, <2>5 DEF TypeOK, ConnTypes
  <2> QED BY <1>4, <2>3, <2>4, <2>6, TypeParts DEF CallInv
<1>7. CASE ~inst[p].up
  <2>1. NotConnected /\ wire' = [wire EXCEPT ![p] = <<>>]
    BY <1>7, ConnectFacts
  <2>2. JobTypes' /\ Shape'
    BY <1>1, <1>3, <2>1, NotConnectedShape
  <2>3. ConnTypes'
    BY <1>1, <1>3, <1>5, <2>1 DEF TypeOK, ConnTypes
  <2> QED BY <1>4, <2>2, <2>3, TypeParts DEF CallInv
<1> QED BY <1>6, <1>7

LEMMA InstanceFields ==
  ASSUME NEW i \in Instance
  PROVE  /\ i.up \in BOOLEAN /\ i.boot \in Nat /\ i.queue \in Seq(Captures \cup {NoCapture})
         /\ i.busy \in BOOLEAN /\ i.ran \in BOOLEAN /\ i.meta \in BOOLEAN
BY DEF Instance

LEMMA ActTypes ==
  ASSUME TypeOK, NEW p \in Paths, NEW c \in Command, Act(p, c)
  PROVE  /\ inst' \in [Paths -> Instance] /\ acted' \in [Captures -> Nat] /\ plain' \subseteq Captures
         /\ \A q \in Paths : inst'[q].up = inst[q].up /\ inst'[q].boot = inst[q].boot
<1>1. c.cap \in Captures \cup {NoCapture} /\ inst[p] \in Instance /\ inst \in [Paths -> Instance]
  BY CommandIs DEF TypeOK
<1>1a. c.kind = "pcap" => c.cap \in Captures
  BY CommandIs
<1>2. CASE c.kind \in {"pcap", "warm"}
  <2> DEFINE s == Append(inst[p].queue, c.cap)
             i == [inst[p] EXCEPT !.queue = s]
  <2>1. inst' = [inst EXCEPT ![p] = i]
    BY <1>2 DEF Act
  <2>2. s \in Seq(Captures \cup {NoCapture})
    BY <1>1, InstanceFields
  <2> HIDE DEF s
  <2>3. i \in Instance /\ i.up = inst[p].up /\ i.boot = inst[p].boot
    BY <1>1, <2>2 DEF Instance
  <2> HIDE DEF i
  <2>4. acted' \in [Captures -> Nat] /\ plain' \subseteq Captures
    <3>1. CASE c.kind = "pcap"
      <4>1. acted' = [acted EXCEPT ![c.cap] = @ + 1]
            /\ (plain' = plain \/ plain' = plain \cup {c.cap})
        BY <3>1 DEF Act
      <4> QED BY <1>1a, <3>1, <4>1 DEF TypeOK
    <3>2. CASE c.kind # "pcap"
      BY <3>2 DEF Act, TypeOK
    <3> QED BY <3>1, <3>2
  <2> QED BY <1>1, <2>1, <2>3, <2>4
<1>3. CASE c.kind = "reload"
  <2> DEFINE i == [inst[p] EXCEPT !.meta = inst[p].ran]
  <2>1. inst' = [inst EXCEPT ![p] = i]
    BY <1>3 DEF Act
  <2>2. i \in Instance /\ i.up = inst[p].up /\ i.boot = inst[p].boot
    BY <1>1 DEF Instance
  <2> HIDE DEF i
  <2>3. acted' \in [Captures -> Nat] /\ plain' \subseteq Captures
    BY <1>3 DEF Act, TypeOK
  <2> QED BY <1>1, <2>1, <2>2, <2>3
<1>4. CASE c.kind \notin {"pcap", "warm", "reload"}
  BY <1>4 DEF Act, TypeOK
<1> QED BY <1>2, <1>3, <1>4

LEMMA SameThread ==
  ASSUME TypeOK, Shape, UNCHANGED <<threadVars, jobVars>>
  PROVE  JobTypes' /\ LockTypes' /\ Shape' /\ Now' = Now
BY DEF TypeOK, JobTypes, LockTypes, Shape, threadVars, jobVars, Now

LEMMA RespondTypes ==
  ASSUME CallInv, NEW p \in Paths, Respond(p)
  PROVE  /\ inst[p].up /\ wire[p] # <<>> /\ Head(wire[p]) \in Command
         /\ wire' = [wire EXCEPT ![p] = Tail(@)]
         /\ UNCHANGED <<orphans, threadVars, jobVars, todo>>
         /\ \E ok \in BOOLEAN, n \in Nat :
              /\ replies' = [replies EXCEPT ![p] = Append(@, [to |-> Head(wire[p]), ok |-> ok, n |-> n])]
              /\ ok => Act(p, Head(wire[p])) /\ UNCHANGED <<open, faults>> /\ n = Value(p, Head(wire[p]))
              /\ ~ok => /\ n = 0 /\ Fault /\ UNCHANGED <<inst, acted, plain>>
                        /\ open' = [open EXCEPT ![p] = Head(wire[p]).kind # "hello"]
<1>1. /\ TypeOK /\ inst[p].up /\ wire[p] # <<>>
      /\ wire' = [wire EXCEPT ![p] = Tail(@)]
      /\ UNCHANGED <<orphans, threadVars, jobVars, todo>>
  BY Zenon DEF Respond, CallInv
<1>2. Head(wire[p]) \in Command
  BY <1>1 DEF TypeOK
<1>3. Value(p, Head(wire[p])) \in Nat
  BY <1>1, InstanceFields DEF Value, TypeOK
<1>4. \/ /\ Act(p, Head(wire[p])) /\ UNCHANGED <<open, faults>>
         /\ replies' = [replies EXCEPT ![p] = Append(@, [to |-> Head(wire[p]), ok |-> TRUE,
                                                         n |-> Value(p, Head(wire[p]))])]
      \/ /\ Fault /\ UNCHANGED <<inst, acted, plain>>
         /\ replies' = [replies EXCEPT ![p] = Append(@, [to |-> Head(wire[p]), ok |-> FALSE, n |-> 0])]
         /\ open' = [open EXCEPT ![p] = Head(wire[p]).kind # "hello"]
  BY Zenon DEF Respond, NoFault
<1>5. TRUE \in BOOLEAN /\ FALSE \in BOOLEAN /\ 0 \in Nat
  OBVIOUS
<1> QED BY <1>1, <1>2, <1>3, <1>4, <1>5, Zenon

LEMMA RespondCall ==
  ASSUME CallInv, NEW p \in Paths, Respond(p)
  PROVE  CallInv'
<1> DEFINE c == Head(wire[p])
<1>1. TypeOK /\ Shape /\ c \in Command /\ wire[p] # <<>>
  BY RespondTypes DEF CallInv
<1>2. JobTypes' /\ LockTypes' /\ Shape'
  BY <1>1, RespondTypes, SameThread
<1>3. PICK ok \in BOOLEAN, n \in Nat :
        /\ replies' = [replies EXCEPT ![p] = Append(@, [to |-> c, ok |-> ok, n |-> n])]
        /\ ok => Act(p, c) /\ UNCHANGED <<open, faults>>
        /\ ~ok => /\ Fault /\ UNCHANGED <<inst, acted, plain>>
                  /\ open' = [open EXCEPT ![p] = c.kind # "hello"]
  BY RespondTypes
<1>4. wire' = [wire EXCEPT ![p] = Tail(@)] /\ UNCHANGED <<orphans, todo>>
  BY RespondTypes
<1>5. ConnTypes'
  <2> DEFINE r == [to |-> c, ok |-> ok, n |-> n]
  <2>1. r \in Reply
    BY <1>1 DEF Reply
  <2> HIDE DEF r
  <2>2. Append(replies[p], r) \in Seq(Reply) /\ Tail(wire[p]) \in Seq(Command)
    BY <1>1, <2>1 DEF TypeOK
  <2>3. replies' \in [Paths -> Seq(Reply)] /\ wire' \in [Paths -> Seq(Command)]
    BY <1>1, <1>3, <1>4, <2>2 DEF TypeOK, r
  <2>4. open' \in [Paths -> BOOLEAN]
    BY <1>1, <1>3 DEF TypeOK
  <2>5. orphans' \in [Paths -> [Effective -> Nat]]
    BY <1>1, <1>4 DEF TypeOK
  <2> QED BY <2>3, <2>4, <2>5 DEF ConnTypes
<1>6. RestTypes'
  <2>1. CASE ok
    BY <1>1, <1>3, <1>4, <2>1, ActTypes DEF TypeOK, RestTypes
  <2>2. CASE ~ok
    BY <1>1, <1>3, <1>4, <2>2 DEF TypeOK, RestTypes, Fault
  <2> QED BY <2>1, <2>2
<1> QED BY <1>2, <1>5, <1>6, TypeParts DEF CallInv

\* The instances work on; the thread and its connections stay as they are.
LEMMA StillCall ==
  ASSUME CallInv, RestTypes', orphans' \in [Paths -> [Effective -> Nat]],
         UNCHANGED <<open, wire, replies, threadVars, jobVars>>
  PROVE  CallInv'
<1>1. JobTypes' /\ LockTypes' /\ Shape'
  BY SameThread DEF CallInv, threadVars
<1>2. ConnTypes'
  BY DEF CallInv, TypeOK, ConnTypes
<1> QED BY <1>1, <1>2, TypeParts DEF CallInv

LEMMA AnnounceCall ==
  ASSUME CallInv, NEW c \in Captures, Announce(c)
  PROVE  CallInv'
<1>1. TypeOK /\ todo' = Append(todo, c) /\ UNCHANGED <<inst, connVars, threadVars, jobVars, acted, plain, faults>>
  BY DEF CallInv, Announce
<1>2. RestTypes'
  BY <1>1 DEF TypeOK, RestTypes
<1>3. orphans' \in [Paths -> [Effective -> Nat]] /\ UNCHANGED <<open, wire, replies>>
  BY <1>1 DEF TypeOK, connVars
<1> QED BY <1>1, <1>2, <1>3, StillCall

LEMMA EffectiveIs ==
  ASSUME NEW c \in Effective
  PROVE  c \in Command /\ (c.kind = "pcap" => c.cap \in Captures /\ c = Pcap(c.cap))
BY DEF Effective, Command, Kinds, Pcap

\* One command less of kind c.
LEMMA OneLess ==
  ASSUME TypeOK, NEW p \in Paths, NEW c \in Effective, orphans[p][c] > 0,
         orphans' = [orphans EXCEPT ![p][c] = @ - 1]
  PROVE  /\ orphans' \in [Paths -> [Effective -> Nat]]
         /\ \A q \in Paths, d \in Effective :
              orphans'[q][d] = IF q = p /\ d = c THEN orphans[q][d] - 1 ELSE orphans[q][d]
<1>1. orphans \in [Paths -> [Effective -> Nat]]
  BY DEF TypeOK
<1>2. orphans[p] \in [Effective -> Nat] /\ orphans[p][c] \in Nat /\ orphans[p][c] - 1 \in Nat
  BY <1>1
<1>3. [orphans[p] EXCEPT ![c] = @ - 1] \in [Effective -> Nat]
  BY <1>2
<1>4. \A q \in Paths : orphans'[q] = IF q = p THEN [orphans[p] EXCEPT ![c] = @ - 1] ELSE orphans[q]
  BY <1>1
<1>5. DOMAIN orphans' = Paths /\ orphans' = [q \in Paths |-> orphans'[q]]
  BY <1>1
<1> QED BY <1>1, <1>2, <1>3, <1>4, <1>5

LEMMA ReadOrphanFacts ==
  ASSUME CallInv, NEW p \in Paths, ReadOrphan(p)
  PROVE  /\ \E c \in Effective :
              /\ orphans[p][c] > 0 /\ orphans' \in [Paths -> [Effective -> Nat]]
              /\ \A q \in Paths, d \in Effective :
                   orphans'[q][d] = IF q = p /\ d = c THEN orphans[q][d] - 1 ELSE orphans[q][d]
              /\ Act(p, c) \/ UNCHANGED <<inst, acted, plain>>
         /\ UNCHANGED <<open, wire, replies, threadVars, jobVars, todo, faults>>
<1>1. PICK c \in Effective :
        /\ orphans[p][c] > 0
        /\ orphans' = [orphans EXCEPT ![p][c] = @ - 1]
        /\ Act(p, c) \/ UNCHANGED <<inst, acted, plain>>
  BY Zenon DEF ReadOrphan
<1>2. TypeOK
  BY DEF CallInv
<1>3. UNCHANGED <<open, wire, replies, threadVars, jobVars, todo, faults>>
  BY Zenon DEF ReadOrphan
<1>4. /\ orphans' \in [Paths -> [Effective -> Nat]]
      /\ \A q \in Paths, d \in Effective :
           orphans'[q][d] = IF q = p /\ d = c THEN orphans[q][d] - 1 ELSE orphans[q][d]
  BY <1>1, <1>2, OneLess
<1> QED BY <1>1, <1>3, <1>4

LEMMA ReadOrphanCall ==
  ASSUME CallInv, NEW p \in Paths, ReadOrphan(p)
  PROVE  CallInv'
<1>1. PICK c \in Effective :
        /\ orphans' \in [Paths -> [Effective -> Nat]]
        /\ Act(p, c) \/ UNCHANGED <<inst, acted, plain>>
  BY ReadOrphanFacts
<1>2. TypeOK /\ UNCHANGED <<open, wire, replies, threadVars, jobVars, todo, faults>>
  BY ReadOrphanFacts DEF CallInv
<1>3. RestTypes' /\ \A q \in Paths : inst'[q].up = inst[q].up
  BY <1>1, <1>2, ActTypes, EffectiveIs DEF TypeOK, RestTypes
<1> QED BY <1>1, <1>2, <1>3, StillCall

LEMMA InstanceCall ==
  ASSUME CallInv, NEW p \in Paths, NEW i \in Instance, inst' = [inst EXCEPT ![p] = i],
         UNCHANGED <<connVars, threadVars, jobVars, todo, acted, plain, faults>>
  PROVE  CallInv'
<1>1. TypeOK
  BY DEF CallInv
<1>2. RestTypes'
  BY <1>1 DEF TypeOK, RestTypes
<1>3. orphans' \in [Paths -> [Effective -> Nat]] /\ UNCHANGED <<open, wire, replies>>
  BY <1>1 DEF TypeOK, connVars
<1> QED BY <1>2, <1>3, StillCall

LEMMA RunFacts ==
  ASSUME TypeOK, NEW p \in Paths, StartRun(p) \/ EndRun(p)
  PROVE  \E i \in Instance :
           /\ inst' = [inst EXCEPT ![p] = i]
           /\ i.up = inst[p].up /\ i.boot = inst[p].boot /\ i.meta = inst[p].meta
           /\ (inst[p].ran => i.ran) /\ (inst[p].busy => i.busy \/ i.ran)
           /\ (inst[p].queue # <<>> => i.queue # <<>> \/ i.busy)
<1>1. inst[p] \in Instance /\ inst \in [Paths -> Instance]
  BY DEF TypeOK
<1>2. CASE StartRun(p)
  <2> DEFINE s == Tail(inst[p].queue)
             i == [inst[p] EXCEPT !.queue = s, !.busy = TRUE]
  <2>1. s \in Seq(Captures \cup {NoCapture})
    BY <1>1, <1>2, InstanceFields DEF StartRun
  <2>2. inst' = [inst EXCEPT ![p] = i]
    BY <1>1, <1>2 DEF StartRun
  <2> HIDE DEF s
  <2>3. i \in Instance /\ i.up = inst[p].up /\ i.boot = inst[p].boot /\ i.meta = inst[p].meta
        /\ i.ran = inst[p].ran /\ i.busy
    BY <1>1, <2>1 DEF Instance
  <2> QED BY <2>2, <2>3
<1>3. CASE EndRun(p)
  <2> DEFINE i == [inst[p] EXCEPT !.busy = FALSE, !.ran = TRUE]
  <2>1. inst' = [inst EXCEPT ![p] = i]
    BY <1>1, <1>3 DEF EndRun
  <2>2. i \in Instance /\ i.up = inst[p].up /\ i.boot = inst[p].boot /\ i.meta = inst[p].meta
        /\ i.ran /\ i.queue = inst[p].queue
    BY <1>1 DEF Instance
  <2> QED BY <2>1, <2>2
<1> QED BY <1>2, <1>3

LEMMA RunCall ==
  ASSUME CallInv, NEW p \in Paths, StartRun(p) \/ EndRun(p)
  PROVE  CallInv'
<1>1. UNCHANGED <<connVars, threadVars, jobVars, todo, acted, plain, faults>>
  BY DEF StartRun, EndRun
<1>2. TypeOK
  BY DEF CallInv
<1> QED BY <1>1, <1>2, RunFacts, InstanceCall

LEMMA StartedIs ==
  ASSUME NEW n \in Nat
  PROVE  /\ Started(n) \in Instance /\ Started(n).up /\ Started(n).boot = n
         /\ ~Started(n).busy /\ ~Started(n).ran /\ ~Started(n).meta /\ Started(n).queue = <<>>
BY DEF Started, Instance

LEMMA BootCall ==
  ASSUME CallInv, NEW p \in Paths, Boot(p)
  PROVE  CallInv'
<1>1. TypeOK /\ inst[p].boot + 1 \in Nat
  BY InstanceFields DEF CallInv, TypeOK
<1>2. Started(inst[p].boot + 1) \in Instance /\ Started(inst[p].boot + 1).up
  BY <1>1, StartedIs
<1> QED BY <1>2, InstanceCall DEF Boot

LEMMA DieFacts ==
  ASSUME TypeOK, NEW p \in Paths, Die(p)
  PROVE  /\ \E i \in Instance : /\ inst' = [inst EXCEPT ![p] = i] /\ ~i.up /\ ~i.meta
                                /\ i.boot = inst[p].boot
         /\ faults' = faults + 1 /\ faults \in Nat
<1> DEFINE s == Started(inst[p].boot)
           i == [s EXCEPT !.up = FALSE]
<1>1. s \in Instance /\ ~s.meta /\ s.boot = inst[p].boot
  BY InstanceFields, StartedIs DEF TypeOK
<1>2. inst' = [inst EXCEPT ![p] = i]
  BY Zenon DEF Die
<1> HIDE DEF s
<1>3. i \in Instance /\ ~i.up /\ ~i.meta /\ i.boot = inst[p].boot
  BY <1>1 DEF Instance
<1> HIDE DEF i
<1>4. faults' = faults + 1 /\ faults \in Nat
  BY DEF Die, Fault, TypeOK
<1> QED BY <1>2, <1>3, <1>4

LEMMA DieCall ==
  ASSUME CallInv, NEW p \in Paths, Die(p)
  PROVE  CallInv'
<1>1. TypeOK /\ Shape
  BY DEF CallInv
<1>3. /\ open' = [open EXCEPT ![p] = FALSE] /\ wire' = [wire EXCEPT ![p] = <<>>]
      /\ orphans' = [orphans EXCEPT ![p] = [c \in Effective |-> 0]]
      /\ UNCHANGED <<replies, threadVars, jobVars, todo, acted, plain>>
  BY Zenon DEF Die
<1>4. JobTypes' /\ LockTypes' /\ Shape'
  BY <1>1, <1>3, SameThread
<1>2. PICK i \in Instance : inst' = [inst EXCEPT ![p] = i]
  BY <1>1, DieFacts
<1>5. ConnTypes' /\ RestTypes'
  BY <1>1, <1>2, <1>3, DieFacts DEF TypeOK, ConnTypes, RestTypes
<1> QED BY <1>4, <1>5, TypeParts DEF CallInv

LEMMA DeadlineCall ==
  ASSUME CallInv, Deadline
  PROVE  /\ CallInv' /\ Now' = Now
         /\ thread' = [thread EXCEPT !.late = TRUE]
         /\ thread'.at = thread.at /\ thread'.path = thread.path
         /\ UNCHANGED <<inst, connVars, locked, recorded, sizes, plan, jobVars, todo, acted, plain>>
<1>1. /\ TypeOK /\ Shape /\ thread' = [thread EXCEPT !.late = TRUE] /\ thread.kind # "pcap"
      /\ UNCHANGED <<inst, connVars, locked, recorded, sizes, plan, jobVars, todo, acted, plain>>
  BY DEF CallInv, Deadline
<1>2. /\ thread' \in Thread /\ thread'.at = thread.at /\ thread'.kind = thread.kind
      /\ thread'.path = thread.path /\ thread'.outer = thread.outer /\ thread'.sent = thread.sent
  BY <1>1 DEF TypeOK, Thread
<1>3. faults' \in Nat
  BY <1>1 DEF Deadline, Fault, NoFault, TypeOK
<1>4. JobTypes' /\ LockTypes' /\ ConnTypes' /\ RestTypes'
  BY <1>1, <1>2, <1>3
     DEF TypeOK, JobTypes, LockTypes, ConnTypes, RestTypes, connVars, jobVars
<1>5. Shape'
  BY <1>1, <1>2 DEF Shape, jobVars
<1>6. Now' = Now
  BY <1>1, <1>2 DEF Now, jobVars
<1> QED BY <1>1, <1>2, <1>4, <1>5, <1>6, TypeParts DEF CallInv

LEMMA CrashCall ==
  ASSUME CallInv, Crash
  PROVE  CallInv'
<1>1. TypeOK
  BY DEF CallInv
<1>2. JobTypes'
  BY <1>1, AtFields DEF Crash, TypeOK, JobTypes, NoSizes, Phases
<1>3. LockTypes' /\ RestTypes'
  <2>1. faults' \in Nat /\ todo' = <<>> /\ UNCHANGED <<inst, acted, plain>>
        /\ locked' = FALSE /\ recorded' = [p \in Paths |-> 0]
    BY <1>1 DEF Crash, TypeOK, Fault
  <2>2. todo' \in Seq(Captures)
    BY <2>1
  <2>3. LockTypes'
    BY <2>1 DEF LockTypes
  <2> QED BY <1>1, <2>1, <2>2, <2>3 DEF TypeOK, RestTypes
<1>4. ConnTypes'
  BY <1>1, UnreadType DEF Crash, TypeOK, ConnTypes
<1>6. Shape'
  BY AtFields DEF Crash, Shape, Calling, Phases
<1> QED BY <1>2, <1>3, <1>4, <1>6, TypeParts DEF CallInv

LEMMA CallInit ==
  ASSUME Init
  PROVE  CallInv
<1>1. At("idle") \in Thread /\ At("idle").at = "idle" /\ At("idle").outer = "none"
  BY AtFields DEF Phases
<1>2. TypeOK
  <2>1. Started(1) \in Instance
    BY StartedIs
  <2>2. inst \in [Paths -> Instance] /\ orphans \in [Paths -> [Effective -> Nat]]
    BY <2>1 DEF Init
  <2>3. todo \in Seq(Captures) /\ wire \in [Paths -> Seq(Command)] /\ replies \in [Paths -> Seq(Reply)]
    BY DEF Init
  <2>4. DOMAIN sizes \subseteq Paths /\ \A p \in DOMAIN sizes : sizes[p] \in Nat
    BY DEF Init, NoSizes
  <2>5. JobTypes
    BY <1>1, <2>4 DEF Init, JobTypes
  <2> QED BY <2>2, <2>3, <2>5 DEF Init, TypeOK, JobTypes
<1>3. Shape
  BY <1>1 DEF Init, Shape, Calling
<1> QED BY <1>2, <1>3 DEF CallInv

LEMMA CallStep ==
  ASSUME CallInv, [Next]_vars
  PROVE  CallInv'
<1>1. CASE Pop \/ WarmUpEnds \/ Stat \/ Acquire \/ Refresh \/ NextCapture \/ \E p \in Paths : Visit(p)
  BY <1>1, PopCall, WarmUpEndsCall, StatCall, AcquireCall, IdleThreadCall
<1>2. CASE \E p \in Paths : AskSize(p) \/ Submit(p)
  BY <1>2, CallCall DEF AskSize, Submit, Outer
<1>3. CASE Send \/ Receive \/ NoAnswer \/ Connect
  BY <1>3, SendCall, ReceiveCall, NoAnswerCall, ConnectCall
<1>4. CASE \E p \in Paths : InstanceStep(p) \/ Die(p)
  BY <1>4, RespondCall, ReadOrphanCall, RunCall, BootCall, DieCall DEF InstanceStep
<1>5. CASE (\E c \in Captures : Announce(c)) \/ Deadline \/ Crash
  BY <1>5, AnnounceCall, DeadlineCall, CrashCall
<1>6. CASE UNCHANGED vars
  BY <1>6 DEF vars, connVars, threadVars, jobVars, CallInv, TypeOK, Shape
<1> QED BY <1>1, <1>2, <1>3, <1>4, <1>5, <1>6 DEF Next, ThreadStep

LEMMA CallInvariance == Spec => []CallInv
<1>1. Init => CallInv
  BY CallInit
<1>2. CallInv /\ [Next]_vars => CallInv'
  BY CallStep
<1> QED BY <1>1, <1>2, PTL DEF Spec

(* Every variable keeps its type: of the code, that each step of the       *)
(* thread leaves a phase the next one can go on from.                      *)
THEOREM Types == Spec => []TypeOK
<1>1. CallInv => TypeOK
  BY DEF CallInv
<1> QED BY <1>1, CallInvariance, PTL

-----------------------------------------------------------------------------
(* A connection carries the command the thread waits for or nothing.  The  *)
(* one step that breaks this is the last attempt to connect whose          *)
(* handshake is late: _connect leaves its socket as it is.                 *)

AllQuiet == \A p \in Paths : Quiet(p)

InTime == ~(NoAnswer /\ LateHandshake)

LEMMA QuietAtRest ==
  ASSUME ConnInv, thread.at \notin {"recv", "connect"}
  PROVE  AllQuiet
BY DEF ConnInv, AllQuiet, Waiting

LEMMA OthersQuiet ==
  ASSUME ConnInv, NEW p \in Paths, p # thread.path
  PROVE  Quiet(p)
BY DEF ConnInv, Waiting

\* What closing a connection leaves unread is what the thread was waiting for.
LEMMA UnreadIs ==
  ASSUME TypeOK, ConnInv, NEW p \in Paths, NEW c \in Effective
  PROVE  Unread(p)[c] = orphans[p][c] + IF wire[p] = <<c>> THEN 1 ELSE 0
<1>1. Unread(p)[c] = orphans[p][c] + Cardinality({i \in DOMAIN wire[p] : wire[p][i] = c})
  BY DEF Unread
<1>2. CASE wire[p] = <<>>
  <2>1. {i \in DOMAIN wire[p] : wire[p][i] = c} = {}
    BY <1>2
  <2> QED BY <1>1, <1>2, <2>1, FS_EmptySet
<1>3. CASE wire[p] = <<Now>>
  <2>1. CASE Now = c
    <3>1. {i \in DOMAIN wire[p] : wire[p][i] = c} = {1}
      BY <1>3, <2>1
    <3> QED BY <1>1, <1>3, <2>1, <3>1, FS_Singleton
  <2>2. CASE Now # c
    <3>1. {i \in DOMAIN wire[p] : wire[p][i] = c} = {}
      BY <1>3, <2>2
    <3>2. wire[p] # <<c>>
      BY <1>3, <2>2
    <3> QED BY <1>1, <3>1, <3>2, FS_EmptySet
  <2> QED BY <2>1, <2>2
<1> QED BY <1>2, <1>3 DEF ConnInv, Quiet, Asked, Told, ReplyIs

LEMMA ClosedConn ==
  ASSUME TypeOK, ConnInv, Closed(thread.path), thread.path \in Paths, inst' = inst
  PROVE  ConnInv' /\ AllQuiet' /\ ~open'[thread.path]
<1>2. AllQuiet'
  BY OthersQuiet DEF AllQuiet, Quiet, Closed, TypeOK
<1>3. \A p \in Paths : open'[p] => open[p]
  BY DEF Closed, TypeOK
<1>4. ConnInv'
  BY <1>2, <1>3 DEF ConnInv, AllQuiet, Quiet
<1> QED BY <1>2, <1>4 DEF Closed, TypeOK

LEMMA QuietConn ==
  ASSUME ConnInv, AllQuiet, UNCHANGED connVars, \A p \in Paths : inst[p].up => inst'[p].up
  PROVE  ConnInv' /\ AllQuiet'
BY DEF ConnInv, AllQuiet, Quiet, connVars

\* While the thread waits for nothing there is nothing on a connection.
LEMMA RestConn ==
  ASSUME BaseInv, thread.at \notin {"recv", "connect"}, UNCHANGED <<inst, connVars>>
  PROVE  ConnInv' /\ AllQuiet'
BY QuietAtRest, QuietConn DEF BaseInv

LEMMA ClosedIfConn ==
  ASSUME TypeOK, ConnInv, NEW sent \in BOOLEAN, ClosedIf(thread.path, sent),
         sent \/ thread.at = "send", thread.path \in Paths, inst' = inst
  PROVE  ConnInv' /\ AllQuiet'
BY ClosedConn, QuietConn, QuietAtRest DEF ClosedIf

LEMMA FailedQuiet ==
  ASSUME BaseInv, NEW sent \in BOOLEAN, Failed(sent), thread.at \in {"send", "recv"},
         thread.at = "recv" => sent /\ replies[thread.path] = <<>>,
         thread.at = "recv" /\ thread.kind = "hello" => ~open[thread.path],
         inst' = inst
  PROVE  ConnInv' /\ AllQuiet'
<1>0. TypeOK /\ Shape /\ ConnInv /\ thread.path \in Paths /\ (sent \/ thread.at = "send")
  BY DEF BaseInv, Shape, Calling
<1>3. CASE /\ thread.kind = "hello" /\ UNCHANGED connVars
  <2>1. thread.at = "recv" /\ ~open[thread.path] /\ replies[thread.path] = <<>>
    BY <1>0, <1>3 DEF Shape
  <2>2. AllQuiet
    BY <1>0, <2>1, OthersQuiet DEF AllQuiet, ConnInv, Quiet, Asked, Told, ReplyIs
  <2> QED BY <1>0, <1>3, <2>2, QuietConn
<1>4. CASE ClosedIf(thread.path, sent)
  BY <1>0, <1>4, ClosedIfConn
<1>5. CASE Closed(thread.path)
  BY <1>0, <1>5, ClosedConn
<1> QED BY <1>0, <1>3, <1>4, <1>5, FailedCases

\* An attempt to connect that is not the last goes on with the next one.
LEMMA NoAnswerConn ==
  ASSUME BaseInv, NoAnswer, ~LateHandshake
  PROVE  /\ ConnInv'
         /\ thread.kind # "hello" \/ ~open[thread.path] => AllQuiet'
<1>1. /\ TypeOK /\ Shape /\ ConnInv /\ Failed(TRUE) /\ thread.at = "recv"
      /\ replies[thread.path] = <<>> /\ inst' = inst
  BY NoAnswerFacts DEF BaseInv
<1>2. CASE thread.kind # "hello" \/ ~open[thread.path]
  BY <1>1, <1>2, FailedQuiet
<1>3. CASE thread.kind = "hello" /\ open[thread.path]
  <2>1. ~(thread.connects + 1 >= Connects)
    BY <1>3 DEF LateHandshake
  <2>2. NotConnected /\ UNCHANGED connVars
    BY <1>1, <1>3 DEF Failed
  <2>3. Goto([thread EXCEPT !.at = "connect", !.kind = "hello", !.connects = @ + 1])
    BY <2>1, <2>2 DEF NotConnected
  <2>4. /\ thread'.at = "connect" /\ thread'.path = thread.path /\ thread'.kind = "hello"
        /\ job' = job
    BY <1>1, <2>3 DEF Goto, jobVars, TypeOK, Thread
  <2>5. Now' = Now
    BY <1>3, <2>4 DEF Now
  <2>6. ASSUME NEW p \in Paths
        PROVE  (open[p] => inst[p].up)' /\ (Quiet(p) \/ (Waiting(p) /\ (Asked(p) \/ Told(p))))'
    BY <1>1, <2>2, <2>4, <2>5 DEF ConnInv, Quiet, Waiting, Asked, Told, ReplyIs, connVars
  <2> QED BY <1>3, <2>6 DEF ConnInv
<1> QED BY <1>2, <1>3

LEMMA SendConn ==
  ASSUME BaseInv, Send
  PROVE  ConnInv' /\ (~open[thread.path] => AllQuiet')
<1>1. /\ TypeOK /\ Shape /\ ConnInv /\ thread.at = "send" /\ thread.path \in Paths /\ AllQuiet
      /\ inst' = inst
      /\ \/ open[thread.path] /\ Sends /\ Now' = Now
         \/ ~open[thread.path] /\ Failed(FALSE)
  BY SendCall, QuietAtRest DEF BaseInv, CallInv
<1>2. CASE open[thread.path] /\ Sends /\ Now' = Now
  <2>1. /\ thread'.at = "recv" /\ thread'.path = thread.path
        /\ wire' = [wire EXCEPT ![thread.path] = Append(@, Now)] /\ UNCHANGED <<open, replies>>
    BY <1>1, <1>2 DEF Sends, TypeOK, Thread
  <2>2. ASSUME NEW p \in Paths
        PROVE  (open[p] => inst[p].up)' /\ (Quiet(p) \/ (Waiting(p) /\ (Asked(p) \/ Told(p))))'
    <3>1. CASE p = thread.path
      <4>1. wire[p] = <<>> /\ replies[p] = <<>> /\ Append(<<>>, Now) = <<Now>>
        BY <1>1 DEF AllQuiet, Quiet
      <4>2. wire'[p] = <<Now>> /\ replies'[p] = <<>> /\ open'[p]
        BY <1>1, <1>2, <2>1, <3>1, <4>1 DEF TypeOK
      <4> QED BY <1>1, <1>2, <2>1, <3>1, <4>2 DEF Waiting, Asked, ConnInv
    <3>2. CASE p # thread.path
      BY <1>1, <2>1, <3>2 DEF AllQuiet, Quiet, TypeOK, ConnInv
    <3> QED BY <3>1, <3>2
  <2> QED BY <1>2, <2>2 DEF ConnInv
<1>3. CASE ~open[thread.path] /\ Failed(FALSE)
  BY <1>1, <1>3, FailedQuiet
<1> QED BY <1>1, <1>2, <1>3

\* The answer that is taken is that of the command.
LEMMA ReceiveConn ==
  ASSUME BaseInv, Receive
  PROVE  /\ ConnInv' /\ AllQuiet'
         /\ Head(replies[thread.path]).to = Now
         /\ ReplyIs(thread.path, Head(replies[thread.path]).ok, Head(replies[thread.path]).n)
<1>1. /\ TypeOK /\ ConnInv /\ thread.at = "recv" /\ replies[thread.path] # <<>>
      /\ thread.path \in Paths
      /\ replies' = [replies EXCEPT ![thread.path] = Tail(@)]
      /\ UNCHANGED <<inst, open, wire, orphans>>
  BY ReceiveFacts DEF BaseInv, CallInv
<1>2. PICK ok \in BOOLEAN, n \in Nat : ReplyIs(thread.path, ok, n)
  BY <1>1 DEF ConnInv, Quiet, Asked, Told
<1>3. /\ Head(replies[thread.path]) = [to |-> Now, ok |-> ok, n |-> n]
      /\ Tail(replies[thread.path]) = <<>>
  BY <1>2 DEF ReplyIs
<1>5. AllQuiet'
  BY <1>1, <1>2, <1>3, OthersQuiet DEF AllQuiet, Quiet, TypeOK, ReplyIs
<1>6. ConnInv'
  BY <1>1, <1>5 DEF ConnInv, AllQuiet
<1> QED BY <1>2, <1>3, <1>5, <1>6

LEMMA ConnectConn ==
  ASSUME BaseInv, Connect
  PROVE  ConnInv' /\ (~inst[thread.path].up => AllQuiet')
<1> DEFINE p == thread.path
<1>1. /\ TypeOK /\ ConnInv /\ p \in Paths
      /\ replies' = [replies EXCEPT ![p] = <<>>]
      /\ open' = [open EXCEPT ![p] = inst[p].up] /\ inst' = inst
  BY ConnectFacts DEF BaseInv, CallInv
<1>6. CASE inst[p].up
  <2>1. wire' = [wire EXCEPT ![p] = <<Now>>] /\ Now' = Now /\ thread' = [thread EXCEPT !.at = "recv"]
    BY <1>6, ConnectFacts DEF BaseInv, CallInv
  <2>2. thread'.at = "recv" /\ thread'.path = p
    BY <1>1, <2>1 DEF TypeOK, Thread
  <2>7. ASSUME NEW q \in Paths
        PROVE  (open[q] => inst[q].up)' /\ (Quiet(q) \/ (Waiting(q) /\ (Asked(q) \/ Told(q))))'
    <3>1. CASE q = p
      BY <1>1, <1>6, <2>1, <2>2, <3>1 DEF Waiting, Asked, TypeOK
    <3>2. CASE q # p
      BY <1>1, <2>1, <3>2, OthersQuiet DEF Quiet, TypeOK, ConnInv
    <3> QED BY <3>1, <3>2
  <2> QED BY <1>6, <2>7 DEF ConnInv
<1>7. CASE ~inst[p].up
  <2>1. wire' = [wire EXCEPT ![p] = <<>>]
    BY <1>7, ConnectFacts DEF BaseInv, CallInv
  <2>2. AllQuiet'
    BY <1>1, <2>1, OthersQuiet DEF AllQuiet, Quiet, TypeOK
  <2>3. \A q \in Paths : open'[q] => inst'[q].up
    BY <1>1, <1>7 DEF ConnInv, TypeOK
  <2> QED BY <2>2, <2>3 DEF ConnInv, AllQuiet
<1> QED BY <1>6, <1>7

\* Only a command that is read can be on the wire of p.
LEMMA RespondFacts ==
  ASSUME BaseInv, NEW p \in Paths, Respond(p)
  PROVE  /\ Waiting(p) /\ Asked(p) /\ wire' = [wire EXCEPT ![p] = <<>>]
         /\ UNCHANGED <<orphans, threadVars, jobVars, todo>>
         /\ \/ /\ Act(p, Now) /\ UNCHANGED <<open, faults>>
               /\ replies' = [replies EXCEPT ![p] = <<[to |-> Now, ok |-> TRUE, n |-> Value(p, Now)]>>]
            \/ /\ Fault /\ UNCHANGED <<inst, acted, plain>>
               /\ replies' = [replies EXCEPT ![p] = <<[to |-> Now, ok |-> FALSE, n |-> 0]>>]
               /\ open' = [open EXCEPT ![p] = Now.kind # "hello"]
<1>1. Waiting(p) /\ Asked(p)
  BY DEF BaseInv, ConnInv, Quiet, Told, ReplyIs, Respond
<1>2. /\ Head(wire[p]) = Now /\ Tail(wire[p]) = <<>>
      /\ \A r : Append(replies[p], r) = <<r>>
  BY <1>1 DEF Asked
<1>3. /\ wire' = [wire EXCEPT ![p] = <<>>]
      /\ UNCHANGED <<orphans, threadVars, jobVars, todo>>
  BY <1>2 DEF Respond
<1>4. \/ /\ Act(p, Head(wire[p])) /\ NoFault /\ UNCHANGED open
         /\ replies' = [replies EXCEPT ![p] = Append(@, [to |-> Head(wire[p]), ok |-> TRUE,
                                                         n |-> Value(p, Head(wire[p]))])]
      \/ /\ Fault /\ UNCHANGED <<inst, acted, plain>>
         /\ replies' = [replies EXCEPT ![p] = Append(@, [to |-> Head(wire[p]), ok |-> FALSE, n |-> 0])]
         /\ open' = [open EXCEPT ![p] = Head(wire[p]).kind # "hello"]
  BY Zenon DEF Respond
<1>5. \/ /\ Act(p, Now) /\ NoFault /\ UNCHANGED open
         /\ replies' = [replies EXCEPT ![p] = <<[to |-> Now, ok |-> TRUE, n |-> Value(p, Now)]>>]
      \/ /\ Fault /\ UNCHANGED <<inst, acted, plain>>
         /\ replies' = [replies EXCEPT ![p] = <<[to |-> Now, ok |-> FALSE, n |-> 0]>>]
         /\ open' = [open EXCEPT ![p] = Now.kind # "hello"]
  BY <1>2, <1>4, Zenon
<1> QED BY <1>1, <1>3, <1>5 DEF NoFault

LEMMA RespondConn ==
  ASSUME BaseInv, NEW p \in Paths, Respond(p)
  PROVE  ConnInv'
<1>1. /\ TypeOK /\ Shape /\ ConnInv /\ Waiting(p) /\ Asked(p) /\ Now' = Now /\ thread' = thread
      /\ Now \in Command /\ wire' = [wire EXCEPT ![p] = <<>>]
  BY RespondFacts, SameThread, NowIs DEF BaseInv, CallInv, threadVars, Waiting
<1>3. Value(p, Now) \in Nat
  BY <1>1, InstanceFields DEF Value, TypeOK
<1>4. PICK ok \in BOOLEAN, n \in Nat :
        /\ replies' = [replies EXCEPT ![p] = <<[to |-> Now, ok |-> ok, n |-> n]>>]
        /\ ok => Act(p, Now) /\ UNCHANGED <<open, faults>>
        /\ ~ok => /\ Fault /\ UNCHANGED <<inst, acted, plain>>
                  /\ open' = [open EXCEPT ![p] = Now.kind # "hello"]
  BY <1>3, RespondFacts
<1>7. \A q \in Paths : inst'[q].up = inst[q].up
  BY <1>1, <1>4, ActTypes
<1>8. ASSUME NEW q \in Paths
      PROVE  (open[q] => inst[q].up)' /\ (Quiet(q) \/ (Waiting(q) /\ (Asked(q) \/ Told(q))))'
  <2>1. open'[q] => open[q]
    BY <1>1, <1>4 DEF TypeOK, Asked
  <2>2. open'[q] => inst'[q].up
    BY <1>1, <1>7, <2>1 DEF ConnInv
  <2>3. CASE q = p
    <3>1. ReplyIs(p, ok, n)'
      BY <1>1, <1>4 DEF ReplyIs, TypeOK
    <3> QED BY <1>1, <1>4, <2>2, <2>3, <3>1 DEF Told, Waiting
  <2>4. CASE q # p
    BY <1>1, <1>4, <2>2, <2>4 DEF Quiet, TypeOK, ConnInv, Waiting
  <2> QED BY <2>3, <2>4
<1> QED BY <1>8 DEF ConnInv

LEMMA StillConnInv ==
  ASSUME BaseInv, UNCHANGED <<open, wire, replies>>, Now' = Now,
         thread'.at = thread.at, thread'.path = thread.path,
         \A p \in Paths : inst[p].up => inst'[p].up
  PROVE  ConnInv'
<1> SUFFICES ASSUME NEW p \in Paths
             PROVE  /\ open'[p] => inst'[p].up
                    /\ (Quiet(p) \/ (Waiting(p) /\ (Asked(p) \/ Told(p))))'
  BY DEF ConnInv
<1>1. (open[p] => inst[p].up) /\ (Quiet(p) \/ (Waiting(p) /\ (Asked(p) \/ Told(p))))
  BY DEF BaseInv, ConnInv
<1>2. open'[p] => inst'[p].up
  BY <1>1
<1>3. (Quiet(p)' <=> Quiet(p)) /\ (Waiting(p)' <=> Waiting(p))
  BY DEF Quiet, Waiting
<1>4. (Asked(p)' <=> Asked(p)) /\ (Told(p)' <=> Told(p))
  BY DEF Asked, Told, ReplyIs
<1> QED BY <1>1, <1>2, <1>3, <1>4

\* An instance that works on, or is started.
LEMMA InstanceConn ==
  ASSUME BaseInv, NEW p \in Paths, ReadOrphan(p) \/ StartRun(p) \/ EndRun(p) \/ Boot(p)
  PROVE  ConnInv'
<1>1. TypeOK /\ Shape /\ CallInv
  BY DEF BaseInv, CallInv
<1>2. UNCHANGED <<open, wire, replies, threadVars, jobVars>>
  BY <1>1, ReadOrphanFacts DEF StartRun, EndRun, Boot, connVars
<1>3. Now' = Now /\ thread' = thread
  BY <1>1, <1>2, SameThread DEF threadVars
<1>4. \A q \in Paths : inst[q].up => inst'[q].up
  <2>1. CASE ReadOrphan(p)
    <3>1. PICK c \in Effective : Act(p, c) \/ UNCHANGED <<inst, acted, plain>>
      BY <1>1, <2>1, ReadOrphanFacts
    <3>2. c \in Command
      BY EffectiveIs
    <3> QED BY <1>1, <3>1, <3>2, ActTypes
  <2>2. CASE StartRun(p) \/ EndRun(p)
    <3>1. PICK i \in Instance : inst' = [inst EXCEPT ![p] = i] /\ i.up = inst[p].up
      BY <1>1, <2>2, RunFacts
    <3> QED BY <1>1, <3>1 DEF TypeOK
  <2>3. CASE Boot(p)
    BY <1>1, <2>3 DEF Boot, TypeOK
  <2> QED BY <2>1, <2>2, <2>3
<1> QED BY <1>2, <1>3, <1>4, StillConnInv

LEMMA DieConn ==
  ASSUME BaseInv, NEW p \in Paths, Die(p)
  PROVE  ConnInv'
<1>1. TypeOK /\ ConnInv /\ Shape
  BY DEF BaseInv
<1>2. PICK i \in Instance : inst' = [inst EXCEPT ![p] = i] /\ ~i.up
  BY <1>1, DieFacts
<1>3. /\ open' = [open EXCEPT ![p] = FALSE] /\ wire' = [wire EXCEPT ![p] = <<>>]
      /\ UNCHANGED <<replies, threadVars, jobVars>>
  BY Zenon DEF Die
<1>4. Now' = Now /\ thread' = thread
  BY <1>1, <1>3, SameThread DEF threadVars
<1>6. ASSUME NEW q \in Paths
      PROVE  (open[q] => inst[q].up)' /\ (Quiet(q) \/ (Waiting(q) /\ (Asked(q) \/ Told(q))))'
  <2>1. CASE q = p
    BY <1>1, <1>3, <1>4, <2>1 DEF ConnInv, Quiet, Waiting, Asked, Told, ReplyIs, TypeOK
  <2>2. CASE q # p
    BY <1>1, <1>2, <1>3, <1>4, <2>2 DEF ConnInv, Quiet, Waiting, Asked, Told, ReplyIs, TypeOK
  <2> QED BY <2>1, <2>2
<1> QED BY <1>6 DEF ConnInv

LEMMA BaseInit ==
  ASSUME Init
  PROVE  BaseInv
<1>1. ConnInv
  BY StartedIs DEF Init, ConnInv, Quiet
<1> QED BY <1>1, CallInit DEF BaseInv, CallInv

LEMMA BaseStep ==
  ASSUME BaseInv, [Next]_vars, [InTime]_vars
  PROVE  BaseInv'
<1>0. CallInv /\ CallInv' /\ TypeOK /\ Shape
  BY CallStep DEF BaseInv, CallInv
<1> SUFFICES ConnInv'
  BY <1>0 DEF BaseInv, CallInv
<1>1. CASE \/ Pop \/ WarmUpEnds \/ Stat \/ Acquire \/ Refresh \/ NextCapture
           \/ \E p \in Paths : Visit(p) \/ AskSize(p) \/ Submit(p)
  <2>1. thread.at \notin {"recv", "connect"}
    BY <1>0, <1>1 DEF Pop, WarmUpEnds, Stat, Acquire, Refresh, NextCapture, Visit, AskSize, Submit
  <2>2. UNCHANGED <<inst, connVars>>
    BY <1>1 DEF Pop, WarmUpEnds, Stat, Acquire, Refresh, NextCapture, Visit, AskSize, Submit, Call
  <2> QED BY <2>1, <2>2, RestConn
<1>2. CASE Send \/ Receive \/ Connect
  BY <1>2, SendConn, ReceiveConn, ConnectConn
<1>3. CASE UNCHANGED vars
  <2>1. /\ UNCHANGED <<open, wire, replies>> /\ inst' = inst /\ thread' = thread
        /\ UNCHANGED <<threadVars, jobVars>>
    BY <1>3 DEF vars, connVars, threadVars
  <2> QED BY <1>0, <2>1, SameThread, StillConnInv
<1>4. CASE NoAnswer
  BY <1>3, <1>4, NoAnswerConn DEF InTime
<1>5. CASE \E p \in Paths : InstanceStep(p) \/ Die(p)
  BY <1>5, RespondConn, InstanceConn, DieConn DEF InstanceStep
<1>6. CASE \E c \in Captures : Announce(c)
  <2>1. UNCHANGED <<open, wire, replies>> /\ inst' = inst /\ UNCHANGED <<threadVars, jobVars>>
    BY <1>6 DEF Announce, connVars
  <2>2. thread' = thread
    BY <2>1 DEF threadVars
  <2> QED BY <1>0, <2>1, <2>2, SameThread, StillConnInv
<1>7. CASE Deadline
  <2>1. UNCHANGED <<open, wire, replies>> /\ inst' = inst
    BY <1>7 DEF Deadline, connVars
  <2> QED BY <1>0, <1>7, <2>1, DeadlineCall, StillConnInv
<1>8. CASE Crash
  BY <1>8 DEF Crash, ConnInv, Quiet
<1> QED BY <1>1, <1>2, <1>3, <1>4, <1>5, <1>6, <1>7, <1>8 DEF Next, ThreadStep

LEMMA AnswersFromBase ==
  ASSUME BaseInv
  PROVE  AnswersMatch
<1>1. ASSUME NEW p \in Paths
      PROVE  LET inFlight == {wire[p][i] : i \in DOMAIN wire[p]} \cup {replies[p][i].to : i \in DOMAIN replies[p]}
             IN  /\ Len(wire[p]) + Len(replies[p]) <= 1
                 /\ inFlight # {} => /\ thread.path = p
                                     /\ \/ thread.at = "connect"
                                        \/ thread.at = "recv" /\ inFlight = {Now}
  <2>1. CASE Quiet(p)
    BY <2>1 DEF Quiet
  <2>2. CASE Waiting(p) /\ Asked(p)
    BY <2>2 DEF Waiting, Asked
  <2>3. CASE Waiting(p) /\ Told(p)
    BY <2>3 DEF Waiting, Told, ReplyIs
  <2> QED BY <2>1, <2>2, <2>3 DEF BaseInv, ConnInv
<1> QED BY <1>1 DEF AnswersMatch

LEMMA BaseInvariance == Spec /\ [][InTime]_vars => []BaseInv
<1>1. Init => BaseInv
  BY BaseInit
<1>2. BaseInv /\ [Next]_vars /\ [InTime]_vars => BaseInv'
  BY BaseStep
<1> QED BY <1>1, <1>2, PTL DEF Spec

(* Where every handshake of a last attempt is answered in time there is no *)
(* other step than those in time: what the runs with Prompt are about.     *)
LEMMA PromptIsInTime == ASSUME Prompt PROVE Spec => [][InTime]_vars
<1>1. [Next]_vars => [InTime]_vars
  BY DEF InTime, NoAnswer, LateHandshake
<1> QED BY <1>1, PTL DEF Spec

(* Whatever times out, dies or is retried, the answer on a connection is   *)
(* that of the command the thread waits for, up to the first handshake of  *)
(* a last attempt that is late: every other late answer is cut off with    *)
(* its socket, as _send_command and _reconnect mean it.                    *)
THEOREM AnswersAreOwn == Spec /\ [][InTime]_vars => []AnswersMatch
BY BaseInvariance, AnswersFromBase, PTL

-----------------------------------------------------------------------------
(* A capture is run once, whatever is late.                                *)
(*                                                                         *)
(* It is acted on through one pcap command, which is on a connection,      *)
(* unread on a closed one or acted on already; while a capture may still   *)
(* be sent (Fresh) there is none.                                          *)

Times(s, x) == Cardinality({i \in DOMAIN s : s[i] = x})

LEMMA TimesType ==
  ASSUME NEW S, NEW s \in Seq(S), NEW x
  PROVE  Times(s, x) \in Nat /\ IsFiniteSet({i \in DOMAIN s : s[i] = x})
<1>1. IsFiniteSet(1 .. Len(s)) /\ DOMAIN s = 1 .. Len(s)
  BY FS_Interval
<1>2. IsFiniteSet({i \in DOMAIN s : s[i] = x})
  BY <1>1, FS_Subset
<1> QED BY <1>2, FS_CardinalityType DEF Times

LEMMA TimesEmpty ==
  ASSUME NEW x
  PROVE  Times(<<>>, x) = 0
<1>1. {i \in DOMAIN <<>> : <<>>[i] = x} = {}
  OBVIOUS
<1> QED BY <1>1, FS_EmptySet DEF Times

LEMMA TimesOther ==
  ASSUME NEW x, NEW y, y # x
  PROVE  Times(<<y>>, x) = 0
<1>1. {i \in DOMAIN <<y>> : <<y>>[i] = x} = {}
  OBVIOUS
<1> QED BY <1>1, FS_EmptySet DEF Times

LEMMA TimesAppend ==
  ASSUME NEW S, NEW s \in Seq(S), NEW y \in S, NEW x
  PROVE  Times(Append(s, y), x) = IF y = x THEN Times(s, x) + 1 ELSE Times(s, x)
<1> DEFINE T == {i \in DOMAIN s : s[i] = x}
           t == Append(s, y)
           U == {i \in DOMAIN t : t[i] = x}
           n == Len(s) + 1
<1>1. /\ Len(s) \in Nat /\ DOMAIN t = 1 .. n /\ t[n] = y
      /\ DOMAIN s = 1 .. Len(s) /\ \A i \in DOMAIN s : t[i] = s[i]
  OBVIOUS
<1>2. IsFiniteSet(T)
  BY TimesType
<1>2a. n \notin T
  BY <1>1
<1>3. DOMAIN t = DOMAIN s \cup {n}
  BY <1>1
<1> HIDE DEF t, n
<1>4. CASE y = x
  <2>1. U = T \cup {n}
    BY <1>1, <1>3, <1>4
  <2>2. Cardinality(U) = Cardinality(T) + 1
    BY <1>2, <1>2a, <2>1, FS_AddElement
  <2> QED BY <1>4, <2>2 DEF Times, t
<1>5. CASE y # x
  <2>1. U = T
    BY <1>1, <1>3, <1>5
  <2> QED BY <1>5, <2>1 DEF Times, t
<1> QED BY <1>4, <1>5

LEMMA TimesTail ==
  ASSUME NEW S, NEW s \in Seq(S), s # <<>>, NEW x
  PROVE  Times(Tail(s), x) = IF Head(s) = x THEN Times(s, x) - 1 ELSE Times(s, x)
<1> DEFINE t == Tail(s)
           T == {i \in DOMAIN t : t[i] = x}
           U == {i \in DOMAIN s : s[i] = x} \ {1}
           f == [i \in T |-> i + 1]
<1>1. /\ Len(s) \in Nat \ {0} /\ DOMAIN s = 1 .. Len(s) /\ t \in Seq(S)
      /\ DOMAIN t = 1 .. Len(s) - 1 /\ Head(s) = s[1]
      /\ \A i \in DOMAIN t : t[i] = s[i + 1]
  OBVIOUS
<1>2. IsFiniteSet(T) /\ IsFiniteSet({i \in DOMAIN s : s[i] = x})
  BY <1>1, TimesType
<1>3. f \in Bijection(T, U)
  <2> HIDE DEF t
  <2>1. f \in [T -> U] /\ \A a, b \in T : f[a] = f[b] => a = b
    BY <1>1
  <2>2. ASSUME NEW u \in U
        PROVE  \E a \in T : f[a] = u
    <3>1. u \in 2 .. Len(s) /\ s[u] = x
      BY <1>1
    <3>2. u - 1 \in DOMAIN t /\ t[u - 1] = s[u]
      BY <1>1, <3>1
    <3>3. u - 1 \in T /\ f[u - 1] = u
      BY <3>1, <3>2
    <3> QED BY <3>3
  <2> QED BY <2>1, <2>2 DEF Bijection, Injection, Surjection, IsInjective
<1>4. Cardinality(T) = Cardinality(U)
  BY <1>2, <1>3, FS_Bijection DEF ExistsBijection
<1>5. CASE Head(s) = x
  <2> DEFINE V == {i \in DOMAIN s : s[i] = x}
  <2>1. 1 \in V
    BY <1>1, <1>5
  <2>2. Cardinality(V \ {1}) = Cardinality(V) - 1
    BY <1>2, <2>1, FS_RemoveElement
  <2> QED BY <1>4, <1>5, <2>2 DEF Times
<1>6. CASE Head(s) # x
  <2>1. U = {i \in DOMAIN s : s[i] = x}
    BY <1>1, <1>6
  <2> QED BY <1>4, <1>6, <2>1 DEF Times
<1> QED BY <1>5, <1>6

\* The thread has sent the submission of c, or may have.
Sent(c) == /\ c = job /\ thread.outer = "pcap"
           /\ thread.sent \/ (thread.at = "recv" /\ thread.kind = "pcap")
Fresh(c) == verdict[c] = "none" /\ ~Sent(c)

\* The submissions of c the instance of p has yet to read, and whether a
\* client is told that c is queued.
Pending(p, c) == Unread(p)[Pcap(c)]
Confirmed(c) ==
  \E p \in Paths : \E i \in DOMAIN replies[p] : replies[p][i].to = Pcap(c) /\ replies[p][i].ok

OnceOK(c) ==
  /\ acted[c] <= 1
  /\ Fresh(c) => acted[c] = 0 /\ \A p \in Paths : Pending(p, c) = 0
  /\ \A p, q \in Paths :
       Pending(p, c) > 0 => acted[c] = 0 /\ Pending(p, c) = 1 /\ (Pending(q, c) > 0 => p = q)
  /\ Confirmed(c) => acted[c] = 1

\* A capture is announced once, and queued, under way or reported on.
QueueInv ==
  /\ \A i, j \in 1 .. Len(todo) : todo[i] = todo[j] => i = j
  /\ \A i \in 1 .. Len(todo) : verdict[todo[i]] = "none" /\ todo[i] # job
  /\ job \in Captures => verdict[job] = "none"

OnceInv == QueueInv /\ \A c \in Captures : OnceOK(c)

LEMMA PcapIs ==
  ASSUME NEW c \in Captures
  PROVE  Pcap(c) \in Effective /\ Pcap(c).kind = "pcap" /\ Pcap(c).cap = c
BY DEF Pcap, Effective

LEMMA PendingIs ==
  ASSUME NEW p \in Paths, NEW c \in Captures
  PROVE  /\ Pending(p, c) = orphans[p][Pcap(c)] + Times(wire[p], Pcap(c))
         /\ Pending(p, c)' = orphans'[p][Pcap(c)] + Times(wire'[p], Pcap(c))
BY PcapIs DEF Pending, Unread, Times

LEMMA PendingType ==
  ASSUME TypeOK, NEW p \in Paths, NEW c \in Captures
  PROVE  Pending(p, c) \in Nat /\ orphans[p][Pcap(c)] \in Nat /\ Times(wire[p], Pcap(c)) \in Nat
<1>1. Pcap(c) \in Effective /\ wire[p] \in Seq(Command) /\ orphans[p] \in [Effective -> Nat]
  BY PcapIs DEF TypeOK
<1>2. orphans[p][Pcap(c)] \in Nat /\ Times(wire[p], Pcap(c)) \in Nat
  BY <1>1, TimesType
<1> QED BY <1>2, PendingIs

LEMMA KeepsOnce ==
  ASSUME TypeOK, NEW c \in Captures, OnceOK(c), acted'[c] = acted[c], Fresh(c)' => Fresh(c),
         Confirmed(c)' => Confirmed(c),
         \A p \in Paths : Pending(p, c)' \in 0 .. Pending(p, c)
  PROVE  OnceOK(c)'
<1>1. \A p \in Paths : Pending(p, c) \in Nat
  BY PendingType
<1> QED BY <1>1 DEF OnceOK

\* A submission is read, and acted on or not.
LEMMA TakesOnce ==
  ASSUME TypeOK, NEW c \in Captures, OnceOK(c), Fresh(c)' => Fresh(c),
         NEW p \in Paths, Pending(p, c) > 0, Pending(p, c)' = Pending(p, c) - 1,
         \A q \in Paths : q # p => Pending(q, c)' = Pending(q, c),
         acted'[c] = acted[c] \/ acted'[c] = acted[c] + 1,
         Confirmed(c)' => Confirmed(c) \/ acted'[c] = acted[c] + 1
  PROVE  OnceOK(c)'
<1>1. \A q \in Paths : Pending(q, c) \in Nat
  BY PendingType
<1>2. /\ acted[c] = 0 /\ ~Fresh(c) /\ Pending(p, c) = 1 /\ ~Confirmed(c)
      /\ \A q \in Paths : q # p => Pending(q, c) = 0
  BY <1>1 DEF OnceOK
<1>3. \A q \in Paths : Pending(q, c)' = 0
  BY <1>1, <1>2
<1>4. acted'[c] <= 1 /\ (Confirmed(c)' => acted'[c] = 1) /\ ~Fresh(c)'
  BY <1>2
<1> QED BY <1>3, <1>4 DEF OnceOK

FreshBefore == \A c \in Captures : Fresh(c)' => Fresh(c)

\* Nothing is sent, and nothing read; what was on a connection may be left
\* unread when it is closed, or be lost.
ConnCalm ==
  \A p \in Paths :
    /\ \/ UNCHANGED <<wire[p], orphans[p]>>
       \/ orphans'[p] = Unread(p) /\ (wire'[p] = <<>> \/ (wire'[p] = <<Now>> /\ Now.kind # "pcap"))
       \/ orphans'[p] = [c \in Effective |-> 0] /\ wire'[p] = <<>>
    /\ \/ replies'[p] = replies[p] \/ replies'[p] = <<>>
       \/ replies[p] # <<>> /\ replies'[p] = Tail(replies[p])

LEMMA CalmOnce ==
  ASSUME CallInv, OnceInv, ConnCalm, acted' = acted, FreshBefore, QueueInv'
  PROVE  OnceInv'
<1> SUFFICES ASSUME NEW c \in Captures
             PROVE  OnceOK(c)'
  BY DEF OnceInv
<1> DEFINE P == Pcap(c)
<1>1. TypeOK /\ OnceOK(c) /\ acted'[c] = acted[c] /\ (Fresh(c)' => Fresh(c)) /\ P \in Effective
  BY PcapIs DEF CallInv, OnceInv, FreshBefore
<1>2. ASSUME NEW p \in Paths
      PROVE  Pending(p, c)' \in 0 .. Pending(p, c)
  <2>1. /\ Pending(p, c) \in Nat
        /\ Pending(p, c) = orphans[p][P] + Times(wire[p], P)
        /\ Pending(p, c)' = orphans'[p][P] + Times(wire'[p], P)
    BY <1>1, PendingType, PendingIs
  <2>2. CASE UNCHANGED <<wire[p], orphans[p]>>
    <3>1. Pending(p, c)' = Pending(p, c)
      BY <2>1, <2>2
    <3> QED BY <2>1, <3>1
  <2>3. CASE orphans'[p] = Unread(p) /\ (wire'[p] = <<>> \/ (wire'[p] = <<Now>> /\ Now.kind # "pcap"))
    <3>1. orphans'[p][P] = Pending(p, c)
      BY <2>3 DEF Pending
    <3>2. Times(wire'[p], P) = 0
      <4>1. CASE wire'[p] = <<>>
        BY <4>1, TimesEmpty
      <4>2. CASE wire'[p] = <<Now>> /\ Now.kind # "pcap"
        <5> DEFINE now == Now
        <5>1. now # P /\ wire'[p] = <<now>>
          BY <4>2, PcapIs
        <5> HIDE DEF now, P
        <5> QED BY <5>1, TimesOther
      <4> QED BY <2>3, <4>1, <4>2
    <3>3. Pending(p, c)' = Pending(p, c)
      BY <2>1, <3>1, <3>2
    <3> QED BY <2>1, <3>3
  <2>4. CASE orphans'[p] = [d \in Effective |-> 0] /\ wire'[p] = <<>>
    <3>1. orphans'[p][P] = 0 /\ Times(wire'[p], P) = 0
      BY <1>1, <2>4, TimesEmpty
    <3>2. Pending(p, c)' = 0
      BY <2>1, <3>1
    <3> QED BY <2>1, <3>2
  <2> QED BY <2>2, <2>3, <2>4 DEF ConnCalm
<1>3. Confirmed(c)' => Confirmed(c)
  <2>1. ASSUME NEW p \in Paths, NEW i \in DOMAIN replies'[p]
        PROVE  \E j \in DOMAIN replies[p] : replies[p][j] = replies'[p][i]
    <3>1. replies[p] \in Seq(Reply)
      BY <1>1 DEF TypeOK
    <3>2. CASE replies'[p] = replies[p]
      BY <2>1, <3>2
    <3>3. CASE replies'[p] = <<>>
      BY <2>1, <3>3
    <3>4. CASE replies[p] # <<>> /\ replies'[p] = Tail(replies[p])
      <4> DEFINE s == replies[p]
      <4>1. s \in Seq(Reply) /\ s # <<>> /\ i \in DOMAIN Tail(s)
        BY <2>1, <3>1, <3>4
      <4> HIDE DEF s
      <4>2. i + 1 \in DOMAIN s /\ Tail(s)[i] = s[i + 1]
        BY <4>1
      <4> QED BY <3>4, <4>2 DEF s
    <3> QED BY <3>2, <3>3, <3>4 DEF ConnCalm
  <2> QED BY <2>1 DEF Confirmed
<1> QED BY <1>1, <1>2, <1>3, KeepsOnce

LEMMA ClosedCalm ==
  ASSUME TypeOK, Closed(thread.path) \/ UNCHANGED connVars
  PROVE  ConnCalm
<1>1. CASE UNCHANGED connVars
  BY <1>1 DEF ConnCalm, connVars
<1>2. CASE Closed(thread.path)
  BY <1>2 DEF ConnCalm, Closed, TypeOK
<1> QED BY <1>1, <1>2

\* A thread that is not waiting for a submission goes on with its call.
LEMMA GoesOn ==
  ASSUME QueueInv, thread'.outer = thread.outer, thread'.sent = thread.sent,
         ~(thread.at = "recv" /\ thread.kind = "pcap"), UNCHANGED <<verdict, job, todo>>
  PROVE  FreshBefore /\ QueueInv'
BY DEF FreshBefore, Fresh, Sent, QueueInv

\* Nothing was sent, or the report is made.
LEMMA Reported ==
  ASSUME CallInv, QueueInv, NEW ok \in BOOLEAN, Submitted(ok), thread.outer = "pcap", todo' = todo
  PROVE  FreshBefore /\ QueueInv'
<1>1. job \in Captures /\ NoCapture \notin Captures /\ todo \in Seq(Captures) /\ TypeOK
  BY SuricataSubmitAssumption DEF CallInv, Shape, TypeOK
<1>2. job' = NoCapture /\ verdict' = [verdict EXCEPT ![job] = IF ok THEN "submitted" ELSE "failed"]
  BY DEF Submitted
<1>3. verdict'[job] # "none" /\ \A c \in Captures \ {job} : verdict'[c] = verdict[c]
  BY <1>1, <1>2 DEF TypeOK
<1>4. FreshBefore
  BY <1>2, <1>3 DEF FreshBefore, Fresh, Sent
<1>5. QueueInv'
  <2>1. \A i \in 1 .. Len(todo) : todo[i] \in Captures
    BY <1>1
  <2> QED BY <1>1, <1>2, <1>3, <2>1 DEF QueueInv
<1> QED BY <1>4, <1>5

LEMMA NoneSent ==
  ASSUME QueueInv, \A c \in Captures : ~Sent(c), UNCHANGED <<verdict, job, todo>>
  PROVE  FreshBefore /\ QueueInv'
BY DEF FreshBefore, Fresh, QueueInv

LEMMA EndedCalm ==
  ASSUME CallInv, QueueInv, Ended, ~(thread.at = "recv" /\ thread.kind = "pcap"), todo' = todo
  PROVE  FreshBefore /\ QueueInv'
<1>1. CASE thread.outer = "size" /\ Sized(SizeError)
  BY <1>1, NoneSent DEF Sized, jobVars, Sent
<1>2. CASE thread.outer = "pcap" /\ Submitted(FALSE)
  BY <1>2, Reported
<1>3. CASE thread.outer = "none" /\ \E ok \in BOOLEAN : Constructed(ok)
  BY <1>3, NoneSent DEF Constructed, Sent
<1>4. CASE thread.outer # "none" /\ (thread.outer = "pcap" => ~thread.sent) /\ Goto(Resent)
  BY <1>4, NoneSent DEF Goto, jobVars, Sent
<1> QED BY <1>1, <1>2, <1>3, <1>4 DEF Ended

LEMMA GotoCalm ==
  ASSUME QueueInv, NEW t, Goto(t), t.outer = thread.outer, t.sent = thread.sent,
         ~(thread.at = "recv" /\ thread.kind = "pcap"), todo' = todo
  PROVE  FreshBefore /\ QueueInv'
BY GoesOn DEF Goto, jobVars

LEMMA NotConnectedCalm ==
  ASSUME CallInv, QueueInv, NotConnected, thread.kind = "hello", todo' = todo
  PROVE  FreshBefore /\ QueueInv'
<1> DEFINE t == [thread EXCEPT !.at = "connect", !.kind = "hello", !.connects = @ + 1]
<1>1. t.outer = thread.outer /\ t.sent = thread.sent
  BY DEF CallInv, TypeOK, Thread
<1>2. Goto(t) => FreshBefore /\ QueueInv'
  BY <1>1, GotoCalm
<1> QED BY <1>2, EndedCalm, NotConnectedCases DEF CallInv

LEMMA EnsureCalm ==
  ASSUME CallInv, QueueInv, NEW ok \in BOOLEAN, NEW n \in Nat, EnsureStep(ok, n),
         thread.kind \in Inner, todo' = todo
  PROVE  FreshBefore /\ QueueInv'
<1>1. TypeOK /\ thread.kind # "pcap"
  BY DEF CallInv, Inner
<1>2. ASSUME NEW k, NEW idle, NEW quiet, Asks(k, idle, quiet)
      PROVE  FreshBefore /\ QueueInv'
  <2> DEFINE t == [thread EXCEPT !.at = "send", !.kind = k, !.idle = idle, !.quiet = quiet]
  <2>1. t.outer = thread.outer /\ t.sent = thread.sent
    BY <1>1 DEF TypeOK, Thread
  <2> QED BY <1>1, <1>2, <2>1, GotoCalm DEF Asks
<1>3. Ended => FreshBefore /\ QueueInv'
  BY <1>1, EndedCalm
<1> QED BY <1>1, <1>2, <1>3, EnsureCases

LEMMA FailedCalm ==
  ASSUME CallInv, QueueInv, NEW sent \in BOOLEAN, Failed(sent), thread.at \in {"send", "recv"},
         thread.at = "recv" => sent, todo' = todo
  PROVE  FreshBefore /\ QueueInv'
<1>1. TypeOK /\ Shape
  BY DEF CallInv
<1>2. CASE thread.kind = "hello" /\ NotConnected
  BY <1>2, NotConnectedCalm
<1>3. CASE thread.kind \in Inner /\ EnsureStep(FALSE, 0)
  BY <1>3, EnsureCalm
<1>4. CASE thread.kind \in Outer /\ GiveUp
  <2>1. CASE thread.outer = "pcap"
    BY <1>1, <1>4, <2>1, Reported DEF GiveUp
  <2>2. CASE thread.outer # "pcap"
    <3>1. ~(thread.at = "recv" /\ thread.kind = "pcap")
      BY <1>1, <2>2 DEF Shape, Outer
    <3> QED BY <1>1, <1>4, <3>1, GiveUpEnds, EndedCalm
  <2> QED BY <2>1, <2>2
<1>5. CASE thread.kind \in Outer /\ Retried(sent)
  <2> DEFINE t == [thread EXCEPT !.at = "connect", !.kind = "hello", !.sent = sent,
                                 !.tries = @ + 1, !.connects = 0]
  <2>1. thread' = t /\ UNCHANGED <<verdict, job>> /\ t.outer = thread.outer /\ t.sent = sent
    BY <1>1, <1>5 DEF Retried, Goto, jobVars, TypeOK, Thread
  <2> HIDE DEF t
  <2>2. \A c \in Captures : Sent(c) => Sent(c)'
    BY <1>1, <1>5, <2>1 DEF Sent, Shape
  <2> QED BY <2>1, <2>2 DEF FreshBefore, Fresh, QueueInv
<1> QED BY <1>1, <1>2, <1>3, <1>4, <1>5, FailedCases

LEMMA PopQueue ==
  ASSUME CallInv, QueueInv, Pop
  PROVE  FreshBefore /\ QueueInv'
<1>1. /\ todo # <<>> /\ todo \in Seq(Captures) /\ todo' = Tail(todo) /\ TypeOK
      /\ thread.outer = "none" /\ NoCapture \notin Captures
  BY SuricataSubmitAssumption DEF Pop, CallInv, TypeOK, Shape, Calling
<1>2. /\ Head(todo) = todo[1] /\ todo[1] \in Captures /\ Len(todo') = Len(todo) - 1
      /\ 1 \in 1 .. Len(todo)
      /\ \A i \in 1 .. Len(todo') : /\ todo'[i] = todo[i + 1] /\ i + 1 \in 1 .. Len(todo)
                                    /\ todo'[i] \in Captures
  BY <1>1
<1>3. \A i \in 1 .. Len(todo') : todo'[i] # todo[1]
  BY <1>2 DEF QueueInv
<1>4. \A i, j \in 1 .. Len(todo') : todo'[i] = todo'[j] => i = j
  BY <1>1, <1>2 DEF QueueInv
<1>5. CASE job' = Head(todo) /\ thread' = At("choose") /\ verdict' = verdict
  <2>1. At("choose").outer = "none"
    BY AtFields DEF Phases
  <2>2. FreshBefore
    BY <1>1, <1>5, <2>1 DEF FreshBefore, Fresh, Sent
  <2>3. job' = todo[1] /\ verdict[todo[1]] = "none"
    BY <1>2, <1>5 DEF QueueInv
  <2>4. \A i \in 1 .. Len(todo') : verdict[todo'[i]] = "none"
    BY <1>2 DEF QueueInv
  <2>5. \A i \in 1 .. Len(todo') : verdict'[todo'[i]] = "none" /\ todo'[i] # job'
    BY <1>3, <1>5, <2>3, <2>4
  <2>6. QueueInv'
    BY <1>4, <1>5, <2>3, <2>5 DEF QueueInv
  <2> QED BY <2>2, <2>6
<1>6. CASE /\ verdict' = [verdict EXCEPT ![Head(todo)] = "dropped"]
           /\ thread' = At("done") /\ job' = job
  <2>1. verdict'[todo[1]] # "none" /\ \A c \in Captures \ {todo[1]} : verdict'[c] = verdict[c]
    BY <1>1, <1>2, <1>6 DEF TypeOK
  <2>2. FreshBefore
    BY <1>1, <2>1 DEF FreshBefore, Fresh, Sent
  <2>3. job # todo[1]
    BY <1>2 DEF QueueInv
  <2> QED BY <1>2, <1>3, <1>4, <1>6, <2>1, <2>2, <2>3 DEF QueueInv
<1> QED BY <1>5, <1>6 DEF Pop

\* The steps of the thread that send no command.
LEMMA CalmThreadOnce ==
  ASSUME CallInv, OnceInv,
         \/ Pop \/ WarmUpEnds \/ Stat \/ Acquire \/ Receive \/ NoAnswer \/ Connect
         \/ Refresh \/ NextCapture
         \/ \E p \in Paths : AskSize(p) \/ Submit(p) \/ Visit(p)
  PROVE  OnceInv'
<1>1. TypeOK /\ Shape /\ QueueInv
  BY DEF CallInv, OnceInv
<1>2. CASE Pop
  <2>1. acted' = acted /\ UNCHANGED connVars
    BY <1>2 DEF Pop
  <2> QED BY <1>1, <1>2, <2>1, PopQueue, ClosedCalm, CalmOnce
<1>3. CASE WarmUpEnds
  <2>1. acted' = acted /\ UNCHANGED connVars /\ todo' = todo /\ thread.at = "send"
    BY <1>3 DEF WarmUpEnds
  <2>2. Ended
    BY <1>1, <1>3, ConnectedEnds DEF WarmUpEnds, Ensured
  <2> QED BY <1>1, <2>1, <2>2, EndedCalm, ClosedCalm, CalmOnce
<1>4. CASE Stat
  <2>1. acted' = acted /\ UNCHANGED connVars /\ todo' = todo /\ thread.at = "stat"
    BY <1>4 DEF Stat
  <2> DEFINE t == [thread EXCEPT !.at = "lock", !.id = inst[thread.path].boot]
  <2>2. t.outer = thread.outer /\ t.sent = thread.sent
    BY <1>1 DEF TypeOK, Thread
  <2>3. Goto(t) \/ Ended
    BY <1>1, <1>4, ConnectedEnds DEF Stat
  <2> HIDE DEF t
  <2> QED BY <1>1, <2>1, <2>2, <2>3, GotoCalm, EndedCalm, ClosedCalm, CalmOnce
<1>5. CASE Acquire
  <2>1. acted' = acted /\ UNCHANGED connVars /\ todo' = todo /\ thread.at = "lock"
    BY <1>5 DEF Acquire
  <2> DEFINE t == [thread EXCEPT !.at = "send", !.kind = "warm"]
  <2>2. t.outer = thread.outer /\ t.sent = thread.sent
    BY <1>1 DEF TypeOK, Thread
  <2>3. Goto(t) \/ Ended
    BY <1>1, <1>5, ConnectedEnds DEF Acquire, Ask
  <2> HIDE DEF t
  <2> QED BY <1>1, <2>1, <2>2, <2>3, GotoCalm, EndedCalm, ClosedCalm, CalmOnce
<1>6. CASE NoAnswer
  <2>1. acted' = acted /\ todo' = todo /\ thread.at = "recv" /\ Failed(TRUE)
    BY <1>1, <1>6, NoAnswerFacts
  <2>2. ConnCalm
    BY <1>1, <2>1, FailedCloses, ClosedCalm
  <2> QED BY <1>1, <2>1, <2>2, FailedCalm, CalmOnce
<1>7. CASE Receive
  <2> DEFINE r == Head(replies[thread.path])
  <2>1. /\ acted' = acted /\ todo' = todo /\ thread.at = "recv" /\ r \in Reply /\ Answered(r)
        /\ replies[thread.path] # <<>> /\ UNCHANGED <<wire, orphans>>
        /\ replies' = [replies EXCEPT ![thread.path] = Tail(@)]
    BY <1>7, ReceiveFacts
  <2>2. ConnCalm
    BY <1>1, <2>1 DEF ConnCalm, TypeOK
  <2> HIDE DEF r
  <2>3. r.ok \in BOOLEAN /\ r.n \in Nat
    BY <1>1, <2>1, AnsweredCases
  <2>4. FreshBefore /\ QueueInv'
    <3>1. CASE thread.kind \in Inner /\ EnsureStep(r.ok, r.n)
      BY <1>1, <2>1, <2>3, <3>1, EnsureCalm
    <3>2. CASE thread.kind = "hello" /\ Goto([thread EXCEPT !.at = "stat"])
      <4> DEFINE t == [thread EXCEPT !.at = "stat"]
      <4>1. t.outer = thread.outer /\ t.sent = thread.sent
        BY <1>1 DEF TypeOK, Thread
      <4> HIDE DEF t
      <4>2. Goto(t)
        BY <3>2 DEF t
      <4> QED BY <1>1, <2>1, <3>2, <4>1, <4>2, GotoCalm
    <3>3. CASE thread.kind = "hello" /\ NotConnected
      BY <1>1, <2>1, <3>3, NotConnectedCalm
    <3>4. CASE thread.kind = "size" /\ \E m : Sized(m)
      BY <1>1, <2>1, <3>4, NoneSent DEF Sized, jobVars, Sent, Shape, Outer
    <3>5. CASE thread.kind = "pcap" /\ Submitted(r.ok)
      BY <1>1, <2>1, <2>3, <3>5, Reported DEF Shape, Outer
    <3> QED BY <1>1, <2>1, <3>1, <3>2, <3>3, <3>4, <3>5, AnsweredCases
  <2> QED BY <2>1, <2>2, <2>4, CalmOnce
<1>8. CASE Connect
  <2>1. /\ thread.at = "connect" /\ thread.path \in Paths /\ thread.kind = "hello"
        /\ orphans' = [orphans EXCEPT ![thread.path] = Unread(thread.path)]
        /\ replies' = [replies EXCEPT ![thread.path] = <<>>]
        /\ UNCHANGED <<todo, acted>>
        /\ \/ /\ Goto([thread EXCEPT !.at = "recv"])
              /\ wire' = [wire EXCEPT ![thread.path] = <<Now>>]
           \/ NotConnected /\ wire' = [wire EXCEPT ![thread.path] = <<>>]
    BY <1>8, ConnectFacts
  <2>2. Now.kind # "pcap"
    BY <2>1 DEF Now
  <2>3. ConnCalm
    <3>1. ASSUME NEW p \in Paths, p # thread.path
          PROVE  UNCHANGED <<wire[p], orphans[p], replies[p]>>
      BY <1>1, <2>1, <3>1 DEF TypeOK
    <3>2. /\ orphans'[thread.path] = Unread(thread.path) /\ replies'[thread.path] = <<>>
          /\ wire'[thread.path] = <<>> \/ wire'[thread.path] = <<Now>>
      BY <1>1, <2>1 DEF TypeOK
    <3> QED BY <2>2, <3>1, <3>2, Zenon DEF ConnCalm
  <2>4. FreshBefore /\ QueueInv'
    <3> DEFINE t == [thread EXCEPT !.at = "recv"]
    <3>1. t.outer = thread.outer /\ t.sent = thread.sent
      BY <1>1 DEF TypeOK, Thread
    <3> HIDE DEF t
    <3>2. Goto(t) \/ NotConnected
      BY <2>1 DEF t
    <3> QED BY <1>1, <2>1, <3>1, <3>2, GotoCalm, NotConnectedCalm
  <2> QED BY <2>1, <2>3, <2>4, CalmOnce
<1>9. CASE Refresh \/ NextCapture \/ \E p \in Paths : Visit(p)
  <2>1. UNCHANGED <<acted, verdict, job, todo, connVars>>
    BY <1>9 DEF Refresh, NextCapture, Visit, jobVars
  <2>2. thread.outer = "none"
    BY <1>1, <1>9 DEF Refresh, NextCapture, Visit, Shape, Calling
  <2>3. FreshBefore /\ QueueInv'
    BY <1>1, <2>1, <2>2, NoneSent DEF Sent
  <2> QED BY <1>1, <2>1, <2>3, ClosedCalm, CalmOnce
<1>10. CASE \E p \in Paths : AskSize(p) \/ Submit(p)
  <2>1. PICK p \in Paths, k \in Outer : Call(p, k) /\ thread.at = "choose" /\ sizes' = sizes
    BY <1>10 DEF AskSize, Submit, Outer
  <2>2. UNCHANGED <<acted, verdict, job, todo, connVars>>
    BY <2>1 DEF Call, jobVars
  <2>3. thread.outer = "none"
    BY <1>1, <2>1 DEF Shape, Calling
  <2>4. FreshBefore /\ QueueInv'
    BY <1>1, <2>2, <2>3, NoneSent DEF Sent
  <2> QED BY <1>1, <2>2, <2>4, ClosedCalm, CalmOnce
<1> QED BY <1>2, <1>3, <1>4, <1>5, <1>6, <1>7, <1>8, <1>9, <1>10

LEMMA NowPcap ==
  ASSUME NEW c \in Captures, Now = Pcap(c)
  PROVE  thread.kind = "pcap" /\ c = job
BY DEF Now, Pcap

\* A capture is sent while it is fresh, and is not fresh once it was sent.
LEMMA SendOnce ==
  ASSUME CallInv, OnceInv, Send
  PROVE  OnceInv'
<1>1. /\ TypeOK /\ Shape /\ thread.at = "send" /\ QueueInv /\ thread.path \in Paths
      /\ UNCHANGED <<acted, todo>> /\ Now \in Command
      /\ \/ open[thread.path] /\ Sends /\ Now' = Now
         \/ ~open[thread.path] /\ Failed(FALSE)
  BY SendCall, NowIs DEF CallInv, OnceInv
<1>2. CASE ~open[thread.path] /\ Failed(FALSE)
  <2>1. ConnCalm
    BY <1>1, <1>2, FailedCloses, ClosedCalm
  <2> QED BY <1>1, <1>2, <2>1, FailedCalm, CalmOnce
<1>3. CASE Sends
  <2>1. /\ wire' = [wire EXCEPT ![thread.path] = Append(@, Now)]
        /\ thread' = [thread EXCEPT !.at = "recv"]
        /\ UNCHANGED <<orphans, replies, job, verdict, todo, acted>>
    BY <1>1, <1>3 DEF Sends, jobVars
  <2>2. /\ thread'.at = "recv" /\ thread'.kind = thread.kind /\ thread'.outer = thread.outer
        /\ thread'.sent = thread.sent
    BY <1>1, <2>1 DEF TypeOK, Thread
  <2>3. QueueInv'
    BY <1>1, <2>1 DEF QueueInv
  <2>4. ASSUME NEW c \in Captures
        PROVE  OnceOK(c)'
    <3> DEFINE P == Pcap(c)
    <3>1. OnceOK(c) /\ (Confirmed(c)' <=> Confirmed(c)) /\ (Fresh(c)' => Fresh(c))
      BY <1>1, <2>1, <2>2 DEF OnceInv, Confirmed, Fresh, Sent
    <3>2. ASSUME NEW p \in Paths
          PROVE  Pending(p, c)' = IF p = thread.path /\ Now = P THEN Pending(p, c) + 1 ELSE Pending(p, c)
      <4>1. /\ Pending(p, c) = orphans[p][P] + Times(wire[p], P)
            /\ Pending(p, c)' = orphans[p][P] + Times(wire'[p], P)
            /\ orphans[p][P] \in Nat /\ Times(wire[p], P) \in Nat
        BY <1>1, <2>1, PendingIs, PendingType
      <4>2. CASE p = thread.path
        <5>1. wire'[p] = Append(wire[p], Now) /\ wire[p] \in Seq(Command)
          BY <1>1, <2>1, <4>2 DEF TypeOK
        <5>2. Times(wire'[p], P) = IF Now = P THEN Times(wire[p], P) + 1 ELSE Times(wire[p], P)
          BY <1>1, <5>1, TimesAppend
        <5> QED BY <4>1, <4>2, <5>2
      <4>3. CASE p # thread.path
        BY <1>1, <2>1, <4>1, <4>3 DEF TypeOK
      <4> QED BY <4>2, <4>3
    <3>3. CASE Now # P
      <4>1. \A p \in Paths : Pending(p, c)' \in 0 .. Pending(p, c)
        BY <1>1, <3>2, <3>3, PendingType
      <4> QED BY <1>1, <2>1, <3>1, <4>1, KeepsOnce
    <3>4. CASE Now = P
      <4>1. thread.kind = "pcap" /\ c = job
        BY <3>4, NowPcap
      <4>2. Fresh(c) /\ ~Fresh(c)'
        BY <1>1, <2>1, <2>2, <4>1 DEF Fresh, Sent, QueueInv, Shape, Outer
      <4>3. acted[c] = 0 /\ acted'[c] = 0 /\ \A p \in Paths : Pending(p, c) = 0
        BY <2>1, <3>1, <4>2 DEF OnceOK
      <4>4. \A p \in Paths : Pending(p, c)' = IF p = thread.path THEN 1 ELSE 0
        BY <3>2, <3>4, <4>3
      <4>5. ~Confirmed(c)'
        BY <3>1, <4>3 DEF OnceOK
      <4> QED BY <4>2, <4>3, <4>4, <4>5 DEF OnceOK
    <3> QED BY <3>3, <3>4
  <2> QED BY <2>3, <2>4 DEF OnceInv
<1> QED BY <1>1, <1>2, <1>3

LEMMA SameOnceVars ==
  ASSUME UNCHANGED <<threadVars, jobVars, todo>>
  PROVE  /\ Now' = Now /\ \A c \in Captures : Fresh(c)' <=> Fresh(c)
         /\ QueueInv => QueueInv'
BY DEF threadVars, jobVars, Now, Fresh, Sent, QueueInv

LEMMA ActCounts ==
  ASSUME TypeOK, NEW p, NEW c \in Command, Act(p, c)
  PROVE  \A d \in Captures : acted'[d] = IF c = Pcap(d) THEN acted[d] + 1 ELSE acted[d]
<1>1. CASE c.kind = "pcap"
  <2>1. c.cap \in Captures /\ c = Pcap(c.cap) /\ acted' = [acted EXCEPT ![c.cap] = @ + 1]
    BY <1>1, CommandIs DEF Act
  <2>2. \A d \in Captures : c = Pcap(d) <=> d = c.cap
    BY <2>1, PcapIs
  <2> QED BY <2>1, <2>2 DEF TypeOK
<1>2. CASE c.kind # "pcap"
  <2>1. acted' = acted /\ \A d \in Captures : c # Pcap(d)
    BY <1>2, PcapIs DEF Act
  <2> QED BY <2>1
<1> QED BY <1>1, <1>2

LEMMA RespondOnce ==
  ASSUME CallInv, OnceInv, NEW p \in Paths, Respond(p)
  PROVE  OnceInv'
<1> DEFINE e == Head(wire[p])
<1>1. /\ TypeOK /\ wire[p] # <<>> /\ e \in Command /\ wire' = [wire EXCEPT ![p] = Tail(@)]
      /\ UNCHANGED <<orphans, threadVars, jobVars, todo>>
  BY RespondTypes DEF CallInv
<1>2. (\A c \in Captures : Fresh(c)' <=> Fresh(c)) /\ QueueInv'
  BY <1>1, SameOnceVars DEF OnceInv
<1>3. PICK ok \in BOOLEAN, n \in Nat :
        /\ replies' = [replies EXCEPT ![p] = Append(@, [to |-> e, ok |-> ok, n |-> n])]
        /\ ok => Act(p, e)
        /\ ~ok => acted' = acted
  BY RespondTypes
<1>4. ASSUME NEW c \in Captures
      PROVE  OnceOK(c)'
  <2> DEFINE P == Pcap(c)
  <2>1. OnceOK(c) /\ acted[c] \in Nat /\ wire[p] \in Seq(Command) /\ replies[p] \in Seq(Reply)
    BY <1>1 DEF OnceInv, TypeOK
  <2>2. Pending(p, c)' = IF e = P THEN Pending(p, c) - 1 ELSE Pending(p, c)
    <3>1. /\ Pending(p, c) = orphans[p][P] + Times(wire[p], P)
          /\ Pending(p, c)' = orphans[p][P] + Times(wire'[p], P)
          /\ orphans[p][P] \in Nat /\ Times(wire[p], P) \in Nat
      BY <1>1, PendingIs, PendingType
    <3>2. wire'[p] = Tail(wire[p])
      BY <1>1 DEF TypeOK
    <3>3. Times(wire'[p], P) = IF e = P THEN Times(wire[p], P) - 1 ELSE Times(wire[p], P)
      BY <1>1, <2>1, <3>2, TimesTail
    <3> QED BY <3>1, <3>3
  <2>3. \A q \in Paths : q # p => Pending(q, c)' = Pending(q, c)
    <3>1. \A q \in Paths : q # p => wire'[q] = wire[q]
      BY <1>1 DEF TypeOK
    <3> QED BY <1>1, <3>1, PendingIs
  <2>4. acted'[c] = IF ok /\ e = P THEN acted[c] + 1 ELSE acted[c]
    BY <1>1, <1>3, ActCounts
  <2>5. Confirmed(c)' => Confirmed(c) \/ (ok /\ e = P)
    <3> DEFINE r == [to |-> e, ok |-> ok, n |-> n]
               s == replies[p]
    <3>1. ASSUME NEW q \in Paths, q # p
          PROVE  replies'[q] = replies[q]
      BY <1>1, <1>3, <3>1 DEF TypeOK
    <3>2. replies'[p] = Append(s, r)
      BY <1>1, <1>3 DEF TypeOK
    <3>3. r.to = e /\ r.ok = ok
      OBVIOUS
    <3> HIDE DEF r, s, e
    <3>4. ASSUME NEW i \in DOMAIN replies'[p]
          PROVE  (i \in DOMAIN s /\ replies'[p][i] = s[i]) \/ replies'[p][i] = r
      BY <2>1, <3>2, <3>4 DEF s
    <3> QED BY <3>1, <3>3, <3>4 DEF Confirmed, s
  <2>6. CASE e = P
    <3>1. Pending(p, c) > 0
      <4>1. 1 \in DOMAIN wire[p] /\ wire[p][1] = P
        BY <1>1, <2>1, <2>6
      <4>2. Times(wire[p], P) # 0
        <5>1. IsFiniteSet({i \in DOMAIN wire[p] : wire[p][i] = P})
          BY <2>1, TimesType
        <5>2. {i \in DOMAIN wire[p] : wire[p][i] = P} # {}
          BY <4>1
        <5> QED BY <5>1, <5>2, FS_EmptySet DEF Times
      <4> QED BY <1>1, <4>2, PendingIs, PendingType
    <3>2. acted'[c] = acted[c] \/ acted'[c] = acted[c] + 1
      BY <2>4
    <3>3. Confirmed(c)' => Confirmed(c) \/ acted'[c] = acted[c] + 1
      BY <2>4, <2>5
    <3>4. Pending(p, c)' = Pending(p, c) - 1
      BY <2>2, <2>6
    <3> HIDE DEF e
    <3> QED BY <1>1, <1>2, <2>1, <2>3, <3>1, <3>2, <3>3, <3>4, TakesOnce
  <2>7. CASE e # P
    <3>1. Confirmed(c)' => Confirmed(c)
      BY <2>5, <2>7
    <3>2. acted'[c] = acted[c] /\ \A q \in Paths : Pending(q, c)' = Pending(q, c)
      BY <2>2, <2>3, <2>4, <2>7
    <3>3. \A q \in Paths : Pending(q, c)' \in 0 .. Pending(q, c)
      BY <1>1, <3>2, PendingType
    <3> QED BY <1>1, <1>2, <2>1, <3>1, <3>2, <3>3, KeepsOnce
  <2> QED BY <2>6, <2>7
<1> QED BY <1>2, <1>4 DEF OnceInv

LEMMA ReadOrphanOnce ==
  ASSUME CallInv, OnceInv, NEW p \in Paths, ReadOrphan(p)
  PROVE  OnceInv'
<1>1. PICK e \in Effective :
        /\ orphans[p][e] > 0
        /\ \A q \in Paths, d \in Effective :
             orphans'[q][d] = IF q = p /\ d = e THEN orphans[q][d] - 1 ELSE orphans[q][d]
        /\ Act(p, e) \/ UNCHANGED <<inst, acted, plain>>
  BY ReadOrphanFacts
<1>2. UNCHANGED <<wire, replies, threadVars, jobVars, todo>> /\ TypeOK
  BY ReadOrphanFacts DEF CallInv
<1>3. (\A c \in Captures : Fresh(c)' <=> Fresh(c)) /\ QueueInv'
  BY <1>2, SameOnceVars DEF OnceInv
<1>4. ASSUME NEW c \in Captures
      PROVE  OnceOK(c)'
  <2> DEFINE P == Pcap(c)
  <2>1. OnceOK(c) /\ P \in Effective /\ (Confirmed(c)' <=> Confirmed(c))
    BY <1>2, PcapIs DEF OnceInv, Confirmed
  <2>2. ASSUME NEW q \in Paths
        PROVE  Pending(q, c)' = IF q = p /\ e = P THEN Pending(q, c) - 1 ELSE Pending(q, c)
    <3>1. /\ Pending(q, c) = orphans[q][P] + Times(wire[q], P)
          /\ Pending(q, c)' = orphans'[q][P] + Times(wire[q], P)
          /\ orphans[q][P] \in Nat /\ Times(wire[q], P) \in Nat
      BY <1>2, PendingIs, PendingType
    <3>2. orphans'[q][P] = IF q = p /\ e = P THEN orphans[q][P] - 1 ELSE orphans[q][P]
      BY <1>1, <2>1
    <3> QED BY <3>1, <3>2
  <2>3. acted[c] \in Nat /\ (acted'[c] = acted[c] \/ (e = P /\ acted'[c] = acted[c] + 1))
    <3>1. acted[c] \in Nat
      BY <1>2 DEF TypeOK
    <3>2. CASE Act(p, e)
      BY <1>2, <3>1, <3>2, ActCounts, EffectiveIs
    <3> QED BY <1>1, <3>1, <3>2
  <2>4. CASE e = P
    <3>1. Pending(p, c) > 0
      BY <1>1, <1>2, <2>4, PendingIs, PendingType
    <3>2. Pending(p, c)' = Pending(p, c) - 1 /\ \A q \in Paths : q # p => Pending(q, c)' = Pending(q, c)
      BY <2>2, <2>4
    <3> QED BY <1>2, <1>3, <2>1, <2>3, <3>1, <3>2, TakesOnce
  <2>5. CASE e # P
    <3>1. acted'[c] = acted[c]
      BY <2>3, <2>5
    <3>2. \A q \in Paths : Pending(q, c)' \in 0 .. Pending(q, c)
      BY <1>2, <2>2, <2>5, PendingType
    <3> QED BY <1>2, <1>3, <2>1, <3>1, <3>2, KeepsOnce
  <2> QED BY <2>4, <2>5
<1> QED BY <1>3, <1>4 DEF OnceInv

LEMMA DieOnce ==
  ASSUME CallInv, OnceInv, NEW p \in Paths, Die(p)
  PROVE  OnceInv'
<1>1. /\ wire' = [wire EXCEPT ![p] = <<>>]
      /\ orphans' = [orphans EXCEPT ![p] = [c \in Effective |-> 0]]
      /\ UNCHANGED <<replies, threadVars, jobVars, todo, acted>>
  BY Zenon DEF Die
<1>2. TypeOK /\ FreshBefore /\ QueueInv'
  BY <1>1, SameOnceVars DEF CallInv, OnceInv, FreshBefore
<1>3. ConnCalm
  <2>1. ASSUME NEW q \in Paths, q # p
        PROVE  UNCHANGED <<wire[q], orphans[q]>>
    BY <1>1, <1>2, <2>1 DEF TypeOK
  <2>2. wire'[p] = <<>> /\ orphans'[p] = [c \in Effective |-> 0]
    BY <1>1, <1>2 DEF TypeOK
  <2> QED BY <1>1, <2>1, <2>2, Zenon DEF ConnCalm
<1> QED BY <1>1, <1>2, <1>3, CalmOnce

LEMMA CrashOnce ==
  ASSUME CallInv, OnceInv, Crash
  PROVE  OnceInv'
<1>1. TypeOK /\ QueueInv /\ acted' = acted
  BY DEF CallInv, OnceInv, Crash
<1>2. /\ verdict' = [c \in Captures |-> IF verdict[c] = "none" /\ Announced(c) THEN "dropped" ELSE verdict[c]]
      /\ todo' = <<>> /\ job' = NoCapture /\ orphans' = [p \in Paths |-> Unread(p)]
      /\ wire' = [p \in Paths |-> <<>>] /\ replies' = [p \in Paths |-> <<>>]
  BY DEF Crash
<1>3. FreshBefore
  <2>1. ASSUME NEW c \in Captures, Fresh(c)'
        PROVE  Fresh(c)
    <3>1. verdict'[c] = "none"
      BY <2>1 DEF Fresh
    <3>2. verdict[c] = "none" /\ ~Announced(c)
      BY <1>2, <3>1
    <3> QED BY <3>2 DEF Fresh, Sent, Announced
  <2> QED BY <2>1 DEF FreshBefore
<1>4. QueueInv'
  <2>1. NoCapture \notin Captures /\ 1 .. Len(todo') = {}
    BY <1>2, SuricataSubmitAssumption
  <2> QED BY <1>2, <2>1 DEF QueueInv
<1>5. ConnCalm
  BY <1>2, Zenon DEF ConnCalm
<1> QED BY <1>1, <1>3, <1>4, <1>5, CalmOnce

LEMMA AnnounceOnce ==
  ASSUME CallInv, OnceInv, NEW c \in Captures, Announce(c)
  PROVE  OnceInv'
<1>1. /\ ~Announced(c) /\ todo' = Append(todo, c)
      /\ UNCHANGED <<inst, connVars, threadVars, jobVars, acted, plain, faults>>
      /\ todo \in Seq(Captures) /\ QueueInv /\ TypeOK
  BY DEF Announce, CallInv, TypeOK, OnceInv
<1>2. QueueInv'
  <2>1. /\ Len(todo') = Len(todo) + 1 /\ todo'[Len(todo) + 1] = c
        /\ \A i \in 1 .. Len(todo) : todo'[i] = todo[i] /\ todo[i] # c
    BY <1>1 DEF Announced
  <2>2. \A i \in 1 .. Len(todo') : i \in 1 .. Len(todo) \/ i = Len(todo) + 1
    BY <1>1, <2>1
  <2>3. c # job /\ verdict[c] = "none"
    BY <1>1 DEF Announced
  <2> QED BY <1>1, <2>1, <2>2, <2>3 DEF QueueInv, jobVars
<1>3. FreshBefore
  BY <1>1 DEF FreshBefore, Fresh, Sent, threadVars, jobVars
<1> QED BY <1>1, <1>2, <1>3, ClosedCalm, CalmOnce

\* The steps that leave the captures alone.
LEMMA StillOnce ==
  ASSUME CallInv, OnceInv, UNCHANGED <<connVars, jobVars, todo, acted>>,
         thread'.at = thread.at, thread'.kind = thread.kind,
         thread'.outer = thread.outer, thread'.sent = thread.sent
  PROVE  OnceInv'
<1>1. TypeOK /\ QueueInv' /\ FreshBefore
  BY DEF CallInv, QueueInv, OnceInv, jobVars, FreshBefore, Fresh, Sent
<1> QED BY <1>1, ClosedCalm, CalmOnce

LEMMA OnceInit ==
  ASSUME Init
  PROVE  OnceInv
<1>0. todo = <<>> /\ NoCapture \notin Captures /\ TypeOK
  BY SuricataSubmitAssumption, CallInit DEF Init, CallInv
<1>1. NoCapture \notin Captures /\ 1 .. Len(todo) = {} /\ TypeOK
  BY <1>0
<1>2. QueueInv
  BY <1>1 DEF QueueInv, Init
<1>3. ASSUME NEW c \in Captures
      PROVE  OnceOK(c)
  <2>1. ~Confirmed(c)
    BY DEF Init, Confirmed
  <2>2. acted[c] = 0 /\ \A p \in Paths : orphans[p][Pcap(c)] = 0 /\ wire[p] = <<>>
    BY PcapIs DEF Init
  <2>3. \A p \in Paths : Pending(p, c) = 0
    BY <2>2, PendingIs, TimesEmpty
  <2> QED BY <2>1, <2>2, <2>3 DEF OnceOK
<1> QED BY <1>2, <1>3 DEF OnceInv

LEMMA OnceStep ==
  ASSUME CallInv, OnceInv, [Next]_vars
  PROVE  OnceInv'
<1>1. CASE ThreadStep
  BY <1>1, CalmThreadOnce, SendOnce DEF ThreadStep
<1>2. CASE \E p \in Paths : Respond(p) \/ ReadOrphan(p) \/ Die(p)
  BY <1>2, RespondOnce, ReadOrphanOnce, DieOnce
<1>3. CASE \E p \in Paths : StartRun(p) \/ EndRun(p) \/ Boot(p)
  BY <1>3, StillOnce DEF StartRun, EndRun, Boot, threadVars
<1>4. CASE Deadline
  <2>1. /\ thread' = [thread EXCEPT !.late = TRUE] /\ thread \in Thread
        /\ UNCHANGED <<connVars, jobVars, todo, acted>>
    BY <1>4 DEF Deadline, CallInv, TypeOK
  <2>2. /\ thread'.at = thread.at /\ thread'.kind = thread.kind
        /\ thread'.outer = thread.outer /\ thread'.sent = thread.sent
    BY <2>1 DEF Thread
  <2> QED BY <2>1, <2>2, StillOnce
<1>5. CASE Crash \/ \E c \in Captures : Announce(c)
  BY <1>5, CrashOnce, AnnounceOnce
<1>6. CASE UNCHANGED vars
  BY <1>6, StillOnce DEF vars, threadVars
<1> QED BY <1>1, <1>2, <1>3, <1>4, <1>5, <1>6 DEF Next, InstanceStep

LEMMA OnceInvariance == Spec => [](CallInv /\ OnceInv)
<1>1. Init => CallInv /\ OnceInv
  BY CallInit, OnceInit
<1>2. (CallInv /\ OnceInv) /\ [Next]_vars => (CallInv /\ OnceInv)'
  BY CallStep, OnceStep
<1> QED BY <1>1, <1>2, PTL DEF Spec

-----------------------------------------------------------------------------
(* What a step reports, and what it acts on.                               *)

\* The capture under way is reported as failed, or nothing is.
AtMostFails == \/ verdict' = verdict
               \/ job \in Captures /\ verdict' = [verdict EXCEPT ![job] = "failed"]

LEMMA GotoFails ==
  ASSUME NEW t, Goto(t)
  PROVE  AtMostFails
BY DEF Goto, jobVars, AtMostFails

LEMMA EndedFails ==
  ASSUME CallInv, Ended
  PROVE  AtMostFails
BY DEF Ended, Sized, Submitted, Constructed, Goto, jobVars, AtMostFails, CallInv, Shape

LEMMA NotConnectedFails ==
  ASSUME CallInv, NotConnected
  PROVE  AtMostFails
BY NotConnectedCases, EndedFails, GotoFails DEF CallInv

LEMMA EnsureFails ==
  ASSUME CallInv, NEW ok \in BOOLEAN, NEW n \in Nat, EnsureStep(ok, n), thread.kind \in Inner
  PROVE  AtMostFails
<1>1. ASSUME NEW k, NEW idle, NEW quiet, Asks(k, idle, quiet)
      PROVE  AtMostFails
  BY <1>1, GotoFails DEF Asks
<1> QED BY <1>1, EnsureCases, EndedFails DEF CallInv

LEMMA FailedFails ==
  ASSUME CallInv, NEW sent \in BOOLEAN, Failed(sent)
  PROVE  AtMostFails
<1>1. TypeOK
  BY DEF CallInv
<1>2. Retried(sent) => AtMostFails
  BY GotoFails DEF Retried
<1>3. GiveUp => AtMostFails
  BY <1>1, GiveUpEnds, EndedFails
<1>4. thread.kind \in Inner /\ EnsureStep(FALSE, 0) => AtMostFails
  BY EnsureFails
<1> QED BY <1>1, <1>2, <1>3, <1>4, NotConnectedFails, FailedCases

LEMMA FailedIsReport ==
  ASSUME CallInv, OnceInv, AtMostFails, acted' = acted
  PROVE  [Promise!Next]_<<acted, verdict>>
BY DEF AtMostFails, OnceInv, QueueInv, Promise!Next, Promise!Report

\* An answer is taken for that of the capture under way, and says it is queued.
Vouches ==
  /\ Receive /\ thread.kind = "pcap" /\ Head(replies[thread.path]).ok
  /\ job \in Captures /\ verdict[job] = "none"
  /\ verdict' = [verdict EXCEPT ![job] = "submitted"] /\ acted' = acted

LEMMA ReceivePromise ==
  ASSUME CallInv, OnceInv, Receive
  PROVE  [Promise!Next]_<<acted, verdict>> \/ Vouches
<1> DEFINE r == Head(replies[thread.path])
<1>1. TypeOK /\ Shape /\ QueueInv
  BY DEF CallInv, OnceInv
<1>2. r \in Reply /\ Answered(r) /\ acted' = acted /\ thread.at = "recv"
  BY ReceiveFacts
<1> HIDE DEF r
<1>3. CASE thread.kind = "pcap" /\ Submitted(r.ok)
  <2>1. /\ job \in Captures /\ verdict[job] = "none"
        /\ verdict' = [verdict EXCEPT ![job] = IF r.ok THEN "submitted" ELSE "failed"]
    BY <1>1, <1>2, <1>3 DEF Shape, Outer, QueueInv, Submitted
  <2>2. CASE r.ok
    BY <1>2, <1>3, <2>1, <2>2 DEF Vouches, r
  <2>3. CASE ~r.ok
    BY <1>2, <2>1, <2>3 DEF Promise!Next, Promise!Report
  <2> QED BY <2>2, <2>3
<1>4. CASE AtMostFails
  BY <1>2, <1>4, FailedIsReport
<1>5. (\E m : Sized(m)) => AtMostFails
  BY DEF Sized, jobVars, AtMostFails
<1>6. thread.kind \in Inner /\ r.ok \in BOOLEAN /\ r.n \in Nat /\ EnsureStep(r.ok, r.n) => AtMostFails
  BY EnsureFails
<1> QED BY <1>1, <1>2, <1>3, <1>4, <1>5, <1>6, AnsweredCases, NotConnectedFails, GotoFails

\* A command is acted on, and if it is a capture, for the first time.
LEMMA ActPromise ==
  ASSUME TypeOK, OnceInv, NEW p \in Paths, NEW e \in Command, Act(p, e), verdict' = verdict,
         e.kind = "pcap" => Pending(p, e.cap) > 0
  PROVE  [Promise!Next]_<<acted, verdict>>
<1>1. CASE e.kind = "pcap"
  <2>1. e.cap \in Captures /\ OnceOK(e.cap)
    BY <1>1, CommandIs DEF OnceInv
  <2>2. acted[e.cap] = 0
    BY <1>1, <2>1 DEF OnceOK
  <2> QED BY <1>1, <2>1, <2>2 DEF Act, TypeOK, Promise!Next, Promise!Act
<1>2. CASE e.kind # "pcap"
  BY <1>2 DEF Act
<1> QED BY <1>1, <1>2

LEMMA InstancePromise ==
  ASSUME CallInv, OnceInv, NEW p \in Paths, Respond(p) \/ ReadOrphan(p)
  PROVE  [Promise!Next]_<<acted, verdict>>
<1>1. TypeOK
  BY DEF CallInv
<1>2. CASE Respond(p)
  <2> DEFINE e == Head(wire[p])
  <2>1. /\ wire[p] # <<>> /\ wire[p] \in Seq(Command) /\ e \in Command /\ verdict' = verdict
        /\ Act(p, e) \/ acted' = acted
    BY <1>1, <1>2, RespondTypes DEF TypeOK, jobVars
  <2>2. e.kind = "pcap" => Pending(p, e.cap) > 0
    <3>1. SUFFICES ASSUME e.kind = "pcap" PROVE Pending(p, e.cap) > 0
      OBVIOUS
    <3> DEFINE c == e.cap
    <3>2. c \in Captures /\ e = Pcap(c)
      BY <2>1, <3>1, CommandIs
    <3>3. Times(wire[p], Pcap(c)) > 0
      <4>1. Times(Tail(wire[p]), Pcap(c)) = Times(wire[p], Pcap(c)) - 1
        BY <2>1, <3>2, TimesTail
      <4>2. Tail(wire[p]) \in Seq(Command)
        BY <2>1
      <4>3. Times(Tail(wire[p]), Pcap(c)) \in Nat /\ Times(wire[p], Pcap(c)) \in Nat
        BY <2>1, <4>2, TimesType
      <4> QED BY <4>1, <4>3
    <3> HIDE DEF c
    <3>4. /\ Pending(p, c) = orphans[p][Pcap(c)] + Times(wire[p], Pcap(c))
          /\ orphans[p][Pcap(c)] \in Nat /\ Times(wire[p], Pcap(c)) \in Nat
      BY <1>1, <3>2, PendingIs, PendingType
    <3> QED BY <3>3, <3>4 DEF c
  <2> HIDE DEF e
  <2> QED BY <1>1, <2>1, <2>2, ActPromise
<1>3. CASE ReadOrphan(p)
  <2>1. PICK e \in Effective : orphans[p][e] > 0 /\ (Act(p, e) \/ acted' = acted)
    BY <1>3, ReadOrphanFacts
  <2>2. verdict' = verdict
    BY <1>3, ReadOrphanFacts DEF jobVars
  <2>3. e.kind = "pcap" => Pending(p, e.cap) > 0
    <3>1. SUFFICES ASSUME e.kind = "pcap" PROVE Pending(p, e.cap) > 0
      OBVIOUS
    <3> DEFINE c == e.cap
    <3>2. c \in Captures /\ e = Pcap(c)
      BY <3>1, EffectiveIs
    <3> HIDE DEF c
    <3>3. /\ Pending(p, c) = orphans[p][Pcap(c)] + Times(wire[p], Pcap(c))
          /\ orphans[p][Pcap(c)] \in Nat /\ Times(wire[p], Pcap(c)) \in Nat
      BY <1>1, <3>2, PendingIs, PendingType
    <3> QED BY <2>1, <3>2, <3>3 DEF c
  <2>4. e \in Command
    BY EffectiveIs
  <2> QED BY <1>1, <2>1, <2>2, <2>3, <2>4, ActPromise
<1> QED BY <1>2, <1>3

LEMMA PopPromise ==
  ASSUME CallInv, OnceInv, Pop
  PROVE  [Promise!Next]_<<acted, verdict>>
<1>1. /\ acted' = acted /\ Head(todo) \in Captures /\ verdict[Head(todo)] = "none"
      /\ verdict \in [Captures -> {"none", "submitted", "failed", "dropped"}]
  BY DEF Pop, CallInv, TypeOK, OnceInv, QueueInv
<1>2. CASE verdict' = verdict
  BY <1>1, <1>2
<1>3. CASE verdict' = [verdict EXCEPT ![Head(todo)] = "dropped"]
  <2>1. verdict' = [c \in Captures |-> IF c \in {Head(todo)} THEN "dropped" ELSE verdict[c]]
    BY <1>1, <1>3
  <2>2. Promise!Drop({Head(todo)})
    BY <1>1, <2>1 DEF Promise!Drop
  <2> QED BY <1>1, <2>2 DEF Promise!Next
<1> QED BY <1>2, <1>3 DEF Pop

LEMMA CrashPromise ==
  ASSUME CallInv, OnceInv, Crash
  PROVE  [Promise!Next]_<<acted, verdict>>
<1> DEFINE S == {c \in Captures : verdict[c] = "none" /\ Announced(c)}
<1>1. acted' = acted
      /\ verdict' = [c \in Captures |-> IF verdict[c] = "none" /\ Announced(c) THEN "dropped" ELSE verdict[c]]
  BY DEF Crash
<1>2. Promise!Drop(S)
  BY <1>1 DEF Promise!Drop
<1> QED BY <1>2 DEF Promise!Next

\* Every step keeps the promise but for the one that takes an answer on trust.
LEMMA PromiseOrVouch ==
  ASSUME CallInv, OnceInv, [Next]_vars
  PROVE  [Promise!Next]_<<acted, verdict>> \/ Vouches
<1>1. TypeOK
  BY DEF CallInv
<1>2. CASE Pop \/ Receive \/ Crash \/ \E p \in Paths : Respond(p) \/ ReadOrphan(p)
  BY <1>2, PopPromise, ReceivePromise, CrashPromise, InstancePromise
<1>3. CASE Send
  <2>1. acted' = acted /\ (verdict' = verdict \/ Failed(FALSE))
    BY <1>3, SendCall DEF Sends, jobVars
  <2>2. verdict' = verdict => AtMostFails
    BY DEF AtMostFails
  <2> QED BY <2>1, <2>2, FailedFails, FailedIsReport
<1>4. CASE NoAnswer
  BY <1>1, <1>4, NoAnswerFacts, FailedFails, FailedIsReport
<1>5. CASE Connect
  <2>1. acted' = acted /\ AtMostFails
    BY <1>5, GotoFails, NotConnectedFails DEF Connect
  <2> QED BY <2>1, FailedIsReport
<1>6. CASE WarmUpEnds \/ Stat \/ Acquire
  <2>1. acted' = acted /\ AtMostFails
    BY <1>1, <1>6, GotoFails, ConnectedEnds, EndedFails DEF WarmUpEnds, Stat, Acquire, Ensured, Ask
  <2> QED BY <2>1, FailedIsReport
<1>7. CASE \/ Refresh \/ NextCapture \/ Deadline
           \/ \E p \in Paths : AskSize(p) \/ Submit(p) \/ Visit(p)
           \/ \E c \in Captures : Announce(c)
  BY <1>7 DEF Refresh, NextCapture, Deadline, AskSize, Submit, Call, Visit, Announce, jobVars
<1>8. CASE \E p \in Paths : StartRun(p) \/ EndRun(p) \/ Boot(p) \/ Die(p)
  BY <1>8 DEF StartRun, EndRun, Boot, Die, jobVars
<1>9. CASE UNCHANGED vars
  BY <1>9 DEF vars, jobVars
<1> QED BY <1>2, <1>3, <1>4, <1>5, <1>6, <1>7, <1>8, <1>9 DEF Next, ThreadStep, InstanceStep

RunOnce == \A c \in Captures : acted[c] <= 1
ReportsOnce == \A c \in Captures : verdict[c] # "none" => verdict'[c] = verdict[c]

(* Whatever times out, is late, dies or is retried: no capture is run      *)
(* twice, and none that was reported on is reported on again ("Once such a *)
(* command has been sent, it isn't sent again", _send_command).            *)
THEOREM NeverTwice == Spec => []RunOnce /\ [][ReportsOnce]_vars
<1>1. OnceInv => RunOnce
  BY DEF OnceInv, OnceOK, RunOnce
<1>2. CallInv /\ OnceInv /\ [Next]_vars => [ReportsOnce]_vars
  <2>1. CallInv => verdict \in [Captures -> {"none", "submitted", "failed", "dropped"}]
    BY DEF CallInv, TypeOK
  <2>2. CallInv /\ [Promise!Next]_<<acted, verdict>> => ReportsOnce
    BY <2>1 DEF Promise!Next, Promise!Act, Promise!Report, Promise!Drop, ReportsOnce
  <2>3. CallInv /\ Vouches => ReportsOnce
    BY <2>1 DEF Vouches, ReportsOnce
  <2> QED BY <2>2, <2>3, PromiseOrVouch
<1> QED BY <1>1, <1>2, OnceInvariance, PTL DEF Spec

\* The answer is that of the capture: it is queued.
LEMMA VouchesTrue ==
  ASSUME BaseInv, OnceInv, Vouches
  PROVE  [Promise!Next]_<<acted, verdict>>
<1> DEFINE s == replies[thread.path]
<1>1. CallInv /\ Receive /\ thread.kind = "pcap" /\ Head(s).ok /\ job \in Captures
      /\ verdict[job] = "none" /\ verdict' = [verdict EXCEPT ![job] = "submitted"] /\ acted' = acted
  BY DEF Vouches, BaseInv, CallInv
<1>2. thread.at = "recv" /\ thread.path \in Paths /\ s # <<>> /\ s \in Seq(Reply)
  BY <1>1, ReceiveFacts DEF CallInv, TypeOK
<1>3. Head(s).to = Pcap(job)
  BY <1>1, <1>2, ReceiveConn, NowIs
<1> HIDE DEF s
<1>4. 1 \in DOMAIN s /\ s[1] = Head(s)
  BY <1>2
<1>5. Confirmed(job)
  BY <1>1, <1>2, <1>3, <1>4 DEF Confirmed, s
<1>6. acted[job] = 1
  BY <1>1, <1>5 DEF OnceInv, OnceOK
<1> QED BY <1>1, <1>6 DEF Promise!Next, Promise!Report

(* Up to the first handshake of a last attempt that is late the worker     *)
(* implements SubmitPromise: whatever else times out, dies or is retried,  *)
(* no capture is run twice, none is reported on twice, and one that is     *)
(* reported as submitted has been taken by an instance.                    *)
THEOREM ImplementsPromise == Spec /\ [][InTime]_vars => KeepsPromise
<1>1. Init => Promise!Init
  BY DEF Init, Promise!Init
<1>2. BaseInv /\ CallInv /\ OnceInv /\ [Next]_vars => [Promise!Next]_<<acted, verdict>>
  BY PromiseOrVouch, VouchesTrue
<1> QED BY <1>1, <1>2, BaseInvariance, OnceInvariance, PTL DEF Spec, KeepsPromise, Promise!Spec

-----------------------------------------------------------------------------
(* An instance on record is warmed up.                                     *)
(*                                                                         *)
(* While the thread holds the lock it knows more and more of the instance  *)
(* it is connected to, as long as that is the one it looked at before      *)
(* (WarmOK): a capture is queued, then under way or over, then over; only  *)
(* then the rules are reloaded.                                            *)

Warm(p) == inst[p].queue # <<>> \/ inst[p].busy \/ inst[p].ran
Idle(p) == inst[p].busy \/ inst[p].ran
Holding(p) == locked /\ thread.path = p
Looked(p)  == inst[p].up /\ inst[p].boot = thread.id

\* What the answer n, once it is there, says of the instance.
Evidence(p, n) ==
  /\ thread.kind = "warm" => Warm(p)
  /\ thread.kind = "number" /\ n = 0 => Idle(p)
  /\ thread.kind = "current" /\ n = 0 /\ thread.idle >= 1 => inst[p].ran
  /\ thread.kind = "reload" => inst[p].meta

WarmOK(p) ==
  /\ thread.kind \in {"current", "number", "reload"} => Warm(p)
  /\ thread.idle >= 1 => Idle(p)
  /\ thread.idle >= 1 /\ thread.quiet => inst[p].ran
  /\ thread.kind = "reload" => inst[p].ran
  /\ \A n \in Nat : ReplyIs(p, TRUE, n) => Evidence(p, n)

NotYetIdle == thread.kind \in {"hello", "size", "pcap", "warm"} => thread.idle = 0

RecordOK(p) ==
  /\ inst[p].boot >= 1 /\ recorded[p] <= inst[p].boot
  /\ inst[p].meta => inst[p].ran
  /\ (thread.at = "lock" /\ thread.path = p) \/ Holding(p) => thread.id <= inst[p].boot
  /\ Holding(p) /\ Looked(p) => WarmOK(p)

RecordInv == RecordIsTrue /\ NotYetIdle /\ \A p \in Paths : RecordOK(p)

\* What the thread puts on record is true.
RecordsTrue ==
  \A p \in Paths : \/ recorded'[p] = recorded[p]
                    \/ /\ recorded'[p] <= inst[p].boot
                       /\ inst[p].up /\ recorded'[p] = inst[p].boot => inst[p].meta

LEMMA SameRecord ==
  ASSUME recorded' = recorded
  PROVE  RecordsTrue
BY DEF RecordsTrue

\* The thread is not under the lock.
LEMMA FreeRecord ==
  ASSUME RecordInv, inst' = inst, ~locked', thread'.at # "lock", NotYetIdle', RecordsTrue
  PROVE  RecordInv'
BY DEF RecordsTrue, RecordInv, RecordIsTrue, RecordOK, Holding

LEMMA EndedRecord ==
  ASSUME BaseInv, BaseInv', RecordInv, Ended, thread.at \in Calling, inst' = inst, locked' = FALSE,
         RecordsTrue
  PROVE  RecordInv'
<1>1. thread'.at \in {"choose", "done", "refresh", "send"}
  BY EndedShape DEF BaseInv
<1>2. thread'.idle = 0
  <2>1. \/ \E phase \in {"choose", "done", "refresh"} : thread' = At(phase)
        \/ thread' = Resent
    BY Zenon DEF Ended, Sized, Submitted, Constructed, Goto
  <2>2. Resent.idle = 0 /\ \A phase : At(phase).idle = 0
    BY DEF Resent, At
  <2> QED BY <2>1, <2>2
<1>3. ~locked' /\ thread'.at # "lock" /\ NotYetIdle'
  BY <1>1, <1>2 DEF NotYetIdle
<1> QED BY <1>3, FreeRecord

\* The next question under the lock: what is known of the instance allows it.
LEMMA AsksRecord ==
  ASSUME BaseInv, RecordInv, NEW k \in Inner, NEW idle \in Nat, NEW quiet \in BOOLEAN,
         Asks(k, idle, quiet), UNCHANGED <<inst, locked, recorded>>, AllQuiet',
         thread.path \in Paths, locked, k = "warm" => idle = 0,
         Looked(thread.path) => /\ k \in {"current", "number", "reload"} => Warm(thread.path)
                                /\ idle >= 1 => Idle(thread.path)
                                /\ idle >= 1 /\ quiet => inst[thread.path].ran
                                /\ k = "reload" => inst[thread.path].ran
  PROVE  RecordInv'
<1>1. /\ thread'.at = "send" /\ thread'.kind = k /\ thread'.idle = idle /\ thread'.quiet = quiet
      /\ thread'.path = thread.path /\ thread'.id = thread.id
  BY DEF Asks, Goto, BaseInv, TypeOK, Thread
<1>2. NotYetIdle' /\ RecordIsTrue'
  BY <1>1 DEF NotYetIdle, Inner, RecordInv, RecordIsTrue
<1>3. ASSUME NEW p \in Paths
      PROVE  RecordOK(p)'
  <2>1. RecordOK(p) /\ (Holding(p)' <=> Holding(p)) /\ (Looked(p)' <=> Looked(p))
    BY <1>1 DEF RecordInv, Holding, Looked
  <2>2. \A n \in Nat : ~ReplyIs(p, TRUE, n)'
    <3>1. \A x : <<x>> # <<>>
      OBVIOUS
    <3> QED BY <3>1, Zenon DEF AllQuiet, Quiet, ReplyIs
  <2>3. Holding(p)' /\ Looked(p)' => WarmOK(p)'
    BY <1>1, <2>1, <2>2 DEF WarmOK, Warm, Idle, Holding
  <2> QED BY <1>1, <2>1, <2>3 DEF RecordOK
<1> QED BY <1>2, <1>3 DEF RecordInv

\* The steps of _warm_up and reload_rules.
LEMMA EnsureRecord ==
  ASSUME BaseInv, BaseInv', RecordInv, NEW ok \in BOOLEAN, NEW n \in Nat, EnsureStep(ok, n),
         thread.at \in {"send", "recv"}, thread.kind \in Inner, inst' = inst, AllQuiet',
         ok => ReplyIs(thread.path, TRUE, n)
  PROVE  RecordInv'
<1> DEFINE p == thread.path
<1>1. TypeOK /\ Shape /\ locked /\ Holding(p) /\ p \in Paths /\ thread.at \in Calling
  BY DEF BaseInv, Shape, Holding, Calling
<1>2. RecordOK(p)
  BY <1>1 DEF RecordInv
<1>3. Looked(p) => WarmOK(p) /\ (ok => Evidence(p, n))
  BY <1>1, <1>2 DEF RecordOK, WarmOK
<1>4. thread.idle \in Nat /\ thread.quiet \in BOOLEAN /\ thread.id \in Nat
  BY <1>1, ThreadFields DEF TypeOK
<1>5. CASE /\ Ended /\ locked' = FALSE
           /\ \/ recorded' = recorded
              \/ thread.kind = "reload" /\ ok /\ recorded' = [recorded EXCEPT ![p] = thread.id]
  <2>1. ASSUME NEW q \in Paths
        PROVE  \/ recorded'[q] = recorded[q]
               \/ /\ recorded'[q] <= inst[q].boot
                  /\ inst[q].up /\ recorded'[q] = inst[q].boot => inst[q].meta
    <3>1. CASE q = p /\ recorded'[p] = thread.id /\ thread.kind = "reload" /\ ok
      <4>1. thread.id <= inst[p].boot
        BY <1>1, <1>2 DEF RecordOK
      <4>2. Looked(p) => inst[p].meta
        BY <1>3, <3>1 DEF Evidence
      <4> QED BY <3>1, <4>1, <4>2 DEF Looked
    <3> QED BY <1>1, <1>5, <3>1 DEF TypeOK
  <2> QED BY <1>1, <1>5, <2>1, EndedRecord DEF RecordsTrue
<1>6. CASE thread.kind = "warm" /\ ok /\ Asks("current", thread.idle, thread.quiet)
           /\ UNCHANGED <<locked, recorded>>
  <2>1. Looked(p) => Warm(p) /\ thread.idle = 0
    BY <1>3, <1>6 DEF Evidence, RecordInv, NotYetIdle
  <2>2. thread.idle = 0
    BY <1>6 DEF RecordInv, NotYetIdle
  <2> QED BY <1>1, <1>4, <1>6, <2>1, <2>2, AsksRecord DEF Inner
<1>7. CASE thread.kind = "current" /\ Asks("number", thread.idle, ok /\ n = 0)
           /\ UNCHANGED <<locked, recorded>>
  <2> DEFINE quiet == ok /\ n = 0
  <2>1. Looked(p) => /\ Warm(p) /\ (thread.idle >= 1 => Idle(p))
                     /\ thread.idle >= 1 /\ quiet => inst[p].ran
    BY <1>3, <1>7 DEF Evidence, WarmOK
  <2>2. quiet \in BOOLEAN /\ Asks("number", thread.idle, quiet)
    BY <1>7
  <2> HIDE DEF quiet
  <2> QED BY <1>1, <1>4, <1>7, <2>1, <2>2, AsksRecord DEF Inner
<1>8. CASE /\ thread.kind = "number" /\ thread.quiet /\ ok /\ n = 0
           /\ \E k \in {"current", "reload"} :
                (k = "reload" => thread.idle >= 1) /\ Asks(k, thread.idle + 1, FALSE)
           /\ UNCHANGED <<locked, recorded>>
  <2>1. PICK k \in {"current", "reload"} :
          (k = "reload" => thread.idle >= 1) /\ Asks(k, thread.idle + 1, FALSE)
    BY <1>8
  <2>2. Looked(p) => Warm(p) /\ Idle(p) /\ (k = "reload" => inst[p].ran)
    BY <1>3, <1>8, <2>1 DEF Evidence, WarmOK
  <2>3. thread.idle + 1 \in Nat /\ k \in Inner /\ k # "warm"
    BY <1>4 DEF Inner
  <2> QED BY <1>1, <1>8, <2>1, <2>2, <2>3, AsksRecord
<1>9. CASE thread.kind = "number" /\ Asks("current", 0, FALSE) /\ UNCHANGED <<locked, recorded>>
  <2>1. Looked(p) => Warm(p)
    BY <1>3, <1>9 DEF WarmOK
  <2> DEFINE idle == 0
  <2>2. idle \in Nat /\ ~(idle >= 1)
    OBVIOUS
  <2>3. Asks("current", idle, FALSE)
    BY <1>9, Zenon
  <2> HIDE DEF idle
  <2> QED BY <1>1, <1>9, <2>1, <2>2, <2>3, AsksRecord DEF Inner
<1> QED BY <1>1, <1>5, <1>6, <1>7, <1>8, <1>9, EnsureCases

\* Connecting goes on, outside the lock.
LEMMA ConnectingRecord ==
  ASSUME BaseInv, BaseInv', RecordInv, UNCHANGED <<inst, recorded>>, NEW t, thread' = t,
         t.at \in {"connect", "recv", "stat"}, t.kind = "hello", t.idle = thread.idle,
         thread.kind \notin Inner
  PROVE  RecordInv'
<1>1. thread.idle = 0
  BY ThreadFields DEF RecordInv, NotYetIdle, BaseInv, TypeOK, Kinds, Inner
<1>2. ~locked' /\ thread'.at # "lock"
  BY DEF BaseInv, Shape, Inner
<1> QED BY <1>1, <1>2, SameRecord, FreeRecord DEF NotYetIdle

LEMMA NotConnectedRecord ==
  ASSUME BaseInv, BaseInv', RecordInv, NotConnected, thread.kind = "hello", thread.at \in Calling,
         UNCHANGED <<inst, recorded, locked>>
  PROVE  RecordInv'
<1> DEFINE t == [thread EXCEPT !.at = "connect", !.kind = "hello", !.connects = @ + 1]
<1>1. TypeOK /\ Shape /\ ~locked
  BY DEF BaseInv, Shape, Inner
<1>2. Goto(t) \/ Ended
  BY <1>1, NotConnectedCases
<1>3. t.at = "connect" /\ t.kind = "hello" /\ t.idle = thread.idle
  BY <1>1 DEF TypeOK, Thread
<1> HIDE DEF t
<1>4. CASE Goto(t)
  BY <1>3, <1>4, ConnectingRecord DEF Goto, Inner
<1>5. CASE Ended
  <2>1. locked' = FALSE
    BY <1>1 DEF TypeOK
  <2> QED BY <1>5, <2>1, SameRecord, EndedRecord
<1> QED BY <1>2, <1>4, <1>5

LEMMA FailedRecord ==
  ASSUME BaseInv, BaseInv', RecordInv, NEW sent \in BOOLEAN, Failed(sent),
         thread.at \in {"send", "recv"}, inst' = inst, thread.kind \in Inner => AllQuiet'
  PROVE  RecordInv'
<1>1. TypeOK /\ Shape /\ thread.at \in Calling
  BY DEF BaseInv, Calling
<1>2. CASE thread.kind = "hello" /\ NotConnected /\ UNCHANGED <<locked, recorded>>
  BY <1>1, <1>2, NotConnectedRecord
<1>3. CASE thread.kind \in Inner /\ EnsureStep(FALSE, 0)
  BY <1>1, <1>3, EnsureRecord
<1>4. CASE thread.kind \in Outer /\ GiveUp /\ UNCHANGED <<locked, recorded>>
  <2>1. locked' = FALSE
    BY <1>1, <1>4 DEF Shape, Outer, Inner, TypeOK
  <2> QED BY <1>1, <1>4, <2>1, GiveUpEnds, SameRecord, EndedRecord
<1>5. CASE thread.kind \in Outer /\ Retried(sent) /\ UNCHANGED <<locked, recorded>>
  <2> DEFINE t == [thread EXCEPT !.at = "connect", !.kind = "hello", !.sent = sent,
                                 !.tries = @ + 1, !.connects = 0]
  <2>1. t.at = "connect" /\ t.kind = "hello" /\ t.idle = thread.idle
    BY <1>1 DEF TypeOK, Thread
  <2>2. thread' = t
    BY <1>5 DEF Retried, Goto
  <2> HIDE DEF t
  <2> QED BY <1>5, <2>1, <2>2, ConnectingRecord DEF Outer, Inner
<1> QED BY <1>1, <1>2, <1>3, <1>4, <1>5, FailedCases

LEMMA IdleThreadRecord ==
  ASSUME BaseInv, RecordInv,
         Pop \/ Refresh \/ NextCapture \/ \E p \in Paths : AskSize(p) \/ Submit(p) \/ Visit(p)
  PROVE  RecordInv'
<1>1. /\ UNCHANGED <<inst, locked, recorded>>
      /\ thread.at \in {"idle", "choose", "done", "refresh"} /\ ~locked
  BY DEF Pop, Refresh, NextCapture, AskSize, Submit, Call, Visit, BaseInv, Shape
<1>2. \/ thread' = thread
      \/ \E phase \in {"choose", "done", "refresh", "idle"} : thread' = At(phase)
      \/ \E p \in Paths, k \in Outer : thread' = [At("send") EXCEPT !.path = p, !.kind = k, !.outer = k]
      \/ \E p \in Paths : thread' = [At("connect") EXCEPT !.path = p]
  BY Zenon DEF Pop, Refresh, NextCapture, AskSize, Submit, Call, Visit, Outer
<1>3. \A phase : At(phase).idle = 0 /\ At(phase).at = phase
  BY DEF At
<1>4. thread'.at # "lock" /\ (thread' = thread \/ thread'.idle = 0)
  <2>1. CASE thread' = thread
    BY <1>1, <2>1
  <2>2. CASE \E phase \in {"choose", "done", "refresh", "idle"} : thread' = At(phase)
    BY <1>3, <2>2
  <2>3. CASE \E p \in Paths, k \in Outer : thread' = [At("send") EXCEPT !.path = p, !.kind = k, !.outer = k]
    <3>1. PICK p \in Paths, k \in Outer : thread' = [At("send") EXCEPT !.path = p, !.kind = k, !.outer = k]
      BY <2>3
    <3> QED BY <3>1 DEF At
  <2>4. CASE \E p \in Paths : thread' = [At("connect") EXCEPT !.path = p]
    <3>1. PICK p \in Paths : thread' = [At("connect") EXCEPT !.path = p]
      BY <2>4
    <3> QED BY <3>1 DEF At
  <2> QED BY <1>2, <2>1, <2>2, <2>3, <2>4
<1>5. NotYetIdle'
  BY <1>4 DEF NotYetIdle, RecordInv
<1> QED BY <1>1, <1>4, <1>5, SameRecord, FreeRecord

\* The identity of the instance is read before the lock is asked for.
LEMMA StatRecord ==
  ASSUME BaseInv, BaseInv', RecordInv, Stat
  PROVE  RecordInv'
<1>1. /\ TypeOK /\ Shape /\ thread.at = "stat" /\ thread.kind = "hello" /\ ~locked /\ locked' = FALSE
      /\ thread.at \in Calling /\ thread.path \in Paths /\ UNCHANGED <<inst, locked, recorded>>
  BY DEF Stat, BaseInv, Shape, Calling, TypeOK
<1>2. CASE Connected
  BY <1>1, <1>2, ConnectedEnds, SameRecord, EndedRecord
<1>3. CASE Goto([thread EXCEPT !.at = "lock", !.id = inst[thread.path].boot])
  <2>1. /\ thread'.id = inst[thread.path].boot /\ thread'.path = thread.path
        /\ thread'.kind = "hello" /\ thread'.idle = thread.idle
    BY <1>1, <1>3 DEF Goto, TypeOK, Thread
  <2>2. NotYetIdle' /\ RecordIsTrue'
    BY <1>1, <2>1 DEF NotYetIdle, RecordInv, RecordIsTrue
  <2>3. ASSUME NEW p \in Paths
        PROVE  RecordOK(p)'
    <3>1. inst[p].boot \in Nat
      BY <1>1, InstanceFields DEF TypeOK
    <3> QED BY <1>1, <2>1, <3>1 DEF RecordOK, RecordInv, Holding
  <2> QED BY <2>2, <2>3 DEF RecordInv
<1> QED BY <1>2, <1>3 DEF Stat

LEMMA AcquireRecord ==
  ASSUME BaseInv, BaseInv', RecordInv, Acquire
  PROVE  RecordInv'
<1>1. /\ TypeOK /\ Shape /\ thread.at = "lock" /\ thread.kind = "hello" /\ ~locked
      /\ thread.at \in Calling /\ thread.path \in Paths /\ UNCHANGED <<inst, recorded>>
      /\ thread.idle = 0 /\ AllQuiet'
  BY RestConn DEF Acquire, BaseInv, Shape, Calling, RecordInv, NotYetIdle
<1>2. CASE Connected /\ locked' = locked
  <2>1. locked' = FALSE
    BY <1>1, <1>2 DEF TypeOK
  <2> QED BY <1>1, <1>2, <2>1, ConnectedEnds, SameRecord, EndedRecord
<1>3. CASE Ask("warm") /\ locked' = TRUE
  <2>1. /\ thread'.at = "send" /\ thread'.kind = "warm" /\ thread'.idle = 0
        /\ thread'.path = thread.path /\ thread'.id = thread.id
    BY <1>1, <1>3 DEF Ask, Goto, TypeOK, Thread
  <2>2. NotYetIdle' /\ RecordIsTrue'
    BY <1>1, <2>1 DEF NotYetIdle, RecordInv, RecordIsTrue
  <2>3. ASSUME NEW p \in Paths
        PROVE  RecordOK(p)'
    <3>1. RecordOK(p) /\ (Holding(p)' <=> thread.path = p)
      BY <1>3, <2>1 DEF RecordInv, Holding
    <3>2. \A n \in Nat : ~ReplyIs(p, TRUE, n)'
      <4>1. \A x : <<x>> # <<>>
        OBVIOUS
      <4> QED BY <1>1, <4>1, Zenon DEF AllQuiet, Quiet, ReplyIs
    <3>3. WarmOK(p)'
      <4>1. ~(thread'.idle >= 1) /\ thread'.kind \notin {"current", "number", "reload"}
        BY <2>1
      <4> QED BY <3>2, <4>1, Zenon DEF WarmOK
    <3> QED BY <1>1, <2>1, <3>1, <3>3 DEF RecordOK
  <2> QED BY <2>2, <2>3 DEF RecordInv
<1> QED BY <1>2, <1>3 DEF Acquire

LEMMA SendRecord ==
  ASSUME BaseInv, BaseInv', RecordInv, Send
  PROVE  RecordInv'
<1>1. /\ TypeOK /\ Shape /\ ConnInv /\ thread.at = "send" /\ thread.path \in Paths /\ AllQuiet
      /\ inst' = inst
  BY QuietAtRest DEF BaseInv, Send, Shape, Calling
<1>2. CASE ~open[thread.path]
  <2>1. Failed(FALSE) /\ todo' = todo /\ UNCHANGED <<inst, acted, plain, faults>>
    BY <1>2 DEF Send
  <2>2. AllQuiet'
    BY <1>2, SendConn
  <2> QED BY <1>1, <2>1, <2>2, FailedRecord
<1>3. CASE open[thread.path]
  <2>1. thread' = [thread EXCEPT !.at = "recv"] /\ UNCHANGED <<replies, locked, recorded>>
    BY <1>3 DEF Send
  <2>2. /\ thread'.at = "recv" /\ thread'.kind = thread.kind /\ thread'.idle = thread.idle
        /\ thread'.quiet = thread.quiet /\ thread'.path = thread.path /\ thread'.id = thread.id
    BY <1>1, <2>1 DEF TypeOK, Thread
  <2>3. NotYetIdle' /\ RecordIsTrue'
    BY <1>1, <2>1, <2>2 DEF NotYetIdle, RecordInv, RecordIsTrue
  <2>4. ASSUME NEW p \in Paths
        PROVE  RecordOK(p)'
    <3>1. /\ RecordOK(p) /\ (Holding(p)' <=> Holding(p)) /\ (Looked(p)' <=> Looked(p))
      BY <1>1, <2>1, <2>2 DEF RecordInv, Holding, Looked
    <3>2. \A n \in Nat : ~ReplyIs(p, TRUE, n)'
      <4>1. \A x : <<x>> # <<>>
        OBVIOUS
      <4>2. replies'[p] = <<>>
        BY <1>1, <2>1 DEF AllQuiet, Quiet
      <4> QED BY <4>1, <4>2, Zenon DEF ReplyIs
    <3>3. WarmOK(p) => WarmOK(p)'
      BY <1>1, <2>2, <3>2 DEF WarmOK, Warm, Idle
    <3> QED BY <1>1, <2>1, <2>2, <3>1, <3>3 DEF RecordOK
  <2> QED BY <2>3, <2>4 DEF RecordInv
<1> QED BY <1>2, <1>3

LEMMA ConnectRecord ==
  ASSUME BaseInv, BaseInv', RecordInv, Connect
  PROVE  RecordInv'
<1>1. /\ TypeOK /\ Shape /\ thread.at = "connect" /\ thread.kind = "hello"
      /\ thread.at \in Calling /\ UNCHANGED <<inst, locked, recorded>>
  BY DEF Connect, BaseInv, Shape, Calling
<1> DEFINE t == [thread EXCEPT !.at = "recv"]
<1>2. thread' = t \/ NotConnected
  BY DEF Connect, Goto
<1>3. t.at = "recv" /\ t.kind = "hello" /\ t.idle = thread.idle
  BY <1>1 DEF TypeOK, Thread
<1> HIDE DEF t
<1>4. thread.kind \notin Inner
  BY <1>1 DEF Inner
<1> QED BY <1>1, <1>2, <1>3, <1>4, ConnectingRecord, NotConnectedRecord

\* The answer that is taken is that of the command under way.
LEMMA ReceiveCases ==
  ASSUME BaseInv, Receive
  PROVE  \E ok \in BOOLEAN, n \in Nat :
           /\ ReplyIs(thread.path, ok, n)
           /\ \/ thread.kind \in Inner /\ EnsureStep(ok, n)
              \/ /\ UNCHANGED <<locked, recorded>> /\ thread.kind \notin Inner
                 /\ \/ thread.kind = "hello" /\ ok /\ Goto([thread EXCEPT !.at = "stat"])
                    \/ thread.kind = "hello" /\ ~ok /\ NotConnected
                    \/ thread.kind = "size" /\ Sized(IF ok THEN n ELSE SizeError)
                    \/ thread.kind = "pcap" /\ Submitted(ok)
<1> DEFINE r == Head(replies[thread.path])
<1>1. TypeOK /\ r \in Reply /\ Answered(r)
  BY ReceiveFacts DEF BaseInv, CallInv
<1>2. ReplyIs(thread.path, r.ok, r.n)
  BY ReceiveConn
<1> HIDE DEF r
<1>3. /\ r.ok \in BOOLEAN /\ r.n \in Nat
      /\ \/ thread.kind \in Inner /\ EnsureStep(r.ok, r.n)
         \/ /\ UNCHANGED <<locked, recorded>> /\ thread.kind \notin Inner
            /\ \/ thread.kind = "hello" /\ r.ok /\ Goto([thread EXCEPT !.at = "stat"])
               \/ thread.kind = "hello" /\ ~r.ok /\ NotConnected
               \/ thread.kind = "size" /\ Sized(IF r.ok THEN r.n ELSE SizeError)
               \/ thread.kind = "pcap" /\ Submitted(r.ok)
  BY <1>1, AnsweredCases
<1> QED BY <1>2, <1>3

LEMMA ReceiveRecord ==
  ASSUME BaseInv, BaseInv', RecordInv, Receive
  PROVE  RecordInv'
<1>1. TypeOK /\ Shape /\ ConnInv /\ thread.at = "recv" /\ thread.at \in Calling /\ inst' = inst /\ AllQuiet'
  BY ReceiveConn DEF BaseInv, Receive, Calling
<1>2. PICK ok \in BOOLEAN, n \in Nat :
        /\ ReplyIs(thread.path, ok, n)
        /\ \/ thread.kind \in Inner /\ EnsureStep(ok, n)
           \/ /\ UNCHANGED <<locked, recorded>>
              /\ \/ thread.kind = "hello" /\ Goto([thread EXCEPT !.at = "stat"])
                 \/ thread.kind = "hello" /\ NotConnected
                 \/ thread.kind = "size" /\ \E m : Sized(m)
                 \/ thread.kind = "pcap" /\ Submitted(ok)
  BY ReceiveCases
<1>3. CASE thread.kind \in Inner /\ EnsureStep(ok, n)
  <2>1. ok => ok = TRUE
    OBVIOUS
  <2>2. ok => ReplyIs(thread.path, TRUE, n)
    BY <1>2, <2>1, Zenon
  <2> QED BY <1>1, <1>3, <2>2, EnsureRecord
<1>4. CASE thread.kind = "hello" /\ Goto([thread EXCEPT !.at = "stat"]) /\ UNCHANGED <<locked, recorded>>
  <2> DEFINE t == [thread EXCEPT !.at = "stat"]
  <2>1. t.at = "stat" /\ t.kind = "hello" /\ t.idle = thread.idle
    BY <1>1, <1>4 DEF TypeOK, Thread
  <2>2. thread' = t
    BY <1>4 DEF Goto
  <2> HIDE DEF t
  <2> QED BY <1>1, <1>4, <2>1, <2>2, ConnectingRecord DEF Inner
<1>5. CASE thread.kind = "hello" /\ NotConnected /\ UNCHANGED <<locked, recorded>>
  BY <1>1, <1>5, NotConnectedRecord
<1>6. CASE thread.kind \in Outer /\ (thread' = At("choose") \/ thread' = At("done"))
           /\ UNCHANGED <<locked, recorded>>
  <2>1. thread'.at # "lock" /\ thread'.idle = 0 /\ ~locked'
    BY <1>1, <1>6 DEF At, Shape, Outer, Inner
  <2> QED BY <1>1, <1>6, <2>1, SameRecord, FreeRecord DEF NotYetIdle
<1>7. ASSUME NEW m, Sized(m)
      PROVE  thread' = At("choose")
  BY <1>7 DEF Sized
<1>8. Submitted(ok) => thread' = At("done")
  BY DEF Submitted
<1> QED BY <1>2, <1>3, <1>4, <1>5, <1>6, <1>7, <1>8 DEF Outer

-----------------------------------------------------------------------------
(* The instances under the thread's eyes.                                  *)

\* An instance does not forget what it has run, nor its rules.
Grows ==
  \A p \in Paths :
    /\ inst'[p].up = inst[p].up /\ inst'[p].boot = inst[p].boot
    /\ (Warm(p) => Warm(p)') /\ (Idle(p) => Idle(p)')
    /\ (inst[p].ran => inst'[p].ran) /\ (inst[p].meta => inst'[p].meta)
    /\ inst'[p].meta => inst'[p].ran

LEMMA GrowsRecord ==
  ASSUME RecordInv, Grows, UNCHANGED <<locked, recorded>>,
         thread'.at = thread.at, thread'.kind = thread.kind, thread'.path = thread.path,
         thread'.id = thread.id, thread'.idle = thread.idle, thread'.quiet = thread.quiet,
         \A p \in Paths, n \in Nat :
           ReplyIs(p, TRUE, n)' => ReplyIs(p, TRUE, n) \/ (Holding(p) /\ Looked(p) => Evidence(p, n)')
  PROVE  RecordInv'
<1>1. NotYetIdle' /\ RecordIsTrue'
  BY DEF NotYetIdle, RecordInv, RecordIsTrue, Grows
<1>2. ASSUME NEW p \in Paths
      PROVE  RecordOK(p)'
  <2>1. /\ RecordOK(p) /\ (Holding(p)' <=> Holding(p)) /\ (Looked(p)' <=> Looked(p))
        /\ inst'[p].boot = inst[p].boot /\ (inst'[p].meta => inst'[p].ran)
    BY DEF RecordInv, Holding, Looked, Grows
  <2>2. ASSUME Holding(p), Looked(p)
        PROVE  WarmOK(p)'
    <3>1. WarmOK(p)
      BY <2>1, <2>2 DEF RecordOK
    <3>2. ASSUME NEW n \in Nat, ReplyIs(p, TRUE, n)'
          PROVE  Evidence(p, n)'
      <4>1. CASE ReplyIs(p, TRUE, n)
        <5>1. Evidence(p, n)
          BY <3>1, <4>1 DEF WarmOK
        <5> QED BY <5>1 DEF Evidence, Grows
      <4> QED BY <2>2, <3>2, <4>1
    <3>3. /\ thread'.kind \in {"current", "number", "reload"} => Warm(p)'
          /\ thread'.idle >= 1 => Idle(p)'
          /\ thread'.idle >= 1 /\ thread'.quiet => inst'[p].ran
          /\ thread'.kind = "reload" => inst'[p].ran
      BY <3>1 DEF WarmOK, Grows
    <3> QED BY <3>2, <3>3, Zenon DEF WarmOK
  <2> QED BY <2>1, <2>2 DEF RecordOK
<1> QED BY <1>1, <1>2 DEF RecordInv

LEMMA SameGrows ==
  ASSUME RecordInv, inst' = inst
  PROVE  Grows
BY DEF Grows, Warm, Idle, RecordInv, RecordOK

\* One instance moves on.
LEMMA OneGrows ==
  ASSUME TypeOK, RecordInv, NEW p \in Paths, NEW i, inst' = [inst EXCEPT ![p] = i],
         i.up = inst[p].up, i.boot = inst[p].boot,
         Warm(p) => i.queue # <<>> \/ i.busy \/ i.ran, Idle(p) => i.busy \/ i.ran,
         inst[p].ran => i.ran, inst[p].meta => i.meta, i.meta => i.ran
  PROVE  Grows
<1>1. inst'[p] = i /\ \A q \in Paths : q # p => inst'[q] = inst[q]
  BY DEF TypeOK
<1>2. ASSUME NEW q \in Paths
      PROVE  /\ inst'[q].up = inst[q].up /\ inst'[q].boot = inst[q].boot
             /\ (Warm(q) => Warm(q)') /\ (Idle(q) => Idle(q)')
             /\ (inst[q].ran => inst'[q].ran) /\ (inst[q].meta => inst'[q].meta)
             /\ inst'[q].meta => inst'[q].ran
  <2>1. CASE q = p
    BY <1>1, <2>1 DEF Warm, Idle
  <2>2. CASE q # p
    BY <1>1, <2>2 DEF Warm, Idle, RecordInv, RecordOK
  <2> QED BY <2>1, <2>2
<1> QED BY <1>2 DEF Grows

LEMMA ActGrows ==
  ASSUME TypeOK, RecordInv, NEW p \in Paths, NEW c, Act(p, c)
  PROVE  Grows
<1>1. RecordOK(p) /\ inst[p] \in Instance
  BY DEF RecordInv, TypeOK
<1>2. CASE c.kind \in {"pcap", "warm"}
  <2> DEFINE s == Append(inst[p].queue, c.cap)
             i == [inst[p] EXCEPT !.queue = s]
  <2>1. inst' = [inst EXCEPT ![p] = i]
    BY <1>2 DEF Act
  <2>2. s # <<>>
    BY <1>1, InstanceFields
  <2> HIDE DEF s
  <2>3. /\ i.up = inst[p].up /\ i.boot = inst[p].boot /\ i.queue = s /\ i.busy = inst[p].busy
        /\ i.ran = inst[p].ran /\ i.meta = inst[p].meta
    BY <1>1 DEF Instance
  <2> HIDE DEF i
  <2> QED BY <1>1, <2>1, <2>2, <2>3, OneGrows DEF RecordOK, Idle
<1>3. CASE c.kind = "reload"
  <2> DEFINE i == [inst[p] EXCEPT !.meta = inst[p].ran]
  <2>1. inst' = [inst EXCEPT ![p] = i]
    BY <1>3 DEF Act
  <2>2. /\ i.up = inst[p].up /\ i.boot = inst[p].boot /\ i.queue = inst[p].queue
        /\ i.busy = inst[p].busy /\ i.ran = inst[p].ran /\ i.meta = inst[p].ran
    BY <1>1 DEF Instance
  <2> HIDE DEF i
  <2> QED BY <1>1, <2>1, <2>2, OneGrows DEF RecordOK, Idle, Warm
<1>4. CASE c.kind \notin {"pcap", "warm", "reload"}
  <2>1. inst' = inst
    BY <1>4 DEF Act
  <2> QED BY <2>1, SameGrows
<1> QED BY <1>2, <1>3, <1>4

LEMMA RunGrows ==
  ASSUME TypeOK, RecordInv, NEW p \in Paths, StartRun(p) \/ EndRun(p)
  PROVE  Grows
<1>1. RecordOK(p) /\ inst[p] \in Instance
  BY DEF RecordInv, TypeOK
<1>2. CASE StartRun(p)
  <2> DEFINE s == Tail(inst[p].queue)
             i == [inst[p] EXCEPT !.queue = s, !.busy = TRUE]
  <2>1. inst' = [inst EXCEPT ![p] = i]
    BY <1>2, Zenon DEF StartRun
  <2> HIDE DEF s
  <2>2. i.up = inst[p].up /\ i.boot = inst[p].boot /\ i.busy /\ i.ran = inst[p].ran /\ i.meta = inst[p].meta
    BY <1>1 DEF Instance
  <2> HIDE DEF i
  <2> QED BY <1>1, <2>1, <2>2, OneGrows DEF RecordOK
<1>3. CASE EndRun(p)
  <2> DEFINE i == [inst[p] EXCEPT !.busy = FALSE, !.ran = TRUE]
  <2>1. inst' = [inst EXCEPT ![p] = i]
    BY <1>3, Zenon DEF EndRun
  <2>2. i.up = inst[p].up /\ i.boot = inst[p].boot /\ i.ran /\ i.meta = inst[p].meta
    BY <1>1 DEF Instance
  <2> HIDE DEF i
  <2> QED BY <1>1, <2>1, <2>2, OneGrows DEF RecordOK
<1> QED BY <1>2, <1>3

\* An answer tells what the instance does when it gives it.
LEMMA RespondRecord ==
  ASSUME BaseInv, BaseInv', RecordInv, NEW p \in Paths, Respond(p)
  PROVE  RecordInv'
<1>1. /\ TypeOK /\ Shape /\ Waiting(p) /\ Asked(p) /\ wire' = [wire EXCEPT ![p] = <<>>]
      /\ UNCHANGED <<threadVars, jobVars>> /\ RecordOK(p) /\ NotYetIdle
  BY RespondFacts DEF BaseInv, RecordInv
<1>2. UNCHANGED <<locked, recorded, thread>> /\ Now' = Now
  BY <1>1, SameThread DEF threadVars
<1>3. \A q \in Paths \ {p} : Quiet(q)
  BY <1>1, OthersQuiet DEF BaseInv, Waiting
<1>4. \A x : <<x>> # <<>>
  OBVIOUS
<1>5. ASSUME NEW r, replies' = [replies EXCEPT ![p] = r]
      PROVE  \A q \in Paths \ {p}, n \in Nat : ~ReplyIs(q, TRUE, n)'
  <2>1. \A q \in Paths \ {p} : replies'[q] = <<>>
    BY <1>1, <1>3, <1>5 DEF Quiet, TypeOK
  <2> QED BY <1>4, <2>1, Zenon DEF ReplyIs
<1>6. CASE /\ Act(p, Now)
           /\ replies' = [replies EXCEPT ![p] = <<[to |-> Now, ok |-> TRUE, n |-> Value(p, Now)]>>]
  <2>1. Grows
    BY <1>1, <1>6, ActGrows
  <2>2. ASSUME NEW n \in Nat, ReplyIs(p, TRUE, n)'
        PROVE  n = Value(p, Now)
    <3>1. replies'[p] = <<[to |-> Now, ok |-> TRUE, n |-> Value(p, Now)]>>
      BY <1>1, <1>6 DEF TypeOK
    <3>2. replies'[p] = <<[to |-> Now, ok |-> TRUE, n |-> n]>>
      BY <1>2, <2>2 DEF ReplyIs
    <3> QED BY <3>1, <3>2
  <2>3. ASSUME NEW n \in Nat, n = Value(p, Now), Holding(p), Looked(p)
        PROVE  Evidence(p, n)'
    <3>1. WarmOK(p) /\ thread.kind \in Inner /\ Now.kind = thread.kind
      BY <1>1, <2>3, NowIs DEF RecordOK, Holding, Shape, Waiting, CallInv
    <3>2. inst[p] \in Instance /\ inst[p].queue \in Seq(Captures \cup {NoCapture})
      BY <1>1, InstanceFields DEF TypeOK
    <3>3. CASE thread.kind = "warm"
      <4> DEFINE s == Append(inst[p].queue, Now.cap)
      <4>1. inst' = [inst EXCEPT ![p].queue = s]
        BY <1>6, <3>1, <3>3 DEF Act
      <4>2. s # <<>>
        BY <3>2
      <4> HIDE DEF s
      <4>3. inst'[p].queue = s
        BY <1>1, <3>2, <4>1 DEF TypeOK, Instance
      <4>4. Warm(p)'
        BY <4>2, <4>3 DEF Warm
      <4> QED BY <1>2, <3>3, <4>4 DEF Evidence
    <3>4. CASE thread.kind = "number"
      <4>1. n = 0 => inst[p].queue = <<>>
        BY <2>3, <3>1, <3>2, <3>4 DEF Value
      <4>2. n = 0 => Idle(p)
        BY <3>1, <3>4, <4>1 DEF WarmOK, Warm, Idle
      <4> QED BY <1>2, <2>1, <3>4, <4>2 DEF Evidence, Grows
    <3>5. CASE thread.kind = "current"
      <4>1. n = 0 => ~inst[p].busy
        BY <2>3, <3>1, <3>5 DEF Value
      <4>2. n = 0 /\ thread.idle >= 1 => inst[p].ran
        BY <3>1, <3>5, <4>1 DEF WarmOK, Idle
      <4> QED BY <1>2, <2>1, <3>5, <4>2 DEF Evidence, Grows
    <3>6. CASE thread.kind = "reload"
      <4>1. inst' = [inst EXCEPT ![p].meta = inst[p].ran] /\ inst[p].ran
        BY <1>6, <3>1, <3>6 DEF Act, WarmOK
      <4>2. inst'[p].meta
        BY <1>1, <3>2, <4>1 DEF TypeOK, Instance
      <4> QED BY <1>2, <3>6, <4>2 DEF Evidence
    <3> QED BY <3>1, <3>3, <3>4, <3>5, <3>6 DEF Inner
  <2>4. ASSUME NEW q \in Paths, NEW n \in Nat, ReplyIs(q, TRUE, n)'
        PROVE  Holding(q) /\ Looked(q) => Evidence(q, n)'
    <3>1. q = p
      BY <1>5, <1>6, <2>4
    <3> QED BY <2>2, <2>3, <2>4, <3>1
  <2> QED BY <1>2, <2>1, <2>4, GrowsRecord
<1>7. CASE /\ inst' = inst
           /\ replies' = [replies EXCEPT ![p] = <<[to |-> Now, ok |-> FALSE, n |-> 0]>>]
  <2>1. ASSUME NEW q \in Paths, NEW n \in Nat
        PROVE  ~ReplyIs(q, TRUE, n)'
    <3>1. CASE q = p
      <4>1. replies'[p] = <<[to |-> Now, ok |-> FALSE, n |-> 0]>>
        BY <1>1, <1>7 DEF TypeOK
      <4>2. ReplyIs(p, TRUE, n)' => replies'[p] = <<[to |-> Now, ok |-> TRUE, n |-> n]>>
        BY <1>2 DEF ReplyIs
      <4>3. /\ \A x, y : <<x>> = <<y>> => x = y
            /\ \A c : [to |-> c, ok |-> FALSE, n |-> 0] # [to |-> c, ok |-> TRUE, n |-> n]
        OBVIOUS
      <4> QED BY <3>1, <4>1, <4>2, <4>3, Zenon
    <3>2. CASE q # p
      BY <1>5, <1>7, <3>2
    <3> QED BY <3>1, <3>2
  <2> QED BY <1>2, <1>7, <2>1, SameGrows, GrowsRecord
<1> QED BY <1>6, <1>7, RespondFacts

\* The other steps of an instance, of a message and of time.
LEMMA EnvironmentRecord ==
  ASSUME BaseInv, RecordInv,
         \/ \E p \in Paths : ReadOrphan(p) \/ StartRun(p) \/ EndRun(p)
         \/ (\E c \in Captures : Announce(c)) \/ Deadline \/ UNCHANGED vars
  PROVE  RecordInv'
<1>1. TypeOK
  BY DEF BaseInv
<1>1a. CallInv
  BY DEF BaseInv, CallInv
<1>2. UNCHANGED <<wire, replies, locked, recorded, job>>
  BY <1>1a, ReadOrphanFacts
     DEF StartRun, EndRun, Announce, Deadline, vars, connVars, threadVars, jobVars
<1>3. /\ thread'.at = thread.at /\ thread'.kind = thread.kind /\ thread'.path = thread.path
      /\ thread'.id = thread.id /\ thread'.idle = thread.idle /\ thread'.quiet = thread.quiet
  <2>1. CASE Deadline
    BY <1>1, <2>1 DEF Deadline, TypeOK, Thread
  <2>2. CASE ~Deadline
    BY <1>1a, <2>2, ReadOrphanFacts DEF StartRun, EndRun, Announce, vars, threadVars
  <2> QED BY <2>1, <2>2
<1>4. \A p \in Paths, n \in Nat : ReplyIs(p, TRUE, n)' => ReplyIs(p, TRUE, n)
  BY <1>2, <1>3 DEF ReplyIs, Now
<1>5. Grows
  <2>1. CASE \E p \in Paths : ReadOrphan(p)
    <3>1. PICK p \in Paths, c \in Effective : Act(p, c) \/ inst' = inst
      BY <1>1a, <2>1, ReadOrphanFacts
    <3> QED BY <1>1, <3>1, ActGrows, SameGrows
  <2>2. CASE \E p \in Paths : StartRun(p) \/ EndRun(p)
    BY <1>1, <2>2, RunGrows
  <2>3. CASE (\E c \in Captures : Announce(c)) \/ Deadline \/ UNCHANGED vars
    BY <2>3, SameGrows DEF Announce, Deadline, vars
  <2> QED BY <2>1, <2>2, <2>3
<1> QED BY <1>2, <1>3, <1>4, <1>5, GrowsRecord

\* What is started again has another identity than the one that was looked at.
LEMMA BootRecord ==
  ASSUME BaseInv, RecordInv, NEW p \in Paths, Boot(p)
  PROVE  RecordInv'
<1> DEFINE i == Started(inst[p].boot + 1)
<1>1. /\ TypeOK /\ inst' = [inst EXCEPT ![p] = i] /\ ~inst[p].up
      /\ UNCHANGED <<connVars, threadVars, jobVars>>
  BY DEF Boot, BaseInv
<1>2. inst[p].boot \in Nat /\ recorded[p] \in Nat /\ thread.id \in Nat
  BY <1>1, InstanceFields, ThreadFields DEF TypeOK
<1>3. i.boot = inst[p].boot + 1 /\ ~i.meta
  BY <1>2, StartedIs
<1> HIDE DEF i
<1>4. inst'[p] = i /\ (\A q \in Paths \ {p} : inst'[q] = inst[q]) /\ Now' = Now
      /\ UNCHANGED <<thread, locked, recorded, wire, replies>>
  BY <1>1 DEF TypeOK, threadVars, connVars, jobVars, Now
<1>5. /\ RecordOK(p) /\ recorded[p] < i.boot
      /\ (thread.at = "lock" /\ thread.path = p) \/ Holding(p) => thread.id < i.boot
  BY <1>2, <1>3 DEF RecordInv, RecordOK
<1>6. ASSUME NEW q \in Paths
      PROVE  RecordOK(q)' /\ (inst[q].up /\ recorded[q] = inst[q].boot => inst[q].meta)'
  <2>1. RecordOK(q) /\ (inst[q].up /\ recorded[q] = inst[q].boot => inst[q].meta)
    BY DEF RecordInv, RecordIsTrue
  <2>2. CASE q = p
    <3>1. i.boot >= 1 /\ recorded[p] <= i.boot
      BY <1>2, <1>3, <1>5 DEF RecordOK
    <3>2. Holding(p)' => ~Looked(p)'
      BY <1>2, <1>3, <1>4, <1>5 DEF Holding, Looked
    <3>3. (thread.at = "lock" /\ thread.path = p) \/ Holding(p) => thread.id <= i.boot
      BY <1>2, <1>3, <1>5
    <3>4. recorded[p] # i.boot
      BY <1>2, <1>3, <1>5
    <3> QED BY <1>3, <1>4, <2>2, <3>1, <3>2, <3>3, <3>4 DEF RecordOK, Holding
  <2>3. CASE q # p
    BY <1>4, <2>1, <2>3
       DEF RecordOK, Holding, Looked, WarmOK, Evidence, Warm, Idle, ReplyIs
  <2> QED BY <2>2, <2>3
<1>7. NotYetIdle'
  BY <1>4 DEF NotYetIdle, RecordInv
<1> QED BY <1>6, <1>7 DEF RecordInv, RecordIsTrue

LEMMA DieRecord ==
  ASSUME BaseInv, RecordInv, NEW p \in Paths, Die(p)
  PROVE  RecordInv'
<1>1. TypeOK /\ ConnInv
  BY DEF BaseInv
<1>2. PICK i \in Instance : inst' = [inst EXCEPT ![p] = i] /\ ~i.up /\ ~i.meta /\ i.boot = inst[p].boot
  BY <1>1, DieFacts
<1>3. /\ wire' = [wire EXCEPT ![p] = <<>>] /\ UNCHANGED <<replies, threadVars, jobVars>>
  BY Zenon DEF Die
<1>4. /\ inst'[p] = i /\ Now' = Now /\ UNCHANGED <<thread, locked, recorded, replies>>
      /\ \A q \in Paths \ {p} : inst'[q] = inst[q] /\ wire'[q] = wire[q]
  BY <1>1, <1>2, <1>3 DEF TypeOK, threadVars, jobVars, Now
<1>5. ASSUME NEW q \in Paths
      PROVE  RecordOK(q)' /\ (inst[q].up /\ recorded[q] = inst[q].boot => inst[q].meta)'
  <2>1. RecordOK(q) /\ (inst[q].up /\ recorded[q] = inst[q].boot => inst[q].meta)
    BY DEF RecordInv, RecordIsTrue
  <2>2. CASE q = p
    BY <1>2, <1>4, <2>1, <2>2 DEF RecordOK, Holding, Looked
  <2>3. CASE q # p
    BY <1>4, <2>1, <2>3
       DEF RecordOK, Holding, Looked, WarmOK, Evidence, Warm, Idle, ReplyIs
  <2> QED BY <2>2, <2>3
<1>6. NotYetIdle'
  BY <1>4 DEF NotYetIdle, RecordInv
<1> QED BY <1>5, <1>6 DEF RecordInv, RecordIsTrue

LEMMA CrashRecord ==
  ASSUME BaseInv, RecordInv, Crash
  PROVE  RecordInv'
<1>1. /\ inst' = inst /\ thread' = At("idle") /\ ~locked'
      /\ \A p \in Paths : recorded'[p] = 0
  BY DEF Crash
<1>2. \A p \in Paths : inst[p].boot \in Nat /\ inst[p].boot >= 1
  BY InstanceFields DEF BaseInv, TypeOK, RecordInv, RecordOK
<1>3. RecordsTrue
  BY <1>1, <1>2 DEF RecordsTrue
<1>4. thread'.at # "lock" /\ NotYetIdle'
  BY <1>1 DEF At, NotYetIdle
<1> QED BY <1>1, <1>3, <1>4, FreeRecord

LEMMA RecordInit ==
  ASSUME Init
  PROVE  RecordInv
<1>1. \A p \in Paths : inst[p].boot = 1 /\ ~inst[p].meta /\ recorded[p] = 0
  BY StartedIs DEF Init
<1>2. thread.at = "idle" /\ thread.idle = 0 /\ ~locked
  BY DEF Init, At
<1> QED BY <1>1, <1>2 DEF RecordInv, RecordIsTrue, NotYetIdle, RecordOK, Holding

LEMMA RecordStep ==
  ASSUME BaseInv, BaseInv', RecordInv, [Next]_vars, [InTime]_vars
  PROVE  RecordInv'
<1>1. CASE ThreadStep
  <2>1. CASE NoAnswer
    <3>1. Failed(TRUE) /\ thread.at = "recv" /\ inst' = inst
      BY <2>1, NoAnswerFacts DEF BaseInv
    <3>2. ~LateHandshake => (thread.kind \in Inner => AllQuiet')
      BY <2>1, NoAnswerConn DEF Inner
    <3> QED BY <2>1, <3>1, <3>2, FailedRecord, EnvironmentRecord DEF InTime
  <2>2. CASE WarmUpEnds
    <3>1. /\ TypeOK /\ Connected /\ locked' = FALSE /\ UNCHANGED <<inst, recorded>>
          /\ thread.at \in Calling
      BY <2>2 DEF WarmUpEnds, Ensured, BaseInv, Calling
    <3> QED BY <3>1, ConnectedEnds, SameRecord, EndedRecord
  <2> QED BY <1>1, <2>1, <2>2, IdleThreadRecord, StatRecord, AcquireRecord, SendRecord,
             ConnectRecord, ReceiveRecord DEF ThreadStep
<1>2. CASE \E p \in Paths : Respond(p) \/ Boot(p) \/ Die(p)
  BY <1>2, RespondRecord, BootRecord, DieRecord
<1>3. CASE \/ \E p \in Paths : ReadOrphan(p) \/ StartRun(p) \/ EndRun(p)
           \/ (\E c \in Captures : Announce(c)) \/ Deadline \/ UNCHANGED vars
  BY <1>3, EnvironmentRecord
<1>4. CASE Crash
  BY <1>4, CrashRecord
<1> QED BY <1>1, <1>2, <1>3, <1>4 DEF Next, InstanceStep

LEMMA RecordInvariance == Spec /\ [][InTime]_vars => []RecordInv
<1>1. Init => RecordInv
  BY RecordInit
<1>2. BaseInv /\ BaseInv' /\ RecordInv /\ [Next]_vars /\ [InTime]_vars => RecordInv'
  BY RecordStep
<1> QED BY <1>1, <1>2, BaseInvariance, PTL DEF Spec

(* Up to the first handshake of a last attempt that is late: whatever else *)
(* times out, dies or is retried, an instance the worker takes to be       *)
(* warmed up has run a capture and reloaded its rules since it was         *)
(* started: the identity is read after the connection is made and before   *)
(* the reload, and one started meanwhile has another.                      *)
THEOREM RecordHolds == Spec /\ [][InTime]_vars => []RecordIsTrue
<1>1. RecordInv => RecordIsTrue
  BY DEF RecordInv
<1> QED BY <1>1, RecordInvariance, PTL

-----------------------------------------------------------------------------
(* As long as nothing fails, no connection is closed and every client was  *)
(* made for an instance that is warmed up.                                 *)

OnLine == {"send", "recv", "stat", "lock"}

CallOK(p) ==
  /\ thread.at \in OnLine /\ thread.path = p => open[p] /\ (thread.outer # "none" => client[p])
  /\ (thread.at = "lock" /\ thread.path = p) \/ Holding(p) => thread.id = inst[p].boot

ThreadOK ==
  /\ ~thread.late
  /\ thread.outer # "none" => thread.at \in {"send", "recv"} /\ thread.kind = thread.outer
  /\ \A p \in Paths : CallOK(p)

PathOK(p) ==
  /\ inst[p].up
  /\ \A c \in Effective : orphans[p][c] = 0
  /\ client[p] => open[p] /\ inst[p].meta
  /\ \A n \in Nat : ~ReplyIs(p, FALSE, n)

Undisturbed == plain = {} /\ ThreadOK /\ \A p \in Paths : PathOK(p)

LEMMA RestOK ==
  ASSUME thread'.at \notin OnLine, thread'.outer = "none", ~thread'.late, ~locked'
  PROVE  ThreadOK'
BY DEF ThreadOK, CallOK, Holding, OnLine

\* Nothing is on a connection, and none has changed.
LEMMA StillUndisturbed ==
  ASSUME Undisturbed, UNCHANGED <<inst, open, orphans, plain>>, AllQuiet', ThreadOK',
         \A p \in Paths : client'[p] => client[p] \/ (open[p] /\ inst[p].meta)
  PROVE  Undisturbed'
<1>1. \A p \in Paths, n \in Nat : ~ReplyIs(p, FALSE, n)'
  <2>1. \A x : <<x>> # <<>>
    OBVIOUS
  <2> QED BY <2>1, Zenon DEF AllQuiet, Quiet, ReplyIs
<1> QED BY <1>1 DEF Undisturbed, PathOK

\* A client is made, for an instance that is connected and warmed up.
LEMMA ConstructedUndisturbed ==
  ASSUME BaseInv, Undisturbed, NEW ok \in BOOLEAN, Constructed(ok), thread.path \in Paths,
         UNCHANGED <<inst, open, orphans, plain>>, AllQuiet', ~locked',
         ok => open[thread.path] /\ inst[thread.path].meta
  PROVE  Undisturbed'
<1>1. /\ thread' = At("refresh") /\ client' = [client EXCEPT ![thread.path] = ok]
      /\ client \in [Paths -> BOOLEAN]
  BY DEF Constructed, BaseInv, TypeOK
<1>2. thread'.at = "refresh" /\ thread'.outer = "none" /\ ~thread'.late
  BY <1>1 DEF At
<1>3. ThreadOK'
  BY <1>2, RestOK DEF OnLine
<1>4. \A p \in Paths : client'[p] => client[p] \/ (open[p] /\ inst[p].meta)
  BY <1>1
<1> QED BY <1>3, <1>4, StillUndisturbed

LEMMA IdleThreadUndisturbed ==
  ASSUME BaseInv, Undisturbed,
         Pop \/ Refresh \/ NextCapture \/ \E p \in Paths : AskSize(p) \/ Submit(p) \/ Visit(p)
  PROVE  Undisturbed'
<1>1. /\ UNCHANGED <<inst, open, orphans, locked, client, plain>> /\ ~locked /\ TypeOK /\ Shape
      /\ thread.at \in {"idle", "choose", "done", "refresh"}
  BY DEF Pop, Refresh, NextCapture, AskSize, Submit, Call, Visit, connVars, jobVars, BaseInv, Shape
<1>2. CASE Pop \/ Refresh \/ NextCapture \/ \E p \in Paths : Visit(p)
  <2>1. AllQuiet'
    <3>1. UNCHANGED <<inst, connVars>>
      BY <1>2 DEF Pop, Refresh, NextCapture, Visit
    <3> QED BY <1>1, <3>1, RestConn
  <2>2. \/ thread' = thread
        \/ \E phase \in {"choose", "done", "refresh", "idle"} : thread' = At(phase)
        \/ \E p \in Paths : thread' = [At("connect") EXCEPT !.path = p]
    BY <1>2, Zenon DEF Pop, Refresh, NextCapture, Visit
  <2>3. thread'.at \notin OnLine /\ thread'.outer = "none" /\ ~thread'.late
    <3>1. CASE thread' = thread
      BY <1>1, <3>1 DEF OnLine, Shape, Calling, Undisturbed, ThreadOK
    <3>2. CASE \E phase \in {"choose", "done", "refresh", "idle"} : thread' = At(phase)
      BY <3>2 DEF At, OnLine
    <3>3. CASE \E p \in Paths : thread' = [At("connect") EXCEPT !.path = p]
      BY <3>3 DEF At, OnLine
    <3> QED BY <2>2, <3>1, <3>2, <3>3
  <2> QED BY <1>1, <2>1, <2>3, RestOK, StillUndisturbed
<1>3. CASE \E p \in Paths : AskSize(p) \/ Submit(p)
  <2>1. PICK p \in Paths, k \in Outer :
          Call(p, k) /\ client[p] /\ thread.at = "choose" /\ sizes' = sizes
    BY <1>3 DEF AskSize, Submit, Clients, Outer
  <2>2. AllQuiet'
    <3>1. UNCHANGED <<inst, connVars>>
      BY <2>1 DEF Call
    <3> QED BY <2>1, <3>1, RestConn
  <2>3. /\ thread'.at = "send" /\ thread'.path = p /\ thread'.kind = k /\ thread'.outer = k
        /\ ~thread'.late
    BY <2>1 DEF Call, At
  <2>4. ThreadOK'
    BY <1>1, <2>1, <2>3 DEF ThreadOK, CallOK, Holding, Undisturbed, PathOK
  <2> QED BY <1>1, <2>2, <2>4, StillUndisturbed
<1> QED BY <1>2, <1>3

LEMMA StatUndisturbed ==
  ASSUME BaseInv, Undisturbed, Stat
  PROVE  Undisturbed'
<1>1. /\ TypeOK /\ Shape /\ thread.at = "stat" /\ ~locked /\ thread.path \in Paths /\ AllQuiet'
      /\ UNCHANGED <<inst, open, orphans, locked, plain>> /\ inst[thread.path].up
  BY RestConn DEF Stat, BaseInv, Shape, Calling, connVars, Undisturbed, PathOK
<1>2. Goto([thread EXCEPT !.at = "lock", !.id = inst[thread.path].boot])
  BY <1>1 DEF Stat
<1>3. /\ thread'.id = inst[thread.path].boot /\ thread'.path = thread.path /\ thread'.at = "lock"
      /\ thread'.outer = thread.outer /\ thread'.late = thread.late /\ client' = client
  BY <1>1, <1>2 DEF Goto, TypeOK, Thread, jobVars
<1>4. thread.outer = "none" /\ ~thread.late /\ open[thread.path]
  BY <1>1 DEF Undisturbed, ThreadOK, CallOK, OnLine
<1>5. ThreadOK'
  BY <1>1, <1>3, <1>4 DEF ThreadOK, CallOK, Holding
<1> QED BY <1>1, <1>3, <1>5, StillUndisturbed

LEMMA AcquireUndisturbed ==
  ASSUME BaseInv, RecordInv, Undisturbed, Acquire
  PROVE  Undisturbed'
<1>1. /\ TypeOK /\ Shape /\ thread.at = "lock" /\ ~locked /\ thread.path \in Paths /\ AllQuiet'
      /\ UNCHANGED <<inst, open, orphans, plain>>
  BY RestConn DEF Acquire, BaseInv, Shape, Calling, connVars
<1>2. /\ thread.outer = "none" /\ ~thread.late /\ open[thread.path]
      /\ thread.id = inst[thread.path].boot /\ inst[thread.path].up
  BY <1>1 DEF Undisturbed, ThreadOK, CallOK, PathOK, OnLine
<1>3. CASE Recorded /\ Connected /\ locked' = locked
  <2>1. Constructed(TRUE) /\ inst[thread.path].meta
    BY <1>1, <1>2, <1>3 DEF Connected, Recorded, RecordInv, RecordIsTrue
  <2> QED BY <1>1, <1>2, <1>3, <2>1, ConstructedUndisturbed
<1>4. CASE Ask("warm") /\ locked' = TRUE
  <2>1. /\ thread'.id = thread.id /\ thread'.path = thread.path /\ thread'.at = "send"
        /\ thread'.outer = thread.outer /\ thread'.late = thread.late /\ client' = client
    BY <1>1, <1>4 DEF Ask, Goto, TypeOK, Thread, jobVars
  <2>2. ThreadOK'
    BY <1>1, <1>2, <2>1 DEF ThreadOK, CallOK, Holding
  <2> QED BY <1>1, <2>1, <2>2, StillUndisturbed
<1> QED BY <1>3, <1>4 DEF Acquire

LEMMA SendUndisturbed ==
  ASSUME BaseInv, Undisturbed, Send
  PROVE  Undisturbed'
<1>1. /\ TypeOK /\ Shape /\ ConnInv /\ thread.at = "send" /\ thread.path \in Paths /\ AllQuiet
  BY QuietAtRest DEF BaseInv, Send, Shape, Calling
<1>2. open[thread.path]
  BY <1>1 DEF Undisturbed, ThreadOK, CallOK, OnLine
<1>3. /\ thread' = [thread EXCEPT !.at = "recv"]
      /\ UNCHANGED <<inst, open, orphans, replies, locked, client, plain>>
  BY <1>2 DEF Send, jobVars
<1>4. /\ thread'.at = "recv" /\ thread'.kind = thread.kind /\ thread'.late = thread.late
      /\ thread'.outer = thread.outer /\ thread'.path = thread.path /\ thread'.id = thread.id
  BY <1>1, <1>3 DEF TypeOK, Thread
<1>5. ThreadOK'
  BY <1>1, <1>3, <1>4 DEF Undisturbed, ThreadOK, CallOK, Holding, OnLine
<1>6. \A p \in Paths, n \in Nat : ~ReplyIs(p, FALSE, n)'
  <2>1. \A x : <<x>> # <<>>
    OBVIOUS
  <2>2. \A p \in Paths : replies'[p] = <<>>
    BY <1>1, <1>3 DEF AllQuiet, Quiet
  <2> QED BY <2>1, <2>2, Zenon DEF ReplyIs
<1> QED BY <1>3, <1>5, <1>6 DEF Undisturbed, PathOK

LEMMA ConnectUndisturbed ==
  ASSUME BaseInv, BaseInv', Undisturbed, Connect
  PROVE  Undisturbed'
<1> DEFINE p == thread.path
<1>1. /\ TypeOK /\ Shape /\ ConnInv /\ thread.at = "connect" /\ p \in Paths /\ inst[p].up
      /\ thread.outer = "none" /\ ~thread.late /\ ~locked /\ thread.kind = "hello"
  BY DEF BaseInv, Connect, Shape, Calling, Undisturbed, ThreadOK, PathOK
<1>2. /\ Goto([thread EXCEPT !.at = "recv"]) /\ open' = [open EXCEPT ![p] = inst[p].up]
      /\ orphans' = [orphans EXCEPT ![p] = Unread(p)] /\ replies' = [replies EXCEPT ![p] = <<>>]
      /\ UNCHANGED <<inst, locked, plain>>
  BY <1>1 DEF Connect
<1>3. /\ thread'.at = "recv" /\ thread'.outer = "none" /\ ~thread'.late /\ thread'.path = p
      /\ client' = client
  BY <1>1, <1>2 DEF Goto, TypeOK, Thread, jobVars
<1>4. open'[p] /\ \A q \in Paths : open[q] => open'[q]
  BY <1>1, <1>2 DEF TypeOK
<1>5. \A q \in Paths, c \in Effective : orphans'[q][c] = 0
  <2>2. \A q \in Paths, c \in Effective : orphans[q][c] = 0
    BY DEF Undisturbed, PathOK
  <2>3. ASSUME NEW c \in Effective
        PROVE  Unread(p)[c] = 0
    <3>1. Now.kind = "hello" /\ c.kind # "hello"
      BY <1>1 DEF Now, Effective
    <3>2. wire[p] = <<>> \/ wire[p] = <<Now>>
      BY <1>1 DEF ConnInv, Quiet, Asked, Told, ReplyIs
    <3>3. wire[p] # <<c>>
      <4> DEFINE now == Now
      <4>1. now # c /\ (wire[p] = <<>> \/ wire[p] = <<now>>)
        BY <3>1, <3>2
      <4> HIDE DEF now
      <4>2. (\A x : <<x>> # <<>>) /\ \A x, y : <<x>> = <<y>> => x = y
        OBVIOUS
      <4> QED BY <4>1, <4>2, Zenon
    <3> QED BY <1>1, <2>2, <3>3, UnreadIs
  <2> QED BY <1>1, <1>2, <2>2, <2>3 DEF TypeOK
<1>6. \A q \in Paths, n \in Nat : ~ReplyIs(q, FALSE, n)'
  <2>1. \A x : <<x>> # <<>>
    OBVIOUS
  <2>2. \A q \in Paths : replies'[q] = <<>>
    BY <1>1, <1>2, OthersQuiet DEF Quiet, TypeOK
  <2> QED BY <2>1, <2>2, Zenon DEF ReplyIs
<1>7. ThreadOK'
  BY <1>1, <1>2, <1>3, <1>4 DEF ThreadOK, CallOK, Holding
<1> QED BY <1>2, <1>3, <1>4, <1>5, <1>6, <1>7 DEF Undisturbed, PathOK

LEMMA AsksUndisturbed ==
  ASSUME BaseInv, Undisturbed, NEW k, NEW idle, NEW quiet, Asks(k, idle, quiet),
         thread.path \in Paths, thread.at = "recv", thread.outer = "none", locked,
         UNCHANGED <<inst, open, orphans, locked, plain>>, AllQuiet'
  PROVE  Undisturbed'
<1>1. /\ thread'.at = "send" /\ thread'.outer = "none" /\ thread'.path = thread.path
      /\ thread'.id = thread.id /\ thread'.late = thread.late /\ client' = client
  BY DEF Asks, Goto, jobVars, BaseInv, TypeOK, Thread
<1>2. ThreadOK'
  BY <1>1 DEF Undisturbed, ThreadOK, CallOK, Holding, OnLine
<1> QED BY <1>1, <1>2, StillUndisturbed

LEMMA ReceiveUndisturbed ==
  ASSUME BaseInv, RecordInv, Undisturbed, Receive
  PROVE  Undisturbed'
<1> DEFINE p == thread.path
<1>1. /\ TypeOK /\ Shape /\ ConnInv /\ thread.at = "recv" /\ p \in Paths /\ AllQuiet'
      /\ UNCHANGED <<inst, open, orphans, plain>>
  BY ReceiveConn DEF BaseInv, Receive, Shape, Calling
<1>2. PICK ok \in BOOLEAN, n \in Nat :
        /\ ReplyIs(p, ok, n)
        /\ \/ thread.kind \in Inner /\ EnsureStep(ok, n)
           \/ /\ UNCHANGED <<locked, recorded>>
              /\ \/ thread.kind = "hello" /\ ok /\ Goto([thread EXCEPT !.at = "stat"])
                 \/ thread.kind = "hello" /\ ~ok /\ NotConnected
                 \/ thread.kind = "size" /\ \E m : Sized(m)
                 \/ thread.kind = "pcap" /\ Submitted(ok)
  BY ReceiveCases
<1>3. PathOK(p) /\ CallOK(p) /\ ~thread.late /\ open[p] /\ inst[p].up
  BY <1>1 DEF Undisturbed, ThreadOK, CallOK, PathOK, OnLine
<1>4. ok = TRUE
  <2>1. ok # FALSE
    <3>1. ~ReplyIs(p, FALSE, n)
      BY <1>2, <1>3 DEF PathOK
    <3> QED BY <1>2, <3>1, Zenon
  <2> QED BY <2>1
<1>5. thread.kind \notin Outer => thread.outer = "none"
  BY <1>1, ThreadFields DEF Undisturbed, ThreadOK, TypeOK, Outer
<1>6. CASE thread.kind \in Inner /\ EnsureStep(ok, n)
  <2>1. thread.outer = "none" /\ locked /\ Holding(p)
    BY <1>1, <1>5, <1>6 DEF Inner, Outer, Shape, Holding
  <2>2. CASE Ended /\ locked' = FALSE /\ thread.kind = "reload"
    <3>1. PICK made \in BOOLEAN : Constructed(made)
      BY <2>1, <2>2 DEF Ended
    <3>2. ReplyIs(p, TRUE, n)
      BY <1>2, <1>4, Zenon
    <3>3. WarmOK(p)
      BY <1>1, <1>3, <2>1 DEF RecordInv, RecordOK, CallOK, Looked
    <3>4. inst[p].meta
      BY <2>2, <3>2, <3>3 DEF WarmOK, Evidence
    <3> QED BY <1>1, <1>3, <2>2, <3>1, <3>4, ConstructedUndisturbed
  <2>3. ASSUME NEW k, NEW idle, NEW quiet, Asks(k, idle, quiet), locked' = locked
        PROVE  Undisturbed'
    BY <1>1, <2>1, <2>3, AsksUndisturbed
  <2> QED BY <1>1, <1>4, <1>6, <2>2, <2>3, EnsureCases
<1>7. CASE thread.kind = "hello" /\ Goto([thread EXCEPT !.at = "stat"]) /\ UNCHANGED <<locked, recorded>>
  <2>1. /\ thread'.at = "stat" /\ thread'.outer = "none" /\ thread'.path = p /\ ~thread'.late
        /\ client' = client /\ ~locked'
    BY <1>1, <1>3, <1>5, <1>7 DEF Goto, jobVars, TypeOK, Thread, Outer, Inner, Shape
  <2>2. ThreadOK'
    BY <1>1, <1>3, <2>1 DEF ThreadOK, CallOK, Holding
  <2> QED BY <1>1, <2>1, <2>2, StillUndisturbed
<1>8. CASE thread.kind \in Outer /\ UNCHANGED <<locked, client>>
           /\ (thread' = At("choose") \/ thread' = At("done"))
  <2>1. thread'.at \notin OnLine /\ thread'.outer = "none" /\ ~thread'.late /\ ~locked'
    BY <1>1, <1>8 DEF At, OnLine, Shape, Outer, Inner
  <2>2. ThreadOK'
    BY <2>1, RestOK
  <2> QED BY <1>1, <1>8, <2>2, StillUndisturbed
<1>9. ASSUME NEW m, Sized(m)
      PROVE  thread' = At("choose") /\ client' = client
  BY <1>9 DEF Sized, jobVars
<1>10. Submitted(ok) => thread' = At("done") /\ client' = client
  BY DEF Submitted
<1> QED BY <1>2, <1>4, <1>6, <1>7, <1>8, <1>9, <1>10 DEF Outer

\* A capture goes to a warmed-up instance.
LEMMA RespondUndisturbed ==
  ASSUME BaseInv, RecordInv, Undisturbed, NEW p \in Paths, Respond(p), faults' = faults
  PROVE  Undisturbed'
<1>1. /\ TypeOK /\ Shape /\ Waiting(p) /\ Asked(p) /\ wire' = [wire EXCEPT ![p] = <<>>]
      /\ UNCHANGED <<orphans, threadVars, jobVars>> /\ PathOK(p) /\ CallOK(p)
  BY RespondFacts DEF BaseInv, Undisturbed, ThreadOK
<1>2. UNCHANGED <<locked, thread, client>> /\ Now' = Now
  BY <1>1, SameThread DEF threadVars, jobVars
<1>3. /\ Act(p, Now) /\ open' = open
      /\ replies' = [replies EXCEPT ![p] = <<[to |-> Now, ok |-> TRUE, n |-> Value(p, Now)]>>]
  BY <1>1, RespondFacts DEF Fault, TypeOK
<1>4. Grows
  BY <1>1, <1>3, ActGrows
<1>5. plain' = {}
  <2>1. Now.kind = "pcap" => inst[p].meta
    BY <1>1, NowIs DEF Shape, Outer, CallOK, PathOK, Waiting, OnLine, BaseInv, CallInv
  <2> QED BY <1>3, <2>1 DEF Act, Undisturbed
<1>6. ASSUME NEW q \in Paths, NEW n \in Nat
      PROVE  ~ReplyIs(q, FALSE, n)'
  <2>1. CASE q = p
    <3>1. replies'[p] = <<[to |-> Now, ok |-> TRUE, n |-> Value(p, Now)]>>
      BY <1>1, <1>3 DEF TypeOK
    <3>2. ReplyIs(p, FALSE, n)' => replies'[p] = <<[to |-> Now, ok |-> FALSE, n |-> n]>>
      BY <1>2 DEF ReplyIs
    <3>3. /\ \A x, y : <<x>> = <<y>> => x = y
          /\ \A c, m : [to |-> c, ok |-> TRUE, n |-> m] # [to |-> c, ok |-> FALSE, n |-> n]
      OBVIOUS
    <3> QED BY <2>1, <3>1, <3>2, <3>3, Zenon
  <2>2. CASE q # p
    <3>1. replies'[q] = <<>>
      BY <1>1, <1>3, <2>2, OthersQuiet DEF Quiet, TypeOK, BaseInv, Waiting
    <3>2. \A x : <<x>> # <<>>
      OBVIOUS
    <3> QED BY <3>1, <3>2, Zenon DEF ReplyIs
  <2> QED BY <2>1, <2>2
<1>7. ThreadOK'
  BY <1>2, <1>3, <1>4 DEF Undisturbed, ThreadOK, CallOK, Holding, Grows
<1> QED BY <1>1, <1>2, <1>3, <1>4, <1>5, <1>6, <1>7 DEF Undisturbed, PathOK, Grows

\* A capture is run, another is announced.
LEMMA QuietStepUndisturbed ==
  ASSUME BaseInv, RecordInv, Undisturbed,
         \/ \E p \in Paths : StartRun(p) \/ EndRun(p)
         \/ (\E c \in Captures : Announce(c)) \/ UNCHANGED vars
  PROVE  Undisturbed'
<1>1. TypeOK
  BY DEF BaseInv
<1>2. UNCHANGED <<open, wire, orphans, replies, thread, locked, client, job, plain>>
  BY DEF StartRun, EndRun, Announce, vars, connVars, threadVars, jobVars
<1>3. Grows
  <2>1. CASE \E p \in Paths : StartRun(p) \/ EndRun(p)
    BY <1>1, <2>1, RunGrows
  <2>2. CASE (\E c \in Captures : Announce(c)) \/ UNCHANGED vars
    BY <2>2, SameGrows DEF Announce, vars
  <2> QED BY <2>1, <2>2
<1>4. ThreadOK'
  BY <1>2, <1>3 DEF Undisturbed, ThreadOK, CallOK, Holding, Grows
<1> QED BY <1>2, <1>3, <1>4 DEF Undisturbed, PathOK, Grows, ReplyIs, Now

\* A running instance that does not answer is a fault.
LEMMA NoFaultInTime ==
  ASSUME TypeOK, [Next]_vars, faults' = faults
  PROVE  [InTime]_vars
BY NoAnswerFacts DEF InTime, LateHandshake

LEMMA FaultsGrow ==
  ASSUME CallInv, [Next]_vars, faults' = 0
  PROVE  faults = 0 /\ ~Fault
<1>1. faults \in Nat
  BY DEF CallInv, TypeOK
<1>2. CASE Fault
  BY <1>1, <1>2 DEF Fault
<1>3. CASE ~Fault
  <2>1. CASE NoAnswer \/ Deadline
    BY <1>3, <2>1 DEF NoAnswer, Deadline, NoFault
  <2>2. CASE \E p \in Paths : InstanceStep(p)
    <3>1. ASSUME NEW p \in Paths, Respond(p) PROVE faults' = faults
      BY <1>3, <3>1, RespondTypes
    <3>2. ASSUME NEW p \in Paths, ReadOrphan(p) PROVE faults' = faults
      BY <3>2, ReadOrphanFacts
    <3>3. ASSUME NEW p \in Paths, StartRun(p) \/ EndRun(p) \/ Boot(p) PROVE faults' = faults
      BY <3>3 DEF StartRun, EndRun, Boot
    <3> QED BY <1>3, <2>2, <3>1, <3>2, <3>3 DEF InstanceStep
  <2>3. CASE Crash \/ \E p \in Paths : Die(p)
    BY <1>3, <2>3 DEF Crash, Die
  <2>4. CASE Pop \/ Send \/ WarmUpEnds \/ Receive
    BY <1>3, <2>4 DEF Pop, Send, WarmUpEnds, Receive
  <2>5. CASE Connect \/ Stat \/ Acquire \/ Refresh \/ NextCapture
    BY <1>3, <2>5 DEF Connect, Stat, Acquire, Refresh, NextCapture
  <2>6. CASE \E p \in Paths : AskSize(p) \/ Submit(p) \/ Visit(p)
    BY <1>3, <2>6 DEF AskSize, Submit, Call, Visit
  <2>7. CASE (\E c \in Captures : Announce(c)) \/ UNCHANGED vars
    BY <1>3, <2>7 DEF Announce, vars
  <2> QED BY <1>3, <2>1, <2>2, <2>3, <2>4, <2>5, <2>6, <2>7 DEF Next, ThreadStep
<1> QED BY <1>2, <1>3

LEMMA NoFaultStep ==
  ASSUME BaseInv, BaseInv', RecordInv, Undisturbed, [Next]_vars, ~Fault, faults' = faults
  PROVE  Undisturbed'
<1>2. TypeOK /\ faults \in Nat /\ CallInv
  BY DEF BaseInv, TypeOK, CallInv
<1>5. CASE ThreadStep
  <2>1. ~NoAnswer
    <3>1. SUFFICES ASSUME NoAnswer PROVE FALSE
      OBVIOUS
    <3>2. thread.at = "recv" /\ ~open[thread.path] /\ thread.path \in Paths
      BY <1>2, <3>1, NoAnswerFacts DEF BaseInv, Shape, Calling
    <3> QED BY <3>2 DEF Undisturbed, ThreadOK, CallOK, OnLine
  <2>2. ~WarmUpEnds
    BY DEF WarmUpEnds, Expired, Undisturbed, ThreadOK
  <2> QED BY <1>5, <2>1, <2>2, IdleThreadUndisturbed, StatUndisturbed, AcquireUndisturbed,
             SendUndisturbed, ConnectUndisturbed, ReceiveUndisturbed DEF ThreadStep
<1>6. CASE \E p \in Paths : Respond(p)
  BY <1>6, RespondUndisturbed
<1>7. CASE \/ \E p \in Paths : StartRun(p) \/ EndRun(p)
           \/ (\E c \in Captures : Announce(c)) \/ UNCHANGED vars
  BY <1>7, QuietStepUndisturbed
<1>8. ASSUME NEW p \in Paths
      PROVE  ~ReadOrphan(p) /\ ~Boot(p) /\ ~Die(p)
  <2>1. PathOK(p)
    BY DEF Undisturbed
  <2>2. ~ReadOrphan(p)
    <3>1. \A c \in Effective : orphans[p][c] = 0
      BY <2>1 DEF PathOK
    <3>2. ReadOrphan(p) => \E c \in Effective : orphans[p][c] > 0
      BY <1>2, ReadOrphanFacts
    <3> QED BY <3>1, <3>2
  <2> QED BY <2>1, <2>2 DEF PathOK, Boot, Die
<1>9. ~Deadline
  <2>1. SUFFICES ASSUME Deadline PROVE FALSE
    OBVIOUS
  <2>2. thread.at \in {"send", "recv"} /\ thread.path \in Paths /\ ~open[thread.path]
    BY <1>2, <2>1 DEF Deadline, BaseInv, Shape, Calling
  <2> QED BY <2>2 DEF Undisturbed, ThreadOK, CallOK, OnLine
<1>10. ~Crash
  BY DEF Crash
<1> QED BY <1>5, <1>6, <1>7, <1>8, <1>9, <1>10 DEF Next, InstanceStep

LEMMA NoFaultInit ==
  ASSUME Init
  PROVE  Undisturbed
<1>1. thread.at = "idle" /\ thread.outer = "none" /\ ~thread.late /\ ~locked
  BY DEF Init, At
<1>2. \A p \in Paths : inst[p].up /\ ~client[p] /\ \A c \in Effective : orphans[p][c] = 0
  BY StartedIs DEF Init
<1>3. \A p \in Paths, n \in Nat : ~ReplyIs(p, FALSE, n)
  <2>1. \A x : <<x>> # <<>>
    OBVIOUS
  <2>2. \A p \in Paths : replies[p] = <<>>
    BY DEF Init
  <2> QED BY <2>1, <2>2, Zenon DEF ReplyIs
<1>4. ThreadOK /\ plain = {}
  BY <1>1 DEF ThreadOK, CallOK, Holding, OnLine, Init
<1> QED BY <1>2, <1>3, <1>4 DEF Undisturbed, PathOK

Calm == faults = 0 => BaseInv /\ RecordInv /\ Undisturbed

LEMMA CalmStep ==
  ASSUME CallInv, Calm, [Next]_vars
  PROVE  Calm'
<1> SUFFICES ASSUME faults' = 0
             PROVE  BaseInv' /\ RecordInv' /\ Undisturbed'
  BY DEF Calm
<1>1. faults = 0 /\ ~Fault
  BY FaultsGrow
<1>2. BaseInv /\ RecordInv /\ Undisturbed
  BY <1>1 DEF Calm
<1>3. [InTime]_vars
  BY <1>1, NoFaultInTime DEF CallInv
<1>4. BaseInv'
  BY <1>2, <1>3, BaseStep
<1>5. RecordInv'
  BY <1>2, <1>3, <1>4, RecordStep
<1> QED BY <1>1, <1>2, <1>4, <1>5, NoFaultStep

(* As long as nothing times out, fails or is restarted, no capture is run  *)
(* without rule metadata: it is only submitted through a client, and a     *)
(* client is made once its instance is on record.                          *)
THEOREM MetadataHolds == Spec => []RunWithMetadata
<1>1. Init => Calm
  BY BaseInit, RecordInit, NoFaultInit DEF Calm
<1>2. CallInv /\ Calm /\ [Next]_vars => Calm'
  BY CalmStep
<1>3. Calm => RunWithMetadata
  BY DEF Calm, Undisturbed, RunWithMetadata
<1> QED BY <1>1, <1>2, <1>3, CallInvariance, PTL DEF Spec

-----------------------------------------------------------------------------
(* Why a call ends.                                                        *)
(*                                                                         *)
(* A call (of queue_size, process_pcap or the constructor) sends, waits,   *)
(* connects again and warms up, each within limits that lie in one another *)
(* (Tries, Connects, the warm-up's deadline).  Left(t) counts the steps    *)
(* that may be left before t tries once more; the loop of the warm-up      *)
(* counts as one until its deadline has passed.                            *)

InCall(t) == t.at \in Calling
InLoop(t) == t.at \in {"send", "recv"} /\ t.kind \in {"current", "number"}

Left(t) ==
  IF t.at = "connect" THEN 15 + 2 * (Connects - t.connects)
  ELSE IF t.at = "recv" /\ t.kind = "hello" THEN 14 + 2 * (Connects - t.connects)
  ELSE IF t.at = "stat" THEN 14
  ELSE IF t.at = "lock" THEN 13
  ELSE IF t.kind = "warm" THEN IF t.at = "send" THEN 12 ELSE 11
  ELSE IF InLoop(t) /\ ~t.late THEN 10
  ELSE IF t.kind = "current" THEN IF t.at = "send" THEN 6 ELSE 9
  ELSE IF t.kind = "number" THEN IF t.at = "send" THEN 8 ELSE 7
  ELSE IF t.kind = "reload" THEN IF t.at = "send" THEN 4 ELSE 3
  ELSE IF t.at = "send" THEN 2 ELSE 1

\* _send_command's retries and _connect's max_retries are kept to.
Bounded == thread.tries < Tries /\ thread.connects < Connects

Nearer ==
  \/ thread'.tries > thread.tries
  \/ thread'.tries = thread.tries /\ Left(thread') < Left(thread)

\* The step ends the call or brings its end nearer.
Advances == Bounded' /\ (~InCall(thread') \/ Nearer)

\* The warm-up asks again.
Loops ==
  /\ InLoop(thread) /\ ~thread.late /\ InLoop(thread')
  /\ thread'.tries = thread.tries /\ Bounded'

\* Within a call the thread's own steps bring its end nearer or are the
\* warm-up's loop; of the other steps only the deadline's passing shows in it.
StepsOn ==
  \/ ~InCall(thread) \/ ~InCall(thread')
  \/ IF ThreadStep THEN Nearer \/ Loops
     ELSE thread' = thread \/ (InLoop(thread) /\ ~thread.late /\ thread' = [thread EXCEPT !.late = TRUE])

LEMMA AtBounded ==
  ASSUME NEW phase \in Phases, thread' = At(phase)
  PROVE  Bounded' /\ thread'.at = phase
BY SuricataSubmitAssumption DEF At, Bounded

LEMMA GiveUpLeaves ==
  ASSUME TypeOK, GiveUp
  PROVE  Bounded' /\ ~InCall(thread')
<1>1. thread' = At("choose") \/ thread' = At("done") \/ thread' = At("refresh")
  BY ThreadFields DEF GiveUp, Sized, Submitted, Constructed, TypeOK
<1> QED BY <1>1, AtBounded DEF Phases, InCall, Calling

\* A call that ends, or sends its own command at last.
LEMMA EndedAdvances ==
  ASSUME TypeOK, Bounded, Ended, Left(thread) > 2
  PROVE  Advances
<1>1. CASE thread' = At("choose") \/ thread' = At("done") \/ thread' = At("refresh")
  BY <1>1, AtBounded DEF Phases, InCall, Calling, Advances
<1>2. CASE thread.outer \in Outer /\ thread' = Resent
  <2>1. /\ thread'.at = "send" /\ thread'.kind = thread.outer /\ thread'.tries = thread.tries
        /\ thread'.connects = 0
    BY <1>2 DEF Resent, At
  <2>2. Left(thread') = 2
    BY <1>2, <2>1 DEF Left, InLoop, Outer
  <2> QED BY <2>1, <2>2, SuricataSubmitAssumption DEF Advances, Bounded, Nearer
<1>3. thread.outer \in {"none", "size", "pcap"}
  BY ThreadFields DEF TypeOK
<1> QED BY <1>1, <1>2, <1>3 DEF Ended, Sized, Submitted, Constructed, Goto, Outer

LEMMA NotConnectedAdvances ==
  ASSUME TypeOK, Bounded, NotConnected,
         thread.at = "connect" \/ (thread.at = "recv" /\ thread.kind = "hello")
  PROVE  Advances
<1>1. CASE GiveUp
  BY <1>1, GiveUpLeaves DEF Advances
<1>2. CASE /\ ~(thread.connects + 1 >= Connects)
           /\ Goto([thread EXCEPT !.at = "connect", !.kind = "hello", !.connects = @ + 1])
  <2> DEFINE t == [thread EXCEPT !.at = "connect", !.kind = "hello", !.connects = @ + 1]
  <2>1. /\ t.at = "connect" /\ t.tries = thread.tries /\ t.connects = thread.connects + 1
    BY ThreadFields DEF TypeOK, Thread
  <2>2. thread' = t
    BY <1>2 DEF Goto
  <2> HIDE DEF t
  <2>3. thread.connects \in Nat /\ Connects \in Nat /\ thread.connects + 1 < Connects
    <3>1. thread.connects \in Nat /\ Connects \in Nat
      BY ThreadFields, SuricataSubmitAssumption DEF TypeOK
    <3>2. ~(thread.connects + 1 >= Connects)
      BY <1>2
    <3> QED BY ONLY <3>1, <3>2
  <2>4. Left(thread') = 15 + 2 * (Connects - (thread.connects + 1))
    BY <2>1, <2>2 DEF Left
  <2>5. Left(thread) >= 14 + 2 * (Connects - thread.connects)
    BY <2>3 DEF Left
  <2>6. Left(thread') < Left(thread)
    <3>1. Left(thread) \in Int
      BY <2>3 DEF Left
    <3> QED BY <2>3, <2>4, <2>5, <3>1
  <2> QED BY <2>1, <2>2, <2>3, <2>6 DEF Advances, Bounded, Nearer
<1> QED BY <1>1, <1>2 DEF NotConnected

\* The next question of the warm-up.
LEMMA AsksFields ==
  ASSUME TypeOK, Bounded, NEW kind \in Inner, NEW idle, NEW quiet, Asks(kind, idle, quiet)
  PROVE  /\ thread'.at = "send" /\ thread'.kind = kind /\ thread'.late = thread.late
         /\ thread'.tries = thread.tries /\ Bounded'
<1> DEFINE t == [thread EXCEPT !.at = "send", !.kind = kind, !.idle = idle, !.quiet = quiet]
<1>1. /\ t.at = "send" /\ t.kind = kind /\ t.late = thread.late /\ t.tries = thread.tries
      /\ t.connects = thread.connects
  BY DEF TypeOK, Thread
<1>2. thread' = t
  BY DEF Asks, Goto
<1> HIDE DEF t
<1> QED BY <1>1, <1>2 DEF Bounded

LEMMA EnsureAdvances ==
  ASSUME TypeOK, Bounded, NEW ok \in BOOLEAN, NEW n \in Nat, EnsureStep(ok, n),
         thread.kind \in Inner, thread.at \in {"send", "recv"},
         ~(thread.at = "send" /\ thread.kind = "current" /\ thread.late)
  PROVE  Advances \/ Loops
<1>1. CASE Ended
  <2>1. Left(thread) > 2
    BY DEF Left, Inner
  <2> QED BY <1>1, <2>1, EndedAdvances
<1>2. thread.late \in BOOLEAN
  BY ThreadFields DEF TypeOK
<1>3. CASE thread.kind = "warm" /\ Asks("current", thread.idle, thread.quiet)
  <2>1. /\ thread'.at = "send" /\ thread'.kind = "current" /\ thread'.tries = thread.tries /\ Bounded'
    BY <1>3, AsksFields DEF Inner
  <2>2. Left(thread') <= 10 /\ Left(thread') \in Int
    BY <2>1 DEF Left
  <2>3. Left(thread) >= 11 /\ Left(thread) \in Int
    BY <1>3 DEF Left
  <2> QED BY <2>1, <2>2, <2>3 DEF Advances, Nearer
<1>4. CASE thread.kind = "current" /\ \E idle, quiet : Asks("number", idle, quiet)
  <2>1. /\ thread'.at = "send" /\ thread'.kind = "number" /\ thread'.tries = thread.tries /\ Bounded'
        /\ thread'.late = thread.late
    BY <1>4, AsksFields DEF Inner
  <2>2. CASE thread.late
    <3>1. Left(thread') = 8 /\ Left(thread) = 9
      BY <1>4, <2>1, <2>2 DEF Left, InLoop
    <3> QED BY <2>1, <3>1 DEF Advances, Nearer
  <2>3. CASE ~thread.late
    BY <1>4, <2>1, <2>3 DEF Loops, InLoop
  <2> QED BY <1>2, <2>2, <2>3
<1>5. CASE thread.kind = "number" /\ \E k \in {"current", "reload"} : \E idle, quiet : Asks(k, idle, quiet)
  <2>1. PICK k \in {"current", "reload"} :
          /\ thread'.at = "send" /\ thread'.kind = k /\ thread'.tries = thread.tries /\ Bounded'
          /\ thread'.late = thread.late
    BY <1>5, AsksFields DEF Inner
  <2>2. CASE k = "reload"
    <3>1. Left(thread') = 4 /\ Left(thread) >= 7 /\ Left(thread) \in Int
      BY <1>5, <2>1, <2>2 DEF Left, InLoop
    <3> QED BY <2>1, <3>1 DEF Advances, Nearer
  <2>3. CASE k = "current" /\ thread.late
    <3>1. Left(thread') = 6 /\ Left(thread) >= 7 /\ Left(thread) \in Int
      BY <1>5, <2>1, <2>3 DEF Left, InLoop
    <3> QED BY <2>1, <3>1 DEF Advances, Nearer
  <2>4. CASE k = "current" /\ ~thread.late
    BY <1>5, <2>1, <2>4 DEF Loops, InLoop
  <2> QED BY <1>2, <2>1, <2>2, <2>3, <2>4
<1> QED BY <1>1, <1>3, <1>4, <1>5, EnsureCases

\* A command that was not answered is given up, or tried once more.
LEMMA FailedAdvances ==
  ASSUME TypeOK, Bounded, NEW sent \in BOOLEAN, Failed(sent), thread.at \in {"send", "recv"},
         thread.kind = "hello" => thread.at = "recv",
         ~(thread.at = "send" /\ thread.kind = "current" /\ thread.late)
  PROVE  Advances \/ Loops
<1>1. CASE thread.kind = "hello" /\ NotConnected
  BY <1>1, NotConnectedAdvances
<1>2. CASE thread.kind \in Inner /\ EnsureStep(FALSE, 0)
  BY <1>2, EnsureAdvances
<1>3. CASE GiveUp
  BY <1>3, GiveUpLeaves DEF Advances
<1>4. CASE thread.kind \in Outer /\ Retried(sent) /\ ~GiveUp
  <2> DEFINE t == [thread EXCEPT !.at = "connect", !.kind = "hello", !.sent = sent,
                                 !.tries = @ + 1, !.connects = 0]
  <2>1. t.tries = thread.tries + 1 /\ t.connects = 0
    BY DEF TypeOK, Thread
  <2>2. thread' = t
    BY <1>4 DEF Retried, Goto
  <2> HIDE DEF t
  <2>3. thread.tries \in Nat /\ Tries \in Nat /\ Connects \in Nat \ {0}
    BY ThreadFields, SuricataSubmitAssumption DEF TypeOK
  <2>4. thread.tries + 1 < Tries
    <3>1. thread.kind # "hello" /\ thread.kind \notin Inner
      BY <1>4 DEF Outer, Inner
    <3>2. ~NoResponse
      BY <1>4, <3>1, Zenon DEF NoResponse
    <3>3. ~(thread.tries + 1 >= Tries)
      BY <3>1, <3>2, Zenon DEF Failed, Retries
    <3> QED BY <2>3, <3>3
  <2> QED BY <2>1, <2>2, <2>3, <2>4 DEF Advances, Bounded, Nearer
<1> QED BY <1>1, <1>2, <1>3, <1>4, FailedCases

\* What an answer makes the thread do.
LEMMA ReceiveTakes ==
  ASSUME CallInv, Receive
  PROVE  \E ok \in BOOLEAN, n \in Nat :
           \/ thread.kind \in Inner /\ EnsureStep(ok, n)
           \/ thread.kind = "hello" /\ Goto([thread EXCEPT !.at = "stat"])
           \/ thread.kind = "hello" /\ NotConnected
           \/ (\E m : Sized(m)) \/ Submitted(ok)
<1> DEFINE r == Head(replies[thread.path])
<1>1. TypeOK /\ r \in Reply /\ Answered(r)
  BY ReceiveFacts DEF CallInv
<1> HIDE DEF r
<1> QED BY <1>1, AnsweredCases

\* Every step of the thread within a call.
LEMMA ThreadAdvances ==
  ASSUME CallInv, Bounded, ThreadStep, InCall(thread)
  PROVE  Advances \/ Loops
<1>1. TypeOK /\ Shape /\ thread \in Thread
  BY DEF CallInv, TypeOK
<1>2. CASE Send
  <2>1. CASE open[thread.path]
    <3> DEFINE t == [thread EXCEPT !.at = "recv"]
    <3>1. /\ t.at = "recv" /\ t.kind = thread.kind /\ t.late = thread.late
          /\ t.tries = thread.tries /\ t.connects = thread.connects
      BY <1>1 DEF Thread
    <3>2. thread' = t /\ thread.at = "send" /\ ~Expired
      BY <1>2, <2>1 DEF Send
    <3> HIDE DEF t
    <3>3. thread.kind \in Kinds \ {"hello"} /\ thread.late \in BOOLEAN
      BY <1>1, <3>2, ThreadFields DEF Shape
    <3>4. CASE InLoop(thread) /\ ~thread.late
      BY <3>1, <3>2, <3>4 DEF Loops, InLoop, Bounded
    <3>5. CASE ~(InLoop(thread) /\ ~thread.late)
      <4>1. Left(thread') < Left(thread)
        BY <3>1, <3>2, <3>3, <3>5 DEF Left, InLoop, Expired, Kinds
      <4> QED BY <3>1, <3>2, <4>1 DEF Advances, Nearer, Bounded
    <3> QED BY <3>4, <3>5
  <2>2. CASE ~open[thread.path]
    <3>1. Failed(FALSE) /\ thread.at = "send" /\ ~Expired
      BY <1>2, <2>2 DEF Send
    <3>2. thread.kind # "hello"
      BY <1>1, <3>1 DEF Shape
    <3> QED BY <1>1, <3>1, <3>2, FailedAdvances DEF Expired
  <2> QED BY <2>1, <2>2
<1>3. CASE WarmUpEnds
  <2>1. Left(thread) > 2
    BY <1>3 DEF WarmUpEnds, Expired, Left, InLoop
  <2> QED BY <1>1, <1>3, <2>1, ConnectedEnds, EndedAdvances DEF WarmUpEnds, Ensured
<1>4. CASE NoAnswer
  <2>1. Failed(TRUE) /\ thread.at = "recv"
    BY <1>1, <1>4, NoAnswerFacts
  <2> QED BY <1>1, <2>1, FailedAdvances
<1>5. CASE Receive
  <2>1. PICK ok \in BOOLEAN, n \in Nat :
          \/ thread.kind \in Inner /\ EnsureStep(ok, n)
          \/ thread.kind = "hello" /\ Goto([thread EXCEPT !.at = "stat"])
          \/ thread.kind = "hello" /\ NotConnected
          \/ (\E m : Sized(m)) \/ Submitted(ok)
    BY <1>5, ReceiveTakes
  <2>2. thread.at = "recv"
    BY <1>5 DEF Receive
  <2>3. CASE thread.kind \in Inner /\ EnsureStep(ok, n)
    BY <1>1, <2>2, <2>3, EnsureAdvances
  <2>4. CASE thread.kind = "hello" /\ Goto([thread EXCEPT !.at = "stat"])
    <3> DEFINE t == [thread EXCEPT !.at = "stat"]
    <3>1. /\ t.at = "stat" /\ t.tries = thread.tries /\ t.connects = thread.connects
      BY <1>1 DEF Thread
    <3>2. thread' = t
      BY <2>4 DEF Goto
    <3> HIDE DEF t
    <3>3. Left(thread') = 14
      BY <3>1, <3>2 DEF Left
    <3>4. Left(thread) > 14
      BY <1>1, <2>2, <2>4, ThreadFields, SuricataSubmitAssumption DEF Left, Bounded
    <3> QED BY <3>1, <3>2, <3>3, <3>4 DEF Advances, Nearer, Bounded
  <2>5. CASE thread.kind = "hello" /\ NotConnected
    BY <1>1, <2>2, <2>5, NotConnectedAdvances
  <2>6. CASE (\E m : Sized(m)) \/ Submitted(ok)
    <3>1. thread' = At("choose") \/ thread' = At("done")
      BY <2>6 DEF Sized, Submitted
    <3> QED BY <3>1, AtBounded DEF Advances, Phases, InCall, Calling
  <2> QED BY <2>1, <2>3, <2>4, <2>5, <2>6
<1>6. CASE Connect
  <2>1. thread.at = "connect" /\ thread.kind = "hello"
    BY <1>1, <1>6 DEF Connect, Shape
  <2>2. CASE Goto([thread EXCEPT !.at = "recv"])
    <3> DEFINE t == [thread EXCEPT !.at = "recv"]
    <3>1. /\ t.at = "recv" /\ t.kind = "hello" /\ t.tries = thread.tries
          /\ t.connects = thread.connects
      BY <1>1, <2>1 DEF Thread
    <3>2. thread' = t
      BY <2>2 DEF Goto
    <3> HIDE DEF t
    <3>3. /\ Left(thread') = 14 + 2 * (Connects - thread.connects)
          /\ Left(thread) = 15 + 2 * (Connects - thread.connects)
      BY <2>1, <3>1, <3>2 DEF Left
    <3>4. Left(thread') < Left(thread)
      BY <1>1, <3>3, ThreadFields, SuricataSubmitAssumption
    <3> QED BY <3>1, <3>2, <3>4 DEF Advances, Nearer, Bounded
  <2>3. CASE NotConnected
    BY <1>1, <2>1, <2>3, NotConnectedAdvances
  <2> QED BY <1>6, <2>2, <2>3 DEF Connect
<1>7. CASE Stat
  <2>1. Left(thread) = 14
    BY <1>7 DEF Stat, Left
  <2>2. CASE Goto([thread EXCEPT !.at = "lock", !.id = inst[thread.path].boot])
    <3> DEFINE t == [thread EXCEPT !.at = "lock", !.id = inst[thread.path].boot]
    <3>1. t.at = "lock" /\ t.tries = thread.tries /\ t.connects = thread.connects
      BY <1>1 DEF Thread
    <3>2. thread' = t
      BY <2>2 DEF Goto
    <3> HIDE DEF t
    <3>3. Left(thread') = 13
      BY <3>1, <3>2 DEF Left
    <3> QED BY <2>1, <3>1, <3>2, <3>3 DEF Advances, Nearer, Bounded
  <2>3. CASE Connected
    BY <1>1, <2>1, <2>3, ConnectedEnds, EndedAdvances
  <2> QED BY <1>7, <2>2, <2>3 DEF Stat
<1>8. CASE Acquire
  <2>1. Left(thread) = 13
    BY <1>8 DEF Acquire, Left
  <2>2. CASE Ask("warm")
    <3> DEFINE t == [thread EXCEPT !.at = "send", !.kind = "warm"]
    <3>1. /\ t.at = "send" /\ t.kind = "warm" /\ t.tries = thread.tries
          /\ t.connects = thread.connects
      BY <1>1 DEF Thread
    <3>2. thread' = t
      BY <2>2 DEF Ask, Goto
    <3> HIDE DEF t
    <3>3. Left(thread') = 12
      BY <3>1, <3>2 DEF Left
    <3> QED BY <2>1, <3>1, <3>2, <3>3 DEF Advances, Nearer, Bounded
  <2>3. CASE Connected
    BY <1>1, <2>1, <2>3, ConnectedEnds, EndedAdvances
  <2> QED BY <1>8, <2>2, <2>3 DEF Acquire
<1>9. ~(Pop \/ Refresh \/ NextCapture \/ \E p \in Paths : AskSize(p) \/ Submit(p) \/ Visit(p))
  BY DEF InCall, Calling, Pop, Refresh, NextCapture, AskSize, Submit, Visit
<1> QED BY <1>2, <1>3, <1>4, <1>5, <1>6, <1>7, <1>8, <1>9 DEF ThreadStep

\* Outside a call the thread turns to something else, or begins one.
LEMMA OutsideSteps ==
  ASSUME ThreadStep, ~InCall(thread)
  PROVE  \/ thread' = thread
         \/ \E phase \in {"idle", "choose", "done", "refresh"} : thread' = At(phase)
         \/ \E p \in Paths, kind \in Outer :
              thread' = [At("send") EXCEPT !.path = p, !.kind = kind, !.outer = kind]
         \/ \E p \in Paths : thread' = [At("connect") EXCEPT !.path = p]
<1>1. CASE Pop \/ Refresh \/ NextCapture
  BY <1>1 DEF Pop, Refresh, NextCapture
<1>2. CASE \E p \in Paths : AskSize(p) \/ Submit(p)
  BY <1>2 DEF AskSize, Submit, Call, Outer
<1>3. CASE \E p \in Paths : Visit(p)
  BY <1>3 DEF Visit
<1>4. ~(Send \/ WarmUpEnds \/ Receive \/ NoAnswer \/ Connect \/ Stat \/ Acquire)
  BY DEF InCall, Calling, Send, WarmUpEnds, Receive, NoAnswer, Connect, Stat, Acquire
<1> QED BY <1>1, <1>2, <1>3, <1>4 DEF ThreadStep

LEMMA OutsideBounded ==
  ASSUME Bounded, ThreadStep, ~InCall(thread)
  PROVE  Bounded'
<1>1. CASE thread' = thread
  BY <1>1 DEF Bounded
<1>2. CASE \E phase \in {"idle", "choose", "done", "refresh"} : thread' = At(phase)
  BY <1>2, SuricataSubmitAssumption DEF At, Bounded
<1>3. CASE \E p \in Paths, kind \in Outer :
             thread' = [At("send") EXCEPT !.path = p, !.kind = kind, !.outer = kind]
  BY <1>3, SuricataSubmitAssumption DEF At, Bounded
<1>4. CASE \E p \in Paths : thread' = [At("connect") EXCEPT !.path = p]
  BY <1>4, SuricataSubmitAssumption DEF At, Bounded
<1> QED BY <1>1, <1>2, <1>3, <1>4, OutsideSteps

\* Nobody else moves the thread on, but time and a crash.
LEMMA OthersLeave ==
  ASSUME CallInv, Bounded, [Next]_vars, ~ThreadStep
  PROVE  /\ Bounded'
         /\ \/ ~InCall(thread') \/ thread' = thread
            \/ InLoop(thread) /\ ~thread.late /\ thread' = [thread EXCEPT !.late = TRUE]
<1>1. CASE Deadline
  <2>1. /\ locked /\ thread.kind \in {"current", "number"} /\ ~thread.late
        /\ thread' = [thread EXCEPT !.late = TRUE]
    BY <1>1 DEF Deadline
  <2>2. thread \in Thread /\ thread.at \in {"send", "recv"}
    BY <2>1 DEF CallInv, TypeOK, Shape
  <2>3. thread'.tries = thread.tries /\ thread'.connects = thread.connects
    BY <2>1, <2>2 DEF Thread
  <2> QED BY <2>1, <2>2, <2>3 DEF InLoop, Bounded
<1>2. CASE Crash
  BY <1>2, AtBounded DEF Crash, Phases, InCall, Calling
<1>3. CASE \/ \E p \in Paths : InstanceStep(p) \/ Die(p)
           \/ \E c \in Captures : Announce(c)
           \/ UNCHANGED vars
  <2>1. thread' = thread
    BY <1>3 DEF InstanceStep, Respond, ReadOrphan, StartRun, EndRun, Boot, Die, Announce, vars,
                threadVars
  <2> QED BY <2>1 DEF Bounded
<1> QED BY <1>1, <1>2, <1>3 DEF Next

(* No call goes on for ever: every step of the thread within a call ends   *)
(* it, makes one of its limited tries, or brings the next one nearer; only *)
(* the warm-up asks again and again, until its deadline, and nothing but   *)
(* time and a crash of the process touches the thread from outside.  This  *)
(* is what EveryCaptureEnds rests on: _send_command's retries, _connect's  *)
(* max_retries and _warm_up's timeout, one within the other.               *)
THEOREM CallsEnd == Spec => []Bounded /\ [][StepsOn]_vars
<1>1. Init => Bounded
  BY AtBounded, SuricataSubmitAssumption DEF Init, At, Bounded
<1>2. CallInv /\ Bounded /\ [Next]_vars => Bounded' /\ StepsOn
  <2> SUFFICES ASSUME CallInv, Bounded, [Next]_vars PROVE Bounded' /\ StepsOn
    OBVIOUS
  <2>1. CASE ThreadStep /\ InCall(thread)
    BY <2>1, ThreadAdvances DEF Advances, Loops, StepsOn
  <2>2. CASE ThreadStep /\ ~InCall(thread)
    BY <2>2, OutsideBounded DEF StepsOn
  <2>3. CASE ~ThreadStep
    BY <2>3, OthersLeave DEF StepsOn
  <2> QED BY <2>1, <2>2, <2>3
<1> QED BY <1>1, <1>2, CallInvariance, PTL DEF Spec

\* The thread waits for nothing it has not asked for on a connection that is
\* still there.
Heard == thread.at = "recv" => ~open[thread.path] \/ ~Quiet(thread.path)

LEMMA EndedTurns ==
  ASSUME TypeOK, Ended
  PROVE  thread'.at # "recv"
<1>1. CASE thread' = At("choose") \/ thread' = At("done") \/ thread' = At("refresh")
  BY <1>1 DEF At
<1>2. CASE thread' = Resent
  BY <1>2 DEF Resent, At
<1> QED BY <1>1, <1>2 DEF Ended, Sized, Submitted, Constructed, Goto

LEMMA NotConnectedTurns ==
  ASSUME TypeOK, NotConnected
  PROVE  thread'.at # "recv"
<1>1. CASE Ended
  BY <1>1, EndedTurns
<1>2. CASE Goto([thread EXCEPT !.at = "connect", !.kind = "hello", !.connects = @ + 1])
  BY <1>2 DEF Goto, TypeOK, Thread
<1> QED BY <1>1, <1>2, NotConnectedCases

LEMMA EnsureTurns ==
  ASSUME TypeOK, NEW ok \in BOOLEAN, NEW n \in Nat, EnsureStep(ok, n), thread.kind \in Inner
  PROVE  thread'.at # "recv"
<1>1. CASE Ended
  BY <1>1, EndedTurns
<1>2. CASE \E kind \in Inner : \E idle, quiet : Asks(kind, idle, quiet)
  <2>1. PICK kind \in Inner : \E idle, quiet : Asks(kind, idle, quiet)
    BY <1>2
  <2>2. PICK idle, quiet : Asks(kind, idle, quiet)
    BY <2>1
  <2> QED BY <2>2 DEF Asks, Goto, TypeOK, Thread
<1> QED BY <1>1, <1>2, EnsureCases DEF Inner

LEMMA FailedTurns ==
  ASSUME TypeOK, NEW sent \in BOOLEAN, Failed(sent)
  PROVE  thread'.at # "recv"
<1>1. CASE NotConnected
  BY <1>1, NotConnectedTurns
<1>2. CASE thread.kind \in Inner /\ EnsureStep(FALSE, 0)
  BY <1>2, EnsureTurns
<1>3. CASE GiveUp
  BY <1>3, GiveUpEnds, EndedTurns
<1>4. CASE Retried(sent)
  BY <1>4 DEF Retried, Goto, TypeOK, Thread
<1> QED BY <1>1, <1>2, <1>3, <1>4, FailedCases

\* Only a command that was just sent is waited for.
LEMMA ThreadHeard ==
  ASSUME CallInv, ThreadStep
  PROVE  Heard'
<1>1. TypeOK /\ Shape /\ thread \in Thread
  BY DEF CallInv, TypeOK
<1>2. ASSUME thread'.at # "recv" PROVE Heard'
  BY <1>2 DEF Heard
<1>3. CASE Send
  <2>1. CASE open[thread.path]
    <3> DEFINE p == thread.path
    <3>1. p \in Paths /\ wire \in [Paths -> Seq(Command)]
      BY <1>1, <1>3 DEF Send, Shape, Calling, TypeOK
    <3>2. thread'.path = p /\ wire' = [wire EXCEPT ![p] = Append(@, Now)]
      BY <1>1, <1>3, <2>1 DEF Send, Thread
    <3>3. wire'[p] # <<>>
      <4> DEFINE s == wire[p]
                 now == Now
      <4>1. s \in Seq(Command) /\ now \in Command /\ wire'[p] = Append(s, now)
        BY <1>3, <3>1, <3>2, NowIs DEF Send
      <4> HIDE DEF s, now
      <4>2. Len(Append(s, now)) = Len(s) + 1 /\ Len(s) \in Nat
        BY <4>1
      <4>3. wire'[p] # <<>>
        BY <4>1, <4>2
      <4> QED BY <4>3
    <3> QED BY <3>2, <3>3 DEF Heard, Quiet
  <2>2. CASE ~open[thread.path]
    BY <1>1, <1>2, <1>3, <2>2, FailedTurns DEF Send
  <2> QED BY <2>1, <2>2
<1>4. CASE Connect
  <2>1. CASE inst[thread.path].up
    <3> DEFINE p == thread.path
    <3>1. p \in Paths /\ wire \in [Paths -> Seq(Command)]
      BY <1>1, <1>4 DEF Connect, Shape, Calling, TypeOK
    <3>2. thread'.path = p /\ wire' = [wire EXCEPT ![p] = <<Now>>]
      BY <1>1, <1>4, <2>1 DEF Connect, Goto, Thread
    <3>3. wire'[p] # <<>>
      BY <3>1, <3>2
    <3> QED BY <3>2, <3>3 DEF Heard, Quiet
  <2>2. CASE ~inst[thread.path].up
    BY <1>1, <1>2, <1>4, <2>2, NotConnectedTurns DEF Connect
  <2> QED BY <2>1, <2>2
<1>5. CASE WarmUpEnds
  BY <1>1, <1>2, <1>5, ConnectedEnds, EndedTurns DEF WarmUpEnds, Ensured
<1>6. CASE NoAnswer
  BY <1>1, <1>2, <1>6, NoAnswerFacts, FailedTurns
<1>7. CASE Receive
  <2>1. PICK ok \in BOOLEAN, n \in Nat :
          \/ thread.kind \in Inner /\ EnsureStep(ok, n)
          \/ thread.kind = "hello" /\ Goto([thread EXCEPT !.at = "stat"])
          \/ thread.kind = "hello" /\ NotConnected
          \/ (\E m : Sized(m)) \/ Submitted(ok)
    BY <1>7, ReceiveTakes
  <2>2. CASE thread.kind \in Inner /\ EnsureStep(ok, n)
    BY <1>1, <1>2, <2>2, EnsureTurns
  <2>3. CASE Goto([thread EXCEPT !.at = "stat"])
    <3>1. thread'.at = "stat"
      BY <1>1, <2>3 DEF Goto, Thread
    <3> QED BY <1>2, <3>1
  <2>4. CASE NotConnected
    BY <1>1, <1>2, <2>4, NotConnectedTurns
  <2>5. CASE (\E m : Sized(m)) \/ Submitted(ok)
    <3>1. thread' = At("choose") \/ thread' = At("done")
      BY <2>5 DEF Sized, Submitted
    <3> QED BY <1>2, <3>1 DEF At
  <2> QED BY <2>1, <2>2, <2>3, <2>4, <2>5
<1>8. CASE Stat
  <2>1. CASE Goto([thread EXCEPT !.at = "lock", !.id = inst[thread.path].boot])
    <3>1. thread'.at = "lock"
      BY <1>1, <2>1 DEF Goto, Thread
    <3> QED BY <1>2, <3>1
  <2> QED BY <1>1, <1>2, <1>8, <2>1, ConnectedEnds, EndedTurns DEF Stat
<1>9. CASE Acquire
  <2>1. CASE Ask("warm")
    <3>1. thread'.at = "send"
      BY <1>1, <2>1 DEF Ask, Goto, Thread
    <3> QED BY <1>2, <3>1
  <2> QED BY <1>1, <1>2, <1>9, <2>1, ConnectedEnds, EndedTurns DEF Acquire
<1>10. CASE ~InCall(thread)
  <2>1. CASE thread' = thread
    BY <1>2, <1>10, <2>1 DEF InCall, Calling
  <2>2. CASE \E phase \in {"idle", "choose", "done", "refresh"} : thread' = At(phase)
    BY <1>2, <2>2 DEF At
  <2>3. CASE \E p \in Paths, kind \in Outer : thread' = [At("send") EXCEPT !.path = p, !.kind = kind, !.outer = kind]
    BY <1>2, <2>3 DEF At
  <2>4. CASE \E p \in Paths : thread' = [At("connect") EXCEPT !.path = p]
    BY <1>2, <2>4 DEF At
  <2> QED BY <1>10, <2>1, <2>2, <2>3, <2>4, OutsideSteps
<1>11. InCall(thread) =>
         ~(Pop \/ Refresh \/ NextCapture \/ \E p \in Paths : AskSize(p) \/ Submit(p) \/ Visit(p))
  BY DEF InCall, Calling, Pop, Refresh, NextCapture, AskSize, Submit, Visit
<1> QED BY <1>3, <1>4, <1>5, <1>6, <1>7, <1>8, <1>9, <1>10, <1>11 DEF ThreadStep

\* An instance that reads a command answers it or hangs up.
LEMMA OthersHeard ==
  ASSUME CallInv, Heard, [Next]_vars, ~ThreadStep
  PROVE  Heard'
<1>1. TypeOK /\ Shape /\ thread \in Thread
  BY DEF CallInv, TypeOK
<1>2. thread.at = "recv" => thread.path \in Paths
  BY <1>1 DEF Shape, Calling
<1>3. /\ wire \in [Paths -> Seq(Command)] /\ replies \in [Paths -> Seq(Reply)]
      /\ open \in [Paths -> BOOLEAN]
  BY <1>1 DEF TypeOK
<1>4. CASE \E p \in Paths : Respond(p)
  <2>1. PICK p \in Paths : Respond(p)
    BY <1>4
  <2>2. /\ thread' = thread /\ wire' = [wire EXCEPT ![p] = Tail(@)]
        /\ \E x : replies' = [replies EXCEPT ![p] = Append(@, x)]
        /\ open' = open \/ \E y : open' = [open EXCEPT ![p] = y]
    BY <2>1, RespondTypes DEF threadVars
  <2>3. replies'[p] # <<>>
    <3> DEFINE s == replies[p]
    <3>1. PICK x : replies'[p] = Append(s, x)
      BY <1>3, <2>2
    <3>2. s \in Seq(Reply)
      BY <1>3
    <3>3. replies' \in [Paths -> Seq(Reply)]
      BY <2>1, RespondCall DEF CallInv, TypeOK
    <3> HIDE DEF s
    <3>4. DOMAIN Append(s, x) = 1 .. Len(s) + 1 /\ Len(s) \in Nat
      BY <3>2
    <3>5. 1 \in DOMAIN replies'[p]
      BY <3>1, <3>4
    <3>6. ~(1 \in DOMAIN <<>>)
      OBVIOUS
    <3> QED BY <3>5, <3>6, Zenon
  <2>4. \A q \in Paths : q # p => wire'[q] = wire[q] /\ replies'[q] = replies[q] /\ open'[q] = open[q]
    BY <1>3, <2>2
  <2> QED BY <1>2, <2>2, <2>3, <2>4 DEF Heard, Quiet
<1>5. CASE \E p \in Paths : Die(p)
  <2>1. PICK p \in Paths : Die(p)
    BY <1>5
  <2>2. /\ thread' = thread /\ wire' = [wire EXCEPT ![p] = <<>>] /\ replies' = replies
        /\ open' = [open EXCEPT ![p] = FALSE]
    BY <2>1 DEF Die, threadVars
  <2>3. /\ ~open'[p]
        /\ \A q \in Paths : q # p => wire'[q] = wire[q] /\ open'[q] = open[q]
    BY <1>3, <2>2
  <2> QED BY <1>2, <2>2, <2>3 DEF Heard, Quiet
<1>6. CASE Crash
  BY <1>6 DEF Crash, Heard, At
<1>7. CASE Deadline
  <2>1. thread'.at = thread.at /\ thread'.path = thread.path /\ UNCHANGED <<open, wire, replies>>
    BY <1>1, <1>7 DEF Deadline, Thread, connVars
  <2> QED BY <2>1 DEF Heard, Quiet
<1>8. CASE \/ \E p \in Paths : ReadOrphan(p) \/ StartRun(p) \/ EndRun(p) \/ Boot(p)
           \/ \E c \in Captures : Announce(c)
           \/ UNCHANGED vars
  <2>1. UNCHANGED <<thread, open, wire, replies>>
    BY <1>8 DEF ReadOrphan, StartRun, EndRun, Boot, Announce, vars, connVars, threadVars
  <2> QED BY <2>1 DEF Heard, Quiet
<1> QED BY <1>4, <1>5, <1>6, <1>7, <1>8 DEF Next, InstanceStep

\* A connection is to an instance that is there.
Alive == \A p \in Paths : open[p] => inst[p].up

LEMMA AliveStep ==
  ASSUME CallInv, Alive, [Next]_vars
  PROVE  Alive'
<1>1. TypeOK /\ Shape /\ open \in [Paths -> BOOLEAN] /\ inst \in [Paths -> Instance]
  BY DEF CallInv, TypeOK
<1>2. CASE inst' = inst /\ \A p \in Paths : open'[p] => open[p] \/ inst[p].up
  BY <1>2 DEF Alive
<1>3. CASE inst' = inst /\ (Closed(thread.path) \/ UNCHANGED connVars)
  BY <1>1, <1>2, <1>3 DEF Closed, connVars
<1>4. CASE \/ Pop \/ WarmUpEnds \/ Stat \/ Acquire \/ Receive \/ Refresh \/ NextCapture
           \/ \E p \in Paths : AskSize(p) \/ Submit(p) \/ Visit(p)
           \/ \E c \in Captures : Announce(c)
           \/ Deadline \/ UNCHANGED vars
  <2>1. inst' = inst /\ open' = open
    BY <1>4 DEF Pop, WarmUpEnds, Stat, Acquire, Receive, Refresh, NextCapture, AskSize, Submit, Call,
                Visit, Announce, Deadline, vars, connVars
  <2> QED BY <1>2, <2>1
<1>5. CASE Send
  BY <1>1, <1>2, <1>3, <1>5, SendCall, FailedCloses DEF Sends
<1>6. CASE NoAnswer
  BY <1>1, <1>3, <1>6, NoAnswerFacts, FailedCloses
<1>7. CASE Connect
  BY <1>1, <1>2, <1>7, ConnectFacts
<1>8. CASE \E p \in Paths : Respond(p)
  <2>1. PICK p \in Paths : Respond(p)
    BY <1>8
  <2>2. /\ inst[p].up /\ Head(wire[p]) \in Command
        /\ \/ Act(p, Head(wire[p])) /\ open' = open
           \/ inst' = inst /\ \E y : open' = [open EXCEPT ![p] = y]
    BY <2>1, RespondTypes
  <2>3. CASE Act(p, Head(wire[p])) /\ open' = open
    BY <1>1, <2>2, <2>3, ActTypes DEF Alive
  <2>4. CASE inst' = inst /\ \E y : open' = [open EXCEPT ![p] = y]
    BY <1>1, <1>2, <2>2, <2>4
  <2> QED BY <2>2, <2>3, <2>4
<1>9. CASE \E p \in Paths : ReadOrphan(p)
  <2>1. PICK p \in Paths, c \in Effective : Act(p, c) \/ inst' = inst
    BY <1>9, ReadOrphanFacts
  <2>2. open' = open /\ c \in Command
    BY <1>9, ReadOrphanFacts, EffectiveIs
  <2> QED BY <1>1, <2>1, <2>2, ActTypes DEF Alive
<1>10. CASE \E p \in Paths : StartRun(p) \/ EndRun(p)
  <2>1. PICK p \in Paths : StartRun(p) \/ EndRun(p)
    BY <1>10
  <2>2. PICK i \in Instance : inst' = [inst EXCEPT ![p] = i] /\ i.up = inst[p].up
    BY <1>1, <2>1, RunFacts
  <2>3. open' = open
    BY <2>1 DEF StartRun, EndRun, connVars
  <2> QED BY <1>1, <2>2, <2>3 DEF Alive
<1>11. CASE \E p \in Paths : Boot(p)
  BY <1>1, <1>11, InstanceFields, StartedIs DEF Boot, connVars, Alive
<1>12. CASE \E p \in Paths : Die(p)
  BY <1>1, <1>12 DEF Die, Alive
<1>13. CASE Crash
  BY <1>13 DEF Crash, Alive
<1> QED BY <1>4, <1>5, <1>6, <1>7, <1>8, <1>9, <1>10, <1>11, <1>12, <1>13
        DEF Next, ThreadStep, InstanceStep

(* And none stands still: the thread never asks for the lock it holds (the *)
(* lock is not reentrant, and what runs under it connects with retries=1), *)
(* and it waits for an answer only while there is one, or the connection   *)
(* is gone, or a running instance has commands of its to read.             *)
NoStandstill ==
  /\ thread.at = "lock" => ~locked
  /\ thread.at = "recv" =>
       \/ replies[thread.path] # <<>> \/ ~open[thread.path]
       \/ inst[thread.path].up /\ wire[thread.path] # <<>>

(* So it is in every reachable state of the worker and the instances.      *)
THEOREM NeverStands == Spec => []NoStandstill
<1>1. Init => Heard /\ Alive
  BY DEF Init, Heard, At, Alive
<1>2. CallInv /\ Heard /\ Alive /\ [Next]_vars => Heard' /\ Alive'
  BY ThreadHeard, OthersHeard, AliveStep
<1>3. CallInv /\ Heard /\ Alive => NoStandstill
  BY DEF CallInv, Shape, Calling, Heard, Alive, Quiet, NoStandstill
<1> QED BY <1>1, <1>2, <1>3, CallInvariance, PTL DEF Spec
=============================================================================
