------------------------------ MODULE WatchDeck ------------------------------
(***************************************************************************)
(* The directory watch shared by the PCAP watcher and the two upload       *)
(* monitors (shared/bin/watch_common.py): file system events are gathered  *)
(* in two decks until a file is taken to be complete, and a worker then    *)
(* hands it to its processor.                                              *)
(*                                                                         *)
(* The users of the directory write, read, move and delete files; what     *)
(* they do reaches the handler late, through a queue of events.  The       *)
(* handler notes the time and the size of the file before it takes the     *)
(* lock of the main deck; the worker holds the lock for a whole sweep.     *)
(*                                                                         *)
(* Time is the age of an event in seconds, counted up to AssumeClosed; the *)
(* timestamp 0 of a close is left out, as only a close has it.             *)
(***************************************************************************)
EXTENDS Integers, FiniteSets, Sequences, SequencesExt

CONSTANTS
  Files,          \* the paths in the watched directories
  PollingModes,   \* TRUE for a PollingObserver, FALSE for inotify
  AssumeClosed,   \* assumeClosedSec
  TouchExisting,  \* a started process touches what is there (pcap_watcher)
  Manners,        \* sets of habits: what users do besides writing and moving in
  Coalesce,       \* a queue drops an event equal to the last one in it
  MaxSize,        \* bound: sizes of files
  MaxReaders,     \* bound: readers of a file
  MaxOps,         \* bound: what the users do, closing aside
  MaxStops        \* bound: restarts and failures of the file processor

ASSUME WatchDeckAssumption ==
  /\ IsFiniteSet(Files)
  /\ PollingModes \subseteq BOOLEAN /\ TouchExisting \in BOOLEAN /\ Coalesce \in BOOLEAN
  /\ AssumeClosed \in Nat \ {0}
  /\ \A h \in Manners : h \subseteq {"read", "touch", "replace", "rename", "rename open"}
  /\ MaxSize \in Nat /\ MaxReaders \in Nat /\ MaxOps \in Nat /\ MaxStops \in Nat

VARIABLES
  polling,    \* what the observer is, for good
  habits,     \* what the users are like, for good
  exists,     \* the files that are there
  size,       \* their sizes, 0 for a file that is not
  writer,     \* the files somebody holds open for writing
  readers,    \* how many hold each file open for reading
  strays,     \* how many still read a file since replaced at that path
  fresh,      \* the files not handed over with the content they have
  queue,      \* events on their way to the handler
  handling,   \* the event on_any_event has stamped and not yet recorded
  decks,      \* FileOperationEventHandler.deck and .modDeck
  ops,        \* what the users did so far
  stops       \* restarts and failures so far

userVars == <<exists, size, writer, readers, strays>>
vars == <<polling, habits, userVars, fresh, queue, handling, decks, ops, stops>>

-----------------------------------------------------------------------------
(* Events, and what a deck remembers of one (OperationEvent).              *)

Kinds == {"created", "modified", "moved", "opened", "closed", "closed_no_write", "deleted"}
Event == [op : Kinds, file : Files, from : Files]
Operation == [op : Kinds, size : 0 .. MaxSize, age : 0 .. AssumeClosed]
Histories == [Files -> Seq(Operation)]

\* Only a move has a source that is not the file itself.
Ev(op, f) == [op |-> op, file |-> f, from |-> f]

NoEvent == [op |-> "none"]

\* The decks are two dictionaries of histories; a file without a history is
\* not in the dictionary.  The worker goes through the main deck in its
\* order: <<f, g>> is in before if f comes before g.
Empty == [deck |-> [f \in Files |-> <<>>], modDeck |-> [f \in Files |-> <<>>], before |-> {}]

Tracked(d) == {f \in Files : d.deck[f] # <<>>}

\* The deck without the files of S, and both decks without them.
Remaining(d, S) ==
  [d EXCEPT !.deck   = [f \in Files |-> IF f \in S THEN <<>> ELSE d.deck[f]],
            !.before = {p \in d.before : p[1] \notin S /\ p[2] \notin S}]
Pop(d, S) ==
  [Remaining(d, S) EXCEPT !.modDeck = [f \in Files |-> IF f \in S THEN <<>> ELSE d.modDeck[f]]]

-----------------------------------------------------------------------------
(* on_any_event: an event, stamped as o, goes into the decks.              *)

\* A modification that did not change the size is taken for one of the
\* attributes and leaves the entry alone.
AttributesOnly(h, o) == o.op = "modified" /\ o.size > 0 /\ o.size = Last(h).size

Replace(h, o) == [h EXCEPT ![Len(h)] = o]

\* The history of a tracked file: an event like the last one replaces it if
\* it is newer or the size differs; opens are counted one by one.
Extended(h, o) ==
  IF Last(h).op # o.op \/ o.op = "opened" THEN Append(h, o)
  ELSE IF (o.op # "closed" /\ o.age < Last(h).age) \/ o.size # Last(h).size THEN Replace(h, o)
  ELSE h

\* A staged file is promoted by anything but opens and modifications, and by
\* a modification that changes the size the last one had.
Promotes(h, o) ==
  \/ o.op \notin {"opened", "modified"}
  \/ /\ o.op = "modified" /\ o.size > 0
     /\ LET k == SelectLastInSeq(h, LAMBDA p : p.op = "modified")
        IN  k > 0 /\ h[k].size # o.size

Staged(h, o) == IF Last(h).op = o.op /\ o.op # "opened" THEN Replace(h, o) ELSE Append(h, o)

\* move_to_end: a file that was closed goes to the front of the main deck,
\* any other to the back.
Place_AtItsPlace(d, f) ==   \* (mutant)
  LET rest == Tracked(d) \ {f}
  IN  IF \E p \in d.before : f \in {p[1], p[2]} THEN d
      ELSE [d EXCEPT !.before = @ \cup (rest \X {f})]
Place(d, f) ==
  LET rest == Tracked(d) \ {f}
  IN  [d EXCEPT !.before =
         {p \in @ : f \notin {p[1], p[2]}}
         \cup (IF Last(d.deck[f]).op = "closed" THEN {f} \X rest ELSE rest \X {f})]

Promoted_StaysStaged(d, f, o) == [d EXCEPT !.deck[f] = Append(d.modDeck[f], o)]   \* (mutant)
Promoted(d, f, o) ==
  [d EXCEPT !.deck[f] = Append(d.modDeck[f], o), !.modDeck[f] = <<>>]

Recorded(d, f, o) ==
  IF o.op = "deleted" THEN Pop(d, {f})
  ELSE IF f \in Tracked(d) THEN
    IF AttributesOnly(d.deck[f], o) THEN d
    ELSE LET after == [d EXCEPT !.deck[f] = Extended(@, o)]
         IN  IF o.op = "opened" THEN after ELSE Place(after, f)
  ELSE IF d.modDeck[f] # <<>> THEN
    IF Promotes(d.modDeck[f], o) THEN Place(Promoted(d, f, o), f)
    ELSE [d EXCEPT !.modDeck[f] = Staged(@, o)]
  ELSE IF o.op \in {"opened", "modified"} THEN [d EXCEPT !.modDeck[f] = <<o>>]
  ELSE Place([d EXCEPT !.deck[f] = <<o>>], f)

LatestOpen(h, k) ==
  h[k].op = "opened" /\ \A j \in DOMAIN h : j > k => h[j].op # "opened"

\* cancel_read_open: the end of a read takes back one open.
Retracted_Nothing(h) == h   \* (mutant)
Retracted(h) ==
  IF \E k \in DOMAIN h : LatestOpen(h, k)
  THEN RemoveAt(h, CHOOSE k \in DOMAIN h : LatestOpen(h, k))
  ELSE h

ReadEnded(d, f) ==
  IF f \notin Tracked(d) THEN [d EXCEPT !.modDeck[f] = Retracted(@)]
  ELSE IF Retracted(d.deck[f]) = <<>> THEN Remaining(d, {f})
  ELSE [d EXCEPT !.deck[f] = Retracted(@)]

-----------------------------------------------------------------------------
(* ProcessFileEventWorker: which files a sweep hands over.                 *)

Waits(h) == Last(h).op # "closed" /\ Last(h).age < AssumeClosed

\* A file that was never seen open was moved into the directory.
Ready_AnyHistory(h) == TRUE   \* (mutant)
Ready_ClosedOnly(h) == polling \/ Last(h).op = "closed"   \* (mutant)
Ready(h) ==
  \/ polling
  \/ Last(h).op = "closed"
  \/ \A i \in DOMAIN h : h[i].op \in {"created", "moved"}

\* The sweep ends at the first file that has to wait.
Reached(d) ==
  {f \in Tracked(d) :
     \A g \in Tracked(d) : g = f \/ <<g, f>> \in d.before => ~Waits(d.deck[g])}

Due(d) == {f \in Reached(d) : Ready(d.deck[f])}

-----------------------------------------------------------------------------
(* The users of the directory.  Each change is announced by the observer.  *)

Announced == IF polling THEN {"created", "modified", "moved", "deleted"} ELSE Kinds

Enqueue(q, e) ==
  IF e.op \notin Announced \/ (Coalesce /\ q # <<>> /\ Last(q) = e) THEN q ELSE Append(q, e)

Init ==
  /\ polling \in PollingModes /\ habits \in Manners
  /\ exists = {} /\ size = [f \in Files |-> 0]
  /\ writer = {}
  /\ readers = [f \in Files |-> 0] /\ strays = [f \in Files |-> 0]
  /\ fresh = {}
  /\ queue = <<>> /\ handling = NoEvent
  /\ decks = Empty
  /\ ops = 0 /\ stops = 0

Use == ops < MaxOps /\ ops' = ops + 1

Create(f) ==
  /\ Use
  /\ f \notin exists
  /\ exists' = exists \cup {f} /\ writer' = writer \cup {f} /\ fresh' = fresh \cup {f}
  /\ queue' = Enqueue(Enqueue(queue, Ev("created", f)), Ev("opened", f))
  /\ UNCHANGED <<polling, habits, size, readers, strays, handling, decks, stops>>

OpenWrite(f) ==
  /\ Use
  /\ f \in exists \ writer
  /\ writer' = writer \cup {f}
  /\ queue' = Enqueue(queue, Ev("opened", f))
  /\ UNCHANGED <<polling, habits, exists, size, readers, strays, fresh, handling, decks, stops>>

Write(f) ==
  /\ Use
  /\ f \in writer
  /\ \E n \in 1 .. MaxSize : size' = [size EXCEPT ![f] = n]
  /\ fresh' = fresh \cup {f}
  /\ queue' = Enqueue(queue, Ev("modified", f))
  /\ UNCHANGED <<polling, habits, exists, writer, readers, strays, handling, decks, stops>>

CloseWrite(f) ==
  /\ f \in writer
  /\ writer' = writer \ {f}
  /\ queue' = Enqueue(queue, Ev("closed", f))
  /\ UNCHANGED <<polling, habits, exists, size, readers, strays, fresh, handling, decks, ops, stops>>

OpenRead(f) ==
  /\ Use
  /\ "read" \in habits
  /\ f \in exists /\ readers[f] + strays[f] < MaxReaders
  /\ readers' = [readers EXCEPT ![f] = @ + 1]
  /\ queue' = Enqueue(queue, Ev("opened", f))
  /\ UNCHANGED <<polling, habits, exists, size, writer, strays, fresh, handling, decks, stops>>

CloseRead(f) ==
  /\ \/ /\ readers[f] > 0
        /\ readers' = [readers EXCEPT ![f] = @ - 1]
        /\ UNCHANGED strays
     \/ /\ strays[f] > 0
        /\ strays' = [strays EXCEPT ![f] = @ - 1]
        /\ UNCHANGED readers
  /\ queue' = Enqueue(queue, Ev("closed_no_write", f))
  /\ UNCHANGED <<polling, habits, exists, size, writer, fresh, handling, decks, ops, stops>>

\* A file may be put where none is; over one only by habit, and then those
\* who read it go on reading what was there.
Free(f) == f \notin exists \/ ("replace" \in habits /\ f \notin writer)

\* From another directory of the same file system: the file is complete.
MoveIn(f) ==
  /\ Use
  /\ Free(f)
  /\ exists' = exists \cup {f} /\ fresh' = fresh \cup {f}
  /\ \E n \in 1 .. MaxSize : size' = [size EXCEPT ![f] = n]
  /\ readers' = [readers EXCEPT ![f] = 0]
  /\ strays' = [strays EXCEPT ![f] = @ + readers[f]]
  /\ queue' = Enqueue(queue, Ev("created", f))
  /\ UNCHANGED <<polling, habits, writer, handling, decks, stops>>

\* Within the watched directories: who has the file open keeps it open.
Rename(f, g) ==
  /\ Use
  /\ "rename" \in habits
  /\ f \in exists /\ f # g /\ Free(g)
  /\ f \in writer => "rename open" \in habits
  /\ exists' = (exists \ {f}) \cup {g}
  /\ size' = [size EXCEPT ![f] = 0, ![g] = size[f]]
  /\ writer' = IF f \in writer THEN (writer \ {f}) \cup {g} ELSE writer
  /\ readers' = [readers EXCEPT ![f] = 0, ![g] = readers[f]]
  /\ strays' = [strays EXCEPT ![g] = @ + readers[g]]
  /\ fresh' = (fresh \ {f, g}) \cup (IF f \in fresh THEN {g} ELSE {})
  /\ queue' = Enqueue(queue, [op |-> "moved", file |-> g, from |-> f])
  /\ UNCHANGED <<polling, habits, handling, decks, stops>>

\* The attributes of the file change, its content does not.
Touch(f) ==
  /\ Use
  /\ "touch" \in habits
  /\ f \in exists
  /\ queue' = Enqueue(queue, Ev("modified", f))
  /\ UNCHANGED <<polling, habits, userVars, fresh, handling, decks, stops>>

Delete(f) ==
  /\ Use
  /\ "replace" \in habits
  /\ f \in exists \ writer
  /\ exists' = exists \ {f} /\ fresh' = fresh \ {f}
  /\ size' = [size EXCEPT ![f] = 0]
  /\ readers' = [readers EXCEPT ![f] = 0]
  /\ strays' = [strays EXCEPT ![f] = @ + readers[f]]
  /\ queue' = Enqueue(queue, Ev("deleted", f))
  /\ UNCHANGED <<polling, habits, writer, handling, decks, stops>>

-----------------------------------------------------------------------------
(* The watcher.                                                            *)

\* The observer's thread calls on_any_event: the time and the size are taken
\* before the lock.  A file that is gone has the size 0.
SizeOf_Uncaught(f) == IF f \in exists THEN size[f] ELSE -1   \* (mutant)
SizeOf(f) == IF f \in exists THEN size[f] ELSE 0

Stamp ==
  /\ handling = NoEvent /\ queue # <<>>
  /\ LET e == Head(queue) IN
     handling' = [event |-> e, as |-> [op |-> e.op, size |-> SizeOf(e.file), age |-> 0]]
  /\ queue' = Tail(queue)
  /\ UNCHANGED <<polling, habits, userVars, fresh, decks, ops, stops>>

\* A move retires its source, whatever it is tracked for.
Source_Kept(e) == {}   \* (mutant)
Source(e) == IF e.op = "moved" THEN {e.from} ELSE {}

Record ==
  /\ handling # NoEvent
  /\ LET e == handling.event IN
     decks' = IF e.op = "closed_no_write" THEN ReadEnded(decks, e.file)
              ELSE Recorded(Pop(decks, Source(e)), e.file, handling.as)
  /\ handling' = NoEvent
  /\ UNCHANGED <<polling, habits, userVars, fresh, queue, ops, stops>>

\* The worker hands a file over after it has removed it from the deck.
Sweep ==
  /\ Due(decks) # {}
  /\ decks' = Remaining(decks, Due(decks))
  /\ fresh' = fresh \ Due(decks)
  /\ UNCHANGED <<polling, habits, userVars, queue, handling, ops, stops>>

\* What a new process makes of the files that are there, in some order.
Touches == <<"opened", "closed", "modified">>
Touched(s) ==
  IF polling THEN [i \in DOMAIN s |-> Ev("modified", s[i])]
  ELSE [i \in 1 .. 3 * Len(s) |-> Ev(Touches[((i - 1) % 3) + 1], s[((i - 1) \div 3) + 1])]

StartOver ==
  /\ decks' = Empty /\ handling' = NoEvent
  /\ IF TouchExisting
     THEN \E s \in SetToSeqs(exists) : queue' = Touched(s)
     ELSE queue' = <<>>

Restart ==
  /\ stops < MaxStops /\ stops' = stops + 1
  /\ StartOver
  /\ UNCHANGED <<polling, habits, userVars, fresh, ops>>

\* The processor raises an exception over f.  The lock swallows it and the
\* sweep is over, unless the deck is now empty: then the process dies of it.
ProcessorFails(f) ==
  /\ stops < MaxStops /\ stops' = stops + 1
  /\ f \in Due(decks)
  /\ LET handed == {g \in Due(decks) : g = f \/ <<g, f>> \in decks.before} IN
     /\ fresh' = fresh \ handed
     /\ IF Tracked(decks) \subseteq handed
        THEN StartOver
        ELSE decks' = Remaining(decks, handed) /\ UNCHANGED <<queue, handling>>
  /\ UNCHANGED <<polling, habits, userVars, ops>>

Older(o) == [o EXCEPT !.age = IF @ < AssumeClosed THEN @ + 1 ELSE @]
OlderAll(hs) == [f \in Files |-> [i \in DOMAIN hs[f] |-> Older(hs[f][i])]]

Tick ==
  /\ decks' = [decks EXCEPT !.deck = OlderAll(@), !.modDeck = OlderAll(@)]
  /\ handling' = IF handling = NoEvent THEN NoEvent ELSE [handling EXCEPT !.as = Older(@)]
  /\ <<decks, handling>>' # <<decks, handling>>
  /\ UNCHANGED <<polling, habits, userVars, fresh, queue, ops, stops>>

-----------------------------------------------------------------------------
Users(f) ==
  \/ Create(f) \/ OpenWrite(f) \/ Write(f) \/ OpenRead(f)
  \/ MoveIn(f) \/ Touch(f) \/ Delete(f)
  \/ \E g \in Files : Rename(f, g)
Closes(f) == CloseWrite(f) \/ CloseRead(f)
Watcher == Stamp \/ Record \/ Sweep

Next ==
  \/ \E f \in Files : Users(f) \/ Closes(f) \/ ProcessorFails(f)
  \/ Watcher \/ Restart \/ Tick

Spec == Init /\ [][Next]_vars

\* Whoever has a file open closes it some day; the observer, the worker and
\* the clock go on.
Fairness ==
  /\ WF_vars(Stamp) /\ WF_vars(Record) /\ WF_vars(Sweep) /\ WF_vars(Tick)
  /\ \A f \in Files : WF_vars(CloseWrite(f)) /\ WF_vars(CloseRead(f))

FairSpec == Spec /\ Fairness

-----------------------------------------------------------------------------
TypeOK ==
  /\ polling \in PollingModes /\ habits \in Manners
  /\ exists \subseteq Files /\ writer \subseteq exists /\ fresh \subseteq exists
  /\ size \in [Files -> 0 .. MaxSize]
  /\ readers \in [Files -> Nat] /\ strays \in [Files -> Nat]
  /\ queue \in Seq(Event)
  /\ handling \in {NoEvent} \cup [event : Event, as : Operation]
  /\ decks \in [deck : Histories, modDeck : Histories, before : SUBSET (Files \X Files)]
  /\ ops \in Nat /\ stops \in Nat

Agree(d) ==
  /\ \A f \in Files : d.deck[f] = <<>> \/ d.modDeck[f] = <<>>
  /\ \A p \in d.before : p[1] \in Tracked(d) /\ p[2] \in Tracked(d) /\ p[1] # p[2]
  /\ \A f, g \in Tracked(d) : f # g => (<<f, g>> \in d.before <=> <<g, f>> \notin d.before)
  /\ \A p, q \in d.before : p[2] = q[1] => <<p[1], q[2]>> \in d.before

(* The decks are what the worker and the handler take them for: no file is *)
(* in both of them, and the main deck is in one order, of the files in it  *)
(* (the two dictionaries of FileOperationEventHandler, changed by every    *)
(* branch of on_any_event, by cancel_read_open and by the worker).         *)
DecksAgree == Agree(decks)

CaughtUp == queue = <<>> /\ handling = NoEvent

(* Once all events are in, no file is due that somebody is writing: an     *)
(* open writer is known by its open and keeps the file from the worker     *)
(* ("test_open_writer_with_nothing_written_is_not_processed").  A process  *)
(* that starts over cannot know of the opens before it.                    *)
OpensAreCounted == CaughtUp /\ stops = 0 => Due(decks) \cap writer = {}

(* The same under inotify, of users who do not read and do not rename what *)
(* is being written (OpensAreCounted fails with either; a polling observer *)
(* reports no opens).                                                      *)
WritersAreLeftAlone ==
  ~polling /\ habits \cap {"read", "rename open"} = {} => OpensAreCounted

(* Once all events are in, a file that is not empty, that nobody has open  *)
(* and whose content has not been handed over is in the main deck and      *)
(* waits for nothing but its time: no event leaves it with a history the   *)
(* worker never acts on.                                                   *)
FilesGetReady ==
  CaughtUp => \A f \in fresh :
    size[f] > 0 /\ f \notin writer /\ readers[f] = 0 /\ strays[f] = 0 =>
      f \in Tracked(decks) /\ Ready(decks.deck[f])

(* The same under inotify, of users who do not replace files, whose reads  *)
(* are all reported, and of a process that has not started over or touches *)
(* what is there (FilesGetReady fails for the files it touches when        *)
(* polling).                                                               *)
QuietFilesAreReady ==
  ~polling /\ "replace" \notin habits /\ (Coalesce => "read" \notin habits)
           /\ (stops > 0 => TouchExisting)
    => FilesGetReady

(* Once all events are in, only files that are there are due: a moved or a *)
(* deleted file is no longer known by its old name (on_any_event).         *)
DueFilesExist == CaughtUp => Due(decks) \subseteq exists

(* "we can break because the list is ordered" (ProcessFileEventWorker):    *)
(* behind a file that has to wait every file has to wait.  Under inotify an *)
(* open adds to the history of a file and leaves it at its place, which    *)
(* delays the files behind it (EventuallyHandedOver).                      *)
BreakIsSafe ==
  polling => \A p \in decks.before : Waits(decks.deck[p[1]]) => Waits(decks.deck[p[2]])

(* Whatever the users do before they leave a file alone, its content is    *)
(* handed over in the end: the worker's early break delays a file and      *)
(* never starves it.                                                       *)
EventuallyHandedOver ==
  \A f \in Files : f \in fresh /\ size[f] > 0 ~> f \notin fresh \/ size[f] = 0
=============================================================================
