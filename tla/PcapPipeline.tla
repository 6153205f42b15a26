---------------------------- MODULE PcapPipeline ----------------------------
(***************************************************************************)
(* Captures from their upload until they are analysed.                     *)
(*   - the users put files into upload/ (a new one may take the place of   *)
(*     one of the same name);                                              *)
(*   - the monitor (watch-pcap-uploads-folder.py) moves captures into      *)
(*     processed/, unpacks compressed ones, moves archives on to the       *)
(*     folder of the log uploads and deletes the rest;                     *)
(*   - the publisher (pcap_watcher.py) announces the captures it finds in  *)
(*     processed/, unless Arkime's index shows that they were processed;   *)
(*   - the processors (pcap_processor.py) queue the announcements and run  *)
(*     their tool on the file of the announced name.                       *)
(* Both directories are watched as in WatchDeck: a file that is quiet is   *)
(* handed over once for each time it came.  A file is known by the upload  *)
(* its content is from.                                                    *)
(***************************************************************************)
EXTENDS Integers, Sequences, FiniteSets

CONSTANTS
  Uploads,       \* what is uploaded; each once
  Comes,         \* what the uploads may be: functions to Upload
  Names,         \* file names
  Plain,         \* each name without the suffix of a compressed file
  None,          \* stands for no file
  Arkime, Zeek,  \* the processors (SuricataSubmit is the third)
  MaxFaults      \* bound: kills, restarts and failed writes

Kinds == {"capture", "packed", "broken", "archive", "other"}
Upload == [name : Names, kind : Kinds, size : Nat]
Files == [of : Uploads, kind : Kinds]

ASSUME PcapPipelineAssumption ==
  /\ None \notin Uploads /\ None \notin Files
  /\ Comes \subseteq [Uploads -> Upload]
  /\ Plain \in [Names -> Names]
  /\ MaxFaults \in Nat

VARIABLES
  is,         \* what each upload is
  sent,       \* the uploads that have been made
  upload,     \* the file of each name in upload/
  seen,       \* names the monitor's watch will hand over
  mon,        \* what the monitor is doing
  zeek,       \* uploads moved on to the log uploads
  processed,  \* the file of each name in processed/
  found,      \* names the publisher's watch will hand over
  pub,        \* what the publisher is doing
  up,         \* the processors that are subscribed
  queue,      \* announcements each processor has queued
  alive,      \* the processors whose worker runs
  runs,       \* how often each processor ran on each capture
  recorded,   \* names and sizes Arkime has recorded
  index,      \* those a query shows
  torn,       \* history: uploads whose copy for the log uploads was broken off
  lost,       \* history: uploads deleted because a write failed
  stranded,   \* history: uploads there when the monitor was killed or down
  missed,     \* history: captures whose announcement a processor missed
  again,      \* history: captures there when the publisher was started again
  faults      \* faults so far

Processors == {Arkime, Zeek}
Entries == Uploads \cup {None}

users == <<is, sent>>
upVars == <<users, upload, seen, mon, zeek, torn, lost, stranded>>
pubVars == <<found, pub, up, missed, again>>
workVars == <<queue, alive, runs, recorded>>
behind == <<processed, pubVars, workVars, index>>   \* the monitor
vars == <<upVars, behind, faults>>

Idle == [at |-> "idle", name |-> None, held |-> None]
Doing(what, n, u) == [at |-> what, name |-> n, held |-> u]

Init ==
  /\ is \in Comes /\ sent = {}
  /\ upload = [n \in Names |-> None] /\ seen = {} /\ mon = Idle /\ zeek = {}
  /\ processed = [n \in Names |-> None]
  /\ found = {} /\ pub = Idle /\ up = Processors
  /\ queue = [k \in Processors |-> <<>>] /\ alive = Processors
  /\ runs = [k \in Processors |-> [u \in Uploads |-> 0]]
  /\ recorded = {} /\ index = {}
  /\ torn = {} /\ lost = {} /\ stranded = {} /\ again = {} /\ faults = 0
  /\ missed = [k \in Processors |-> {}]

Fault == faults < MaxFaults /\ faults' = faults + 1

-----------------------------------------------------------------------------
(* The users. *)

Put(u) ==
  /\ u \notin sent /\ sent' = sent \cup {u}
  /\ upload' = [upload EXCEPT ![is[u].name] = u]
  /\ IF mon.at = "down" THEN stranded' = stranded \cup {u} /\ UNCHANGED seen
     ELSE seen' = seen \cup {is[u].name} /\ UNCHANGED stranded
  /\ UNCHANGED <<is, mon, zeek, torn, lost, behind, faults>>

-----------------------------------------------------------------------------
(* The monitor: file_processor.  What it has read of a file may not be     *)
(* what is there under the name when it acts.                              *)

Taken(n) == [upload EXCEPT ![n] = None]

HandOver(n) ==
  /\ mon = Idle /\ n \in seen
  /\ seen' = seen \ {n}
  /\ mon' = IF upload[n] = None THEN Idle ELSE Doing("open", n, None)
  /\ UNCHANGED <<users, upload, zeek, torn, lost, stranded, behind, faults>>

\* The file's type and size are read from one descriptor.
Inspect ==
  /\ mon.at = "open"
  /\ mon' = IF upload[mon.name] = None THEN Idle ELSE Doing("check", mon.name, upload[mon.name])
  /\ UNCHANGED <<users, upload, seen, zeek, torn, lost, stranded, behind, faults>>

Way(k) ==
  CASE k = "other" -> "delete"
    [] k = "capture" -> "move"
    [] k \in {"packed", "broken"} -> "unpack"
    [] k = "archive" -> "hand on"

\* An entry that is not the file that was inspected is removed.
Check ==
  /\ mon.at = "check"
  /\ IF upload[mon.name] = mon.held
     THEN mon' = Doing(Way(is[mon.held].kind), mon.name, mon.held) /\ UNCHANGED upload
     ELSE mon' = Idle /\ upload' = Taken(mon.name)
  /\ UNCHANGED <<users, seen, zeek, torn, lost, stranded, behind, faults>>

Delete ==
  /\ mon.at = "delete"
  /\ upload' = Taken(mon.name) /\ mon' = Idle
  /\ UNCHANGED <<users, seen, zeek, torn, lost, stranded, behind, faults>>

\* A move within the volume is a rename.
Filed_Bare(n, file) ==   \* (mutant)
  /\ processed' = [processed EXCEPT ![n] = file.of]
  /\ found' = IF pub.at = "down" THEN found ELSE found \cup {n}
Filed(n, file) ==
  /\ processed' = [processed EXCEPT ![n] = file]
  /\ found' = IF pub.at = "down" THEN found ELSE found \cup {n}

Move ==
  /\ mon.at = "move" /\ mon' = Idle
  /\ LET u == upload[mon.name] IN
     IF u = None THEN UNCHANGED <<upload, processed, found>>
     ELSE Filed(mon.name, [of |-> u, kind |-> is[u].kind]) /\ upload' = Taken(mon.name)
  /\ UNCHANGED <<users, seen, zeek, torn, lost, stranded, pub, up, missed, again, workVars, index, faults>>

Unpack_First ==   \* (mutant)
  /\ mon.at = "unpack"
  /\ LET u == upload[mon.name] IN
     \/ /\ u = None \/ is[u].kind \notin {"packed", "broken"}
        /\ mon' = Doing("hand on", mon.name, mon.held) /\ UNCHANGED upload
     \/ /\ u # None /\ is[u].kind = "broken"
        /\ mon' = Idle /\ upload' = Taken(mon.name)
     \/ /\ u # None /\ is[u].kind = "packed"
        /\ mon' = Doing("place", mon.name, u) /\ upload' = Taken(mon.name)
  /\ UNCHANGED <<users, seen, zeek, torn, lost, stranded, behind, faults>>

\* What is not a compressed capture (any more) goes the way of the archives.
Unpack ==
  /\ mon.at = "unpack"
  /\ LET u == upload[mon.name] IN
     \/ /\ u = None \/ is[u].kind \notin {"packed", "broken"}
        /\ mon' = Doing("hand on", mon.name, mon.held) /\ UNCHANGED upload
     \/ /\ u # None /\ is[u].kind = "broken"
        /\ mon' = Idle /\ upload' = Taken(mon.name)
     \/ /\ u # None /\ is[u].kind = "packed"
        /\ mon' = Doing("place", mon.name, u) /\ UNCHANGED upload
  /\ UNCHANGED <<users, seen, zeek, torn, lost, stranded, behind, faults>>

\* The unpacked copy takes its place before the upload is removed.
Place ==
  /\ mon.at = "place"
  /\ Filed(Plain[mon.name], [of |-> mon.held, kind |-> "capture"])
  /\ mon' = Doing("remove", mon.name, mon.held)
  /\ UNCHANGED <<users, upload, seen, zeek, torn, lost, stranded, pub, up, missed, again, workVars, index, faults>>

Remove ==
  /\ mon.at = "remove"
  /\ upload' = Taken(mon.name) /\ mon' = Idle
  /\ UNCHANGED <<users, seen, zeek, torn, lost, stranded, behind, faults>>

\* The folder of the log uploads is on another mount, where a move is a copy and an
\* unlink of what then has the name.
HandOn ==
  /\ mon.at = "hand on"
  /\ mon' = IF upload[mon.name] = None THEN Idle ELSE Doing("copy", mon.name, upload[mon.name])
  /\ UNCHANGED <<users, upload, seen, zeek, torn, lost, stranded, behind, faults>>

Copied ==
  /\ mon.at = "copy" /\ mon' = Doing("unlink", mon.name, mon.held)
  /\ zeek' = zeek \cup {mon.held}
  /\ UNCHANGED <<users, upload, seen, torn, lost, stranded, behind, faults>>

Unlink ==
  /\ mon.at = "unlink" /\ mon' = Idle
  /\ upload' = Taken(mon.name)
  /\ UNCHANGED <<users, seen, zeek, torn, lost, stranded, behind, faults>>

\* A part of the archive is left in the other folder, the exception is logged and the
\* upload stays where it is, and nobody looks at it again.
CopyFails ==
  /\ mon.at = "copy" /\ mon' = Idle /\ Fault
  /\ torn' = torn \cup {mon.held}
  /\ UNCHANGED <<users, upload, seen, zeek, lost, stranded, behind>>

\* The copy cannot be written or moved, for want of space say: the upload is
\* taken for one that cannot be unpacked.
WriteFails ==
  /\ mon.at = "place" /\ Fault
  /\ upload' = Taken(mon.name) /\ mon' = Idle
  /\ lost' = lost \cup ({upload[mon.name]} \ {None})
  /\ UNCHANGED <<users, seen, zeek, torn, stranded, behind>>

\* What the watch knew is forgotten ...
KillMonitor ==
  /\ mon.at # "down" /\ Fault
  /\ mon' = Doing("down", None, None) /\ seen' = {}
  /\ stranded' = stranded \cup {u \in Uploads : \E n \in Names : upload[n] = u}
  /\ torn' = IF mon.at = "copy" THEN torn \cup {mon.held} ELSE torn
  /\ UNCHANGED <<users, upload, zeek, lost, behind>>

\* ... and no file is looked for at the start.
StartMonitor_Looks ==   \* (mutant)
  /\ mon.at = "down" /\ mon' = Idle /\ seen' = {n \in Names : upload[n] # None}
  /\ UNCHANGED <<users, upload, zeek, torn, lost, stranded, behind, faults>>
StartMonitor ==
  /\ mon.at = "down" /\ mon' = Idle
  /\ UNCHANGED <<users, upload, seen, zeek, torn, lost, stranded, behind, faults>>

Monitor ==
  \/ \E n \in Names : HandOver(n)
  \/ StartMonitor
  \/ Inspect \/ Check \/ Delete \/ Move \/ Unpack \/ Place \/ Remove
  \/ HandOn \/ Copied \/ Unlink

-----------------------------------------------------------------------------
(* The publisher: EventWatcher.processFile. *)

Key(n, u) == <<n, is[u].size>>

Find(n) ==
  /\ pub = Idle /\ n \in found
  /\ found' = found \ {n}
  /\ LET file == processed[n] IN
     pub' = IF file # None /\ file.kind = "capture"
            THEN Doing("announce", n, file.of) ELSE Idle
  /\ UNCHANGED <<upVars, processed, up, missed, again, workVars, index, faults>>

Skip ==
  /\ pub.at = "announce" /\ Key(pub.name, pub.held) \in index
  /\ pub' = Idle
  /\ UNCHANGED <<upVars, processed, found, up, missed, again, workVars, index, faults>>

Announce_Answered(answered) ==   \* (mutant)
  /\ pub.at = "announce"
  /\ answered => Key(pub.name, pub.held) \notin index
  /\ pub' = Idle
  /\ queue' = [k \in Processors |->
                IF k \in up /\ answered THEN Append(queue[k], pub.name) ELSE queue[k]]
  /\ UNCHANGED <<upVars, processed, found, up, missed, again, alive, runs, recorded, index, faults>>

\* A query that fails must not cost a capture.  Who is not subscribed gets
\* nothing.
Announce(answered) ==
  /\ pub.at = "announce"
  /\ answered => Key(pub.name, pub.held) \notin index
  /\ pub' = Idle
  /\ queue' = [k \in Processors |->
                IF k \in up THEN Append(queue[k], pub.name) ELSE queue[k]]
  /\ missed' = [k \in Processors |->
                IF k \in up THEN missed[k] ELSE missed[k] \cup {pub.held}]
  /\ UNCHANGED <<upVars, processed, found, up, again, alive, runs, recorded, index, faults>>

KillPublisher ==
  /\ Fault /\ pub.at # "down"
  /\ pub' = Doing("down", None, None) /\ found' = {} /\ up' = {}
  /\ UNCHANGED <<upVars, processed, missed, again, workVars, index>>

\* The files that are there are touched, for the watch to hand them over.
Existing == {n \in Names : processed[n] # None}
StartPublisher ==
  /\ pub.at = "down"
  /\ pub' = Idle /\ found' = Existing
  /\ again' = again \cup {processed[n].of : n \in Existing}
  /\ UNCHANGED <<upVars, processed, up, missed, workVars, index, faults>>

Publisher ==
  \/ \E n \in Names : Find(n)
  \/ Skip \/ \E answered \in BOOLEAN : Announce(answered)
  \/ StartPublisher

-----------------------------------------------------------------------------
(* The processors: main, arkimeCaptureFileWorker, zeekFileWorker. *)

Subscribe(k) ==
  /\ k \notin up /\ pub.at # "down"
  /\ up' = up \cup {k}
  /\ UNCHANGED <<upVars, processed, found, pub, missed, again, workVars, index, faults>>

\* The tool opens the file of that name, whichever it now is.
Ran(k) ==
  LET n == Head(queue[k]) file == processed[n] IN
  /\ queue' = [queue EXCEPT ![k] = Tail(@)]
  /\ runs' = IF file = None THEN runs ELSE [runs EXCEPT ![k][file.of] = @ + 1]
  /\ recorded' = IF k = Arkime /\ file # None
                 THEN recorded \cup {Key(n, file.of)} ELSE recorded

Analyse(k) ==
  /\ k \in alive /\ queue[k] # <<>>
  /\ Ran(k)
  /\ UNCHANGED <<upVars, processed, pubVars, alive, index, faults>>

\* The logs cannot be copied: the exception ends the worker, not the process.
WorkerDies ==
  /\ Zeek \in alive /\ queue[Zeek] # <<>> /\ Fault
  /\ Ran(Zeek) /\ alive' = alive \ {Zeek}
  /\ UNCHANGED <<upVars, processed, pubVars, index>>

RestartProcessor(k) ==
  /\ Fault
  /\ queue' = [queue EXCEPT ![k] = <<>>]
  /\ missed' = [missed EXCEPT ![k] = @ \cup
       {u \in Uploads : \E i \in 1..Len(queue[k]) :
          processed[queue[k][i]] # None /\ processed[queue[k][i]].of = u}]
  /\ up' = up \ {k} /\ alive' = alive \cup {k}
  /\ UNCHANGED <<upVars, processed, found, pub, again, runs, recorded, index>>

\* The index shows what was recorded after its next refresh.
Refresh ==
  /\ index # recorded /\ index' = recorded
  /\ UNCHANGED <<upVars, processed, pubVars, workVars, faults>>

-----------------------------------------------------------------------------
Faults ==
  \/ WriteFails \/ CopyFails \/ KillMonitor \/ KillPublisher \/ WorkerDies
  \/ \E k \in Processors : RestartProcessor(k)

Next ==
  \/ \E u \in Uploads : Put(u)
  \/ Monitor \/ Publisher
  \/ \E k \in Processors : Subscribe(k) \/ Analyse(k)
  \/ Refresh \/ Faults

Spec == Init /\ [][Next]_vars

\* The programs go on; nobody needs to upload, and nothing needs to fail.
Fairness ==
  /\ WF_vars(Monitor) /\ WF_vars(Publisher)
  /\ \A k \in Processors : WF_vars(Subscribe(k)) /\ WF_vars(Analyse(k))

FairSpec == Spec /\ Fairness

-----------------------------------------------------------------------------
TypeOK ==
  /\ is \in [Uploads -> Upload]
  /\ upload \in [Names -> Entries] /\ seen \subseteq Names
  /\ mon \in [at : {"idle", "down", "open", "check", "delete", "move", "unpack",
                    "place", "remove", "hand on", "copy", "unlink"},
              name : Names \cup {None}, held : Entries]
  /\ processed \in [Names -> Files \cup {None}]
  /\ found \subseteq Names
  /\ pub \in [at : {"idle", "down", "announce"}, name : Names \cup {None}, held : Entries]
  /\ queue \in [Processors -> Seq(Names)]
  /\ runs \in [Processors -> [Uploads -> Nat]]
  /\ up \subseteq Processors /\ alive \subseteq Processors
  /\ missed \in [Processors -> SUBSET Uploads]
  /\ index \subseteq Names \X Nat /\ recorded \subseteq Names \X Nat
  /\ sent \subseteq Uploads /\ zeek \subseteq Uploads /\ lost \subseteq Uploads
  /\ torn \subseteq Uploads /\ stranded \subseteq Uploads /\ again \subseteq Uploads
  /\ faults \in 0..MaxFaults

\* The names an upload may be found under, and whether another one may be.
NamesOf(u) == {is[u].name, Plain[is[u].name]}
Shared(u) == \E v \in Uploads \ {u} : NamesOf(u) \cap NamesOf(v) # {}

InUpload(u) == upload[is[u].name] = u
Target(u) == IF is[u].kind = "packed" THEN Plain[is[u].name] ELSE is[u].name
IsFiled(u) == processed[Target(u)] = [of |-> u, kind |-> "capture"]
Arrived(u) ==
  CASE is[u].kind \in {"capture", "packed"} -> IsFiled(u)
    [] is[u].kind = "archive" -> u \in zeek
    [] OTHER -> FALSE

(* No processor runs on a capture twice ("to avoid re-processing           *)
(* (duplicating sessions for) files that have already been processed",     *)
(* pcap_watcher.py), also when the monitor is killed between the move of   *)
(* an unpacked capture and the removal of its upload.  A publisher that    *)
(* starts again relies on the index, which may not show the capture yet.   *)
AnalysedOnce ==
  \A u \in Uploads : ~Shared(u) /\ u \notin again =>
    \A k \in Processors : runs[k][u] <= 1

\* Why a processor may not be told of u: the index speaks for names and sizes,
\* and Arkime may find one file under the name of another that was announced.
Twins(k, u) ==
  \E v \in Uploads \ {u} :
    \/ Target(u) \in NamesOf(v) /\ is[v].size = is[u].size
    \/ k = Zeek /\ Target(v) = Target(u) /\ is[v].kind \in {"capture", "packed"}
Analysed(u) ==
  \A k \in Processors :
    runs[k][u] > 0 \/ u \in missed[k] \/ k \notin alive \/ Twins(k, u)
Settled(u) ==
  \/ u \in torn \cup lost \cup stranded
  \/ /\ ~InUpload(u)
     /\ Shared(u) \/ is[u].kind \in {"broken", "other"} \/ Arrived(u)
     /\ IsFiled(u) => Analysed(u)

\* Somebody has yet to act on the name of u: the monitor, the publisher or a processor.
UnderWay(u) ==
  \/ is[u].name \in seen \/ (mon.at \notin {"idle", "down"} /\ mon.name = is[u].name)
  \/ Target(u) \in found \/ pub.at = "down" \/ (pub.at = "announce" /\ pub.name = Target(u))
  \/ \E k \in alive : \E i \in 1..Len(queue[k]) : queue[k][i] = Target(u)

(* No upload is forgotten on its way, wherever the monitor is killed       *)
(* ("move, then unlink" in try_decompress_pcap_stream): a capture or an    *)
(* archive is in upload/ until all of it is where it belongs, and as long  *)
(* as an upload is not settled somebody has yet to act on its name.  It    *)
(* may disappear when another upload has its name, which is removed or     *)
(* overwritten with what was inspected, or when the unpacked copy cannot   *)
(* be written; and an archive whose copy is broken off stays in upload/,   *)
(* where nobody looks at it again.                                         *)
UploadsAreKept ==
  \A u \in sent :
    /\ is[u].kind \in {"capture", "packed", "archive"} =>
         InUpload(u) \/ Arrived(u) \/ Shared(u) \/ u \in lost
    /\ UnderWay(u) \/ Settled(u)

(* Whatever is uploaded leaves upload/, unless the monitor was killed or   *)
(* the copy of an archive broken off, and a capture that stays in          *)
(* processed/ is analysed by every processor that does not miss its        *)
(* announcement: neither a failed query, nor an entry replaced while it is *)
(* inspected, nor a restart of the publisher makes it be forgotten, only a *)
(* twin.                                                                   *)
EveryUploadIsHandled == \A u \in Uploads : u \in sent ~> Settled(u)
=============================================================================
