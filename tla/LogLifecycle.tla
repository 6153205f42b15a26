----------------------------- MODULE LogLifecycle -----------------------------
(***************************************************************************)
(* Zeek log archives and Windows event logs from their upload until they   *)
(* are removed.  Five programs share one volume:                           *)
(*   - the users put files into upload/;                                   *)
(*   - the watcher (filebeat-watch-zeeklogs-uploads-folder.py) moves those *)
(*     it supports out of upload/ into the volume's own directory;         *)
(*   - the preparer (filebeat-process-zeek-folder.sh, every minute) moves  *)
(*     them into processed/, extracts them and links the logs in current/; *)
(*   - filebeat reads the links;                                           *)
(*   - the cleaner (clean-processed-folder.py, every minute) removes what  *)
(*     is old from processed/, and the links that lead nowhere.            *)
(* An archive stands for its one log.  Ages are kept as "older than the    *)
(* limit for files of its kind", measured, as by the cleaner, from the     *)
(* file's modification time to the start of the cleaner.                   *)
(***************************************************************************)
EXTENDS Integers, FiniteSets

CONSTANTS
  Uploads,    \* what is uploaded; each once
  Comes,      \* what each may be, and with a modification time past the limit or not
  Names,      \* base names
  None,       \* stands for no file
  Runs,       \* processes of the preparer
  MaxCopies,  \* bound: the numeric segments the watcher tries
  MaxFaults   \* bound: kills, and logs filebeat closes before their end

ASSUME LogLifecycleAssumption ==
  /\ None \notin Uploads
  /\ MaxCopies \in Nat /\ MaxFaults \in Nat

VARIABLES
  kind,       \* what each upload is
  old,        \* files past the age limit: uploads and logs
  upload,     \* the file of each name in upload/
  zeek,       \* the file of each path in the volume's own directory
  processed,  \* the file of each path under processed/
  log,        \* the log extracted from each upload
  links,      \* uploads with a link in current/
  reading,    \* how far filebeat is with each log
  mover,      \* the move the watcher is about to make
  lock,       \* whether LOCKDIR exists
  prep,       \* what each process of the preparer is doing
  cleaner,    \* what the cleaner is doing
  rejected,   \* history: uploads of an unsupported type
  pruned,     \* history: uploads whose archive the cleaner removed
  stale,      \* history: uploads that were old when they came
  killed,     \* whether somebody was killed
  faults      \* faults so far

world == <<kind, stale, killed, faults>>
moverVars == <<upload, mover, rejected>>
prepVars == <<lock, prep>>
logVars == <<log, links>>
cleanVars == <<cleaner, pruned>>
vars == <<world, moverVars, zeek, prepVars, processed, logVars, old, reading, cleanVars>>

-----------------------------------------------------------------------------
(* Paths.  A name is a base and a numeric segment (0: none), and under     *)
(* processed/ a timestamp; no two uploads are taken in the same            *)
(* nanosecond, so the upload stands for the time it was taken at.          *)

Copies == 0..MaxCopies
Paths == Names \X Copies
Stamps == Uploads \cup {None}
Places == Names \X Copies \X Stamps

\* "torn" is an event log whose conversion stops in the middle, be it for what is in it,
\* for want of memory or for a full disk.
Kinds == {"archive", "damaged", "evtx", "torn", "other"}
EventLogs == {"evtx", "torn"}
Supported == Kinds \ {"other"}
Files == Uploads \cup {None}

\* The files the cleaner looks at under processed/.
Original(u) == <<"original", u>>
LogOf(u) == <<"log", u>>
Items == {"original", "log"} \X Uploads

NoMove == <<>>
Idle == [at |-> "off", todo |-> {}, from |-> <<>>, to |-> <<>>, file |-> None]
Asleep == [at |-> "off", todo |-> {}, item |-> <<>>]

Busy(r) == prep[r].at # "off"
Stored(u) == \E p \in Places : processed[p] = u
InHand(u) == \E r \in Runs : prep[r].file = u

Init ==
  /\ kind = [u \in Uploads |-> "none"] /\ old = {} /\ stale = {}
  /\ upload = [n \in Names |-> None]
  /\ zeek = [p \in Paths |-> None]
  /\ processed = [p \in Places |-> None]
  /\ log = [u \in Uploads |-> "none"] /\ links = {}
  /\ reading = [u \in Uploads |-> "no"]
  /\ mover = NoMove /\ lock = FALSE
  /\ prep = [r \in Runs |-> Idle] /\ cleaner = Asleep
  /\ rejected = {} /\ pruned = {}
  /\ killed = FALSE /\ faults = 0

-----------------------------------------------------------------------------
(* The users, and time.  Time passes fast for nobody: an archive gets old  *)
(* (12 hours) once the preparer is done with it, unless it came with an    *)
(* old modification time, and a log (6 hours) once filebeat has picked it  *)
(* up, unless it was never linked.                                         *)

Upload(u, n) ==
  /\ kind[u] = "none" /\ upload[n] = None
  /\ upload' = [upload EXCEPT ![n] = u]
  /\ \E k \in Kinds, m \in {"recent", "old"} :
       /\ <<k, m>> \in Comes[u]
       /\ kind' = [kind EXCEPT ![u] = k]
       /\ IF m = "old" THEN stale' = stale \cup {u} /\ old' = old \cup {Original(u)}
          ELSE UNCHANGED <<stale, old>>
  /\ UNCHANGED <<killed, faults, mover, rejected, zeek, prepVars, processed, logVars, reading, cleanVars>>

OriginalAges(u) ==
  /\ Original(u) \notin old /\ Stored(u) /\ ~InHand(u)
  /\ old' = old \cup {Original(u)}
  /\ UNCHANGED <<world, moverVars, zeek, prepVars, processed, logVars, reading, cleanVars>>

LogAges(u) ==
  /\ LogOf(u) \notin old /\ log[u] # "none" /\ ~InHand(u)
  /\ u \in links => reading[u] # "no"
  /\ old' = old \cup {LogOf(u)}
  /\ UNCHANGED <<world, moverVars, zeek, prepVars, processed, logVars, reading, cleanVars>>

-----------------------------------------------------------------------------
(* The watcher: file_processor, called for one file at a time.             *)

\* The first path that does not exist: without a segment, then 1, 2, ...
Target_Skips(n) == IF zeek[<<n, 0>>] = None THEN {<<n, 0>>} ELSE {<<n, 2>>}   \* (mutant)
Target(n) ==
  {p \in Paths : p[1] = n /\ zeek[p] = None /\ \A d \in 0..(p[2] - 1) : zeek[<<n, d>>] # None}

Look(n) ==
  /\ mover = NoMove /\ upload[n] # None
  /\ kind[upload[n]] \in Supported
  /\ \E t \in Target(n) : mover' = <<n, t>>
  /\ UNCHANGED <<world, upload, rejected, zeek, prepVars, processed, logVars, old, reading, cleanVars>>

Reject(n) ==
  /\ mover = NoMove /\ upload[n] # None
  /\ kind[upload[n]] \notin Supported
  /\ rejected' = rejected \cup {upload[n]}
  /\ upload' = [upload EXCEPT ![n] = None]
  /\ UNCHANGED <<world, mover, zeek, prepVars, processed, logVars, old, reading, cleanVars>>

\* shutil.move within the volume is a rename: what the target was is gone.
Move ==
  /\ mover # NoMove
  /\ zeek' = [zeek EXCEPT ![mover[2]] = upload[mover[1]]]
  /\ upload' = [upload EXCEPT ![mover[1]] = None]
  /\ mover' = NoMove
  /\ UNCHANGED <<world, rejected, prepVars, processed, logVars, old, reading, cleanVars>>

-----------------------------------------------------------------------------
(* The preparer.  LOCKDIR is removed by a trap that is set only by the     *)
(* process that made the directory.  Nobody has a file of the volume's own *)
(* directory open, so fuser holds back none.                               *)

Trap_First(made) == FALSE   \* (mutant)
Trap_Never(made) == lock   \* (mutant)
Trap(made) == IF made THEN FALSE ELSE lock

Turned(r, at) == [prep EXCEPT ![r].at = at]
Dropped(r) == [prep EXCEPT ![r] = [Idle EXCEPT !.at = "listed", !.todo = prep[r].todo]]

Start(r) ==
  /\ ~Busy(r) /\ ~lock
  /\ lock' = TRUE
  /\ prep' = [prep EXCEPT ![r] =
               [Idle EXCEPT !.at = "listed", !.todo = {p \in Paths : zeek[p] # None}]]
  /\ UNCHANGED <<world, moverVars, zeek, processed, logVars, old, reading, cleanVars>>

Refused(r) ==
  /\ ~Busy(r) /\ lock
  /\ lock' = Trap(FALSE)
  /\ UNCHANGED <<world, moverVars, zeek, prep, processed, logVars, old, reading, cleanVars>>

\* An event log is put into a directory made for it alone; an archive into
\* processed/ itself, with the time in its name if that is taken.
Place_Same(p, u) == <<p[1], p[2], None>>   \* (mutant)
Place(p, u) ==
  IF kind[u] \in EventLogs \/ processed[<<p[1], p[2], None>>] # None
  THEN <<p[1], p[2], u>> ELSE <<p[1], p[2], None>>

Take(r) ==
  /\ prep[r].at = "listed"
  /\ \E p \in prep[r].todo :
       prep' = [prep EXCEPT ![r] =
         IF zeek[p] = None THEN [prep[r] EXCEPT !.todo = @ \ {p}]
         ELSE [at |-> "taken", todo |-> prep[r].todo \ {p}, from |-> p,
               to |-> Place(p, zeek[p]), file |-> zeek[p]]]
  /\ UNCHANGED <<world, moverVars, zeek, lock, processed, logVars, old, reading, cleanVars>>

\* mv keeps the modification time.
MoveIn(r) ==
  /\ prep[r].at = "taken"
  /\ processed' = [processed EXCEPT ![prep[r].to] = zeek[prep[r].from]]
  /\ zeek' = [zeek EXCEPT ![prep[r].from] = None]
  /\ prep' = Turned(r, "moved")
  /\ UNCHANGED <<world, moverVars, lock, logVars, old, reading, cleanVars>>

\* safe-extract.py or evtx opens what was moved in, and the output begins.  For
\* safe-extract.py an archive that is gone is a failure like any other.
Open(r) ==
  /\ prep[r].at = "moved"
  /\ IF Stored(prep[r].file)
     THEN log' = [log EXCEPT ![prep[r].file] = "part"] /\ prep' = Turned(r, "extracting")
     ELSE kind[prep[r].file] \notin EventLogs /\ prep' = Dropped(r) /\ UNCHANGED log
  /\ UNCHANGED <<world, moverVars, zeek, lock, processed, links, old, reading, cleanVars>>

Extracted(r) ==
  /\ prep[r].at = "extracting" /\ kind[prep[r].file] \in {"archive", "evtx"}
  /\ log' = [log EXCEPT ![prep[r].file] = "whole"]
  /\ prep' = Turned(r, "extracted")
  /\ UNCHANGED <<world, moverVars, zeek, lock, processed, links, old, reading, cleanVars>>

\* What was extracted so far is removed, and the script skips the archive.
Failed_Kept(r) == UNCHANGED log /\ prep' = Turned(r, "extracted")   \* (mutant)
Failed(r) == log' = [log EXCEPT ![prep[r].file] = "none"] /\ prep' = Dropped(r)

ExtractionFails(r) ==
  /\ prep[r].at = "extracting" /\ kind[prep[r].file] = "damaged"
  /\ Failed(r)
  /\ UNCHANGED <<world, moverVars, zeek, lock, processed, links, old, reading, cleanVars>>

\* Nobody asks evtx_to_jsonl.sh how it ended, and what it wrote until then stays.
ConversionStops(r) ==
  /\ prep[r].at = "extracting" /\ kind[prep[r].file] = "torn"
  /\ \E l \in {"part", "empty"} : log' = [log EXCEPT ![prep[r].file] = l]
  /\ prep' = Turned(r, "extracted")
  /\ UNCHANGED <<world, moverVars, zeek, lock, processed, links, old, reading, cleanVars>>

\* evtx_to_jsonl.sh does nothing for a file that is gone, and touch then
\* makes an empty one, unless find did not list it in the first place.
NothingToConvert(r) ==
  /\ prep[r].at = "moved" /\ kind[prep[r].file] \in EventLogs /\ ~Stored(prep[r].file)
  /\ \/ log' = [log EXCEPT ![prep[r].file] = "empty"] /\ prep' = Turned(r, "extracted")
     \/ prep' = Dropped(r) /\ UNCHANGED log
  /\ UNCHANGED <<world, moverVars, zeek, lock, processed, links, old, reading, cleanVars>>

\* touch, then ln -sf to a name with the time in it.
Link(r) ==
  /\ prep[r].at = "extracted"
  /\ old' = old \ {LogOf(prep[r].file)}
  /\ links' = links \cup {prep[r].file}
  /\ prep' = Dropped(r)
  /\ UNCHANGED <<world, moverVars, zeek, lock, processed, log, reading, cleanVars>>

Finish(r) ==
  /\ prep[r].at = "listed" /\ prep[r].todo = {}
  /\ lock' = Trap(TRUE)
  /\ prep' = [prep EXCEPT ![r] = Idle]
  /\ UNCHANGED <<world, moverVars, zeek, processed, logVars, old, reading, cleanVars>>

-----------------------------------------------------------------------------
(* The cleaner.  The time is taken and the registry of filebeat read once, *)
(* at its start, so what will fail those tests is known then; that a file  *)
(* is old and closed is looked at in its turn, and then it is removed.     *)

Registry == {u \in Uploads : reading[u] \in {"reading", "closed", "read"}}

Exists(i) == IF i[1] = "log" THEN log[i[2]] # "none" ELSE Stored(i[2])

InUse(i) ==
  IF i[1] = "log" THEN reading[i[2]] = "reading"
  ELSE \E r \in Runs : prep[r].at = "extracting" /\ prep[r].file = i[2]

Candidates_NoRegistry == {i \in old : Exists(i)}   \* (mutant)
Candidates == {i \in old : Exists(i) /\ ~(i[1] = "log" /\ i[2] \in Registry)}

\* cleanup_dead_symlinks.
Alive == {u \in links : log[u] # "none"}

\* A run that would find nothing to remove changes nothing and is left out.
Wake ==
  /\ cleaner.at = "off" /\ (Candidates # {} \/ Alive # links)
  /\ cleaner' = [at |-> "on", todo |-> Candidates, item |-> <<>>]
  /\ UNCHANGED <<world, moverVars, zeek, prepVars, processed, logVars, old, reading, pruned>>

Check ==
  /\ cleaner.at = "on"
  /\ \E i \in cleaner.todo :
       cleaner' = [at |-> IF Exists(i) /\ i \in old /\ ~InUse(i) THEN "sure" ELSE "on",
                   todo |-> cleaner.todo \ {i},
                   item |-> IF Exists(i) /\ i \in old /\ ~InUse(i) THEN i ELSE <<>>]
  /\ UNCHANGED <<world, moverVars, zeek, prepVars, processed, logVars, old, reading, pruned>>

RemoveLog ==
  /\ cleaner.at = "sure" /\ cleaner.item[1] = "log"
  /\ log' = [log EXCEPT ![cleaner.item[2]] = "none"]
  /\ old' = old \ {cleaner.item}
  /\ cleaner' = [cleaner EXCEPT !.at = "on", !.item = <<>>]
  /\ UNCHANGED <<world, moverVars, zeek, prepVars, processed, links, reading, pruned>>

RemoveOriginal ==
  /\ cleaner.at = "sure" /\ cleaner.item[1] = "original"
  /\ processed' = [p \in Places |->
       IF processed[p] = cleaner.item[2] THEN None ELSE processed[p]]
  /\ pruned' = pruned \cup {cleaner.item[2]}
  /\ old' = old \ {cleaner.item}
  /\ cleaner' = [cleaner EXCEPT !.at = "on", !.item = <<>>]
  /\ UNCHANGED <<world, moverVars, zeek, prepVars, logVars, reading>>

Tidy ==
  /\ cleaner.at = "on" /\ cleaner.todo = {}
  /\ links' = Alive
  /\ cleaner' = Asleep
  /\ UNCHANGED <<world, moverVars, zeek, prepVars, processed, log, old, reading, pruned>>

-----------------------------------------------------------------------------
(* filebeat: it opens what is linked, reads to the end (closing the file   *)
(* early at times), and after a while forgets what it has read.            *)

PickUp(u) ==
  /\ u \in links /\ log[u] # "none" /\ reading[u] \in {"no", "closed"}
  /\ reading' = [reading EXCEPT ![u] = "reading"]
  /\ UNCHANGED <<world, moverVars, zeek, prepVars, processed, logVars, old, cleanVars>>

CloseEarly(u) ==
  /\ reading[u] = "reading" /\ faults < MaxFaults
  /\ reading' = [reading EXCEPT ![u] = "closed"]
  /\ faults' = faults + 1
  /\ UNCHANGED <<kind, stale, killed, moverVars, zeek, prepVars, processed, logVars, old, cleanVars>>

ReadAll(u) ==
  /\ reading[u] = "reading"
  /\ reading' = [reading EXCEPT ![u] = "read"]
  /\ UNCHANGED <<world, moverVars, zeek, prepVars, processed, logVars, old, cleanVars>>

Forget(u) ==
  /\ reading[u] = "read"
  /\ reading' = [reading EXCEPT ![u] = "forgotten"]
  /\ UNCHANGED <<world, moverVars, zeek, prepVars, processed, logVars, old, cleanVars>>

-----------------------------------------------------------------------------
(* A killed preparer cannot remove its directory; the lock of the cleaner  *)
(* is one of the kernel's.  A new container has a new /tmp.                *)

Kill(r) ==
  /\ Busy(r) /\ faults < MaxFaults
  /\ faults' = faults + 1 /\ killed' = TRUE
  /\ prep' = [prep EXCEPT ![r] = Idle]
  /\ UNCHANGED <<kind, stale, moverVars, zeek, lock, processed, logVars, old, reading, cleanVars>>

Replace ==
  /\ faults < MaxFaults
  /\ faults' = faults + 1 /\ killed' = TRUE
  /\ mover' = NoMove /\ lock' = FALSE /\ cleaner' = Asleep
  /\ prep' = [r \in Runs |-> Idle]
  /\ reading' = [u \in Uploads |-> IF reading[u] = "reading" THEN "closed" ELSE reading[u]]
  /\ UNCHANGED <<kind, stale, upload, rejected, zeek, processed, logVars, old, pruned>>

-----------------------------------------------------------------------------
Users == \E u \in Uploads : (\E n \in Names : Upload(u, n)) \/ OriginalAges(u) \/ LogAges(u)
Watcher == (\E n \in Names : Look(n) \/ Reject(n)) \/ Move
PreparerStep(r) ==
  \/ Take(r) \/ MoveIn(r) \/ Open(r) \/ Extracted(r) \/ ExtractionFails(r)
  \/ ConversionStops(r) \/ NothingToConvert(r) \/ Link(r) \/ Finish(r)
Preparer == \E r \in Runs : Start(r) \/ Refused(r) \/ PreparerStep(r)
CleanerStep == Check \/ RemoveLog \/ RemoveOriginal \/ Tidy
Filebeat == \E u \in Uploads : PickUp(u) \/ CloseEarly(u) \/ ReadAll(u) \/ Forget(u)
Faults == (\E r \in Runs : Kill(r)) \/ Replace

Next == Users \/ Watcher \/ Preparer \/ Wake \/ CleanerStep \/ Filebeat \/ Faults

Spec == Init /\ [][Next]_vars

\* cron starts both scripts every minute, the worker of the watcher takes
\* what is in upload/, and filebeat looks for new links every few seconds.
Fairness ==
  /\ WF_vars(Watcher)
  /\ WF_vars(\E r \in Runs : Start(r))
  /\ \A r \in Runs : WF_vars(PreparerStep(r))
  /\ \A u \in Uploads : WF_vars(PickUp(u) \/ ReadAll(u))

FairSpec == Spec /\ Fairness

-----------------------------------------------------------------------------
(* Properties.                                                             *)

TypeOK ==
  /\ kind \in [Uploads -> Kinds \cup {"none"}]
  /\ stale \subseteq Uploads /\ rejected \subseteq Uploads /\ pruned \subseteq Uploads
  /\ old \subseteq Items
  /\ upload \in [Names -> Files]
  /\ zeek \in [Paths -> Files]
  /\ processed \in [Places -> Files]
  /\ log \in [Uploads -> {"none", "part", "whole", "empty"}]
  /\ links \subseteq Uploads
  /\ reading \in [Uploads -> {"no", "reading", "closed", "read", "forgotten"}]
  /\ mover \in (Names \X Paths) \cup {NoMove}
  /\ lock \in BOOLEAN
  /\ prep \in [Runs -> [at : {"off", "listed", "taken", "moved", "extracting", "extracted"},
                       todo : SUBSET Paths, from : Paths \cup {<<>>},
                       to : Places \cup {<<>>}, file : Files]]
  /\ cleaner \in [at : {"off", "on", "sure"}, todo : SUBSET Items, item : Items \cup {<<>>}]
  /\ killed \in BOOLEAN /\ faults \in 0..MaxFaults

\* At most one process prepares files, and the directory that says so is
\* there as long as it does: one that was refused must leave it alone.
OnePreparer ==
  /\ \A r, s \in Runs : Busy(r) /\ Busy(s) => r = s
  /\ (\E r \in Runs : Busy(r)) => lock

\* Whatever was uploaded is still somewhere on the volume, unless its type
\* was refused or its archive pruned: no move of the watcher or the preparer
\* puts a file in the place of another one of the same name.
NothingIsOverwritten ==
  \A u \in Uploads :
    kind[u] # "none" =>
      \/ u \in rejected \cup pruned \/ Stored(u)
      \/ \E n \in Names : upload[n] = u
      \/ \E p \in Paths : zeek[p] = u

\* filebeat is never given what is still being written, nor what is left of an archive
\* whose extraction failed or was killed in the middle.  The one part it may get is that
\* of an event log whose conversion stopped, since nobody looks at how that ended.
NoPartIsLinked ==
  /\ \A u \in links : log[u] = "part" => kind[u] = "torn"
  /\ \A r \in Runs : prep[r].at = "extracting" => prep[r].file \notin links

\* A log that filebeat was given is only removed after it has been read to
\* its end, however often filebeat closes it before; and unless somebody was
\* killed, what came with a recent modification time and is intact waits
\* to be taken, is in the hands of the preparer, or is there with its whole
\* log to be read: the cleaner takes neither file away too soon.
UnderWay(u) ==
  \/ \E n \in Names : upload[n] = u
  \/ \E p \in Paths : zeek[p] = u
  \/ InHand(u)
  \/ u \in links /\ log[u] = "whole"

ReadBeforeRemoved ==
  /\ \A u \in links : log[u] = "none" => reading[u] \in {"read", "forgotten"}
  /\ ~killed =>
       \A u \in Uploads : kind[u] \in {"archive", "evtx"} /\ u \notin stale =>
         UnderWay(u) \/ reading[u] \in {"read", "forgotten"}

\* Unless somebody was killed, what comes with a recent modification time
\* and is intact is read in the end.
ArchivesAreRead ==
  \A u \in Uploads :
    (kind[u] \in {"archive", "evtx"} /\ u \notin stale)
      ~> (reading[u] \in {"read", "forgotten"} \/ killed)
=============================================================================
