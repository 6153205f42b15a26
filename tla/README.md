# A verification of Malcolm in TLA+

Malcolm is a network traffic analysis suite: captures and logs are uploaded to
it or recorded by it, several engines process them, and the results go to a
search index. Most of the repository configures other people's programs. Its own
logic, which this project is about, is the code that moves files and messages
between those programs: it watches directories, decides when a file is complete,
hands it to workers, collects what they report and removes what is no longer
needed, in processes that share nothing but directories and channels.

Contents: [inventory](#inventory), [plan](#plan),
[file scanning](#file-scanning-scanmodel-filescan-scanpromise),
[directory watch](#directory-watch-watchdeck),
[captures](#captures-pcappipeline),
[submission to Suricata](#submission-to-suricata-suricatasubmit-submitpromise),
[logs](#zeek-logs-loglifecycle),
[installer](#the-installers-configuration-dependencymanager-installerrules-installerconfig),
[runs](#runs), [disagreements](#where-the-code-and-its-documents-disagree),
[proofs](#proofs), [what is not modelled](#what-is-not-modelled).

## Inventory

| component | state it keeps | operations | talks to | what is hard | what makes it correct |
|---|---|---|---|---|---|
| filescan messages and book-keeping (`filescan/model.py`) | `FileScanMap`: per request the file event, the count expected, the results of each scanner, the start | `update`, `get_completed_scans` | used by the logger | messages of many scans interleaved, early, late, missing | a scan is complete when all that received it have ended, and is forgotten then |
| filescan scanners (`scanner.py`) | a task per request | `handle_request`, shutdown | redis request, notify and result channels | cancellation at every await, kill, results before the end | what is published says what the scan found |
| filescan logger (`bin/filescan_logger`) | the map, the finished scans it is writing, cleanup tasks and their limiter | message loop, record, cleanup | redis; unlinks files | a kill in the middle, redis failing, files of several requests | recorded once, deleted only on record and by policy |
| filescan watcher (`bin/filescan_watcher`) | events half handled, a map of pending file events | `handle_file_event`, polling loop, redis inputs | publishes request, then submit | crash between two publishes; suspension while it iterates | each file that settles is requested |
| directory watch (`watch_common.py`) | two decks of event histories | `on_any_event`, `cancel_read_open`, the worker's sweep | the observer's queue, a file processor | events late and merged, renames, readers and writers of one path, restarts | a complete file is handed over, one that is being written is not |
| PCAP upload monitor (`watch-pcap-uploads-folder.py`) | none | classify, decompress, move | directory watch | crash half way, name collisions | no upload is lost or overwritten |
| PCAP watcher (`pcap_watcher.py`) | none | validity and duplicate check, publish | directory watch, OpenSearch, ZeroMQ PUB | no subscriber, stale or unreachable index | each capture announced |
| PCAP processors (`pcap_processor.py`) | a deque of captures, worker counts | subscribe, pop, run the engine | ZeroMQ SUB, Arkime, Zeek, Suricata | failure after the pop, refreshed clients | each capture processed once |
| Suricata socket client (`suricata_socket.py`) | a socket, warm-up and reload records | connect, command, reload, retry | a Suricata instance | late answers, time-outs of commands that were acted on | no stale answer, no repeated submission |
| Zeek log uploads (`filebeat-watch-zeeklogs-uploads-folder.py`, `filebeat-process-zeek-folder.sh`) | a lock directory, the tree `processed/` | unique name, extract, link | directories | check then move, stale lock | no log lost, each linked once |
| clean-up of processed logs (`clean-processed-folder.py`) | a lock file | delete by age, registry and open files | filebeat's registry | a registry read once | nothing deleted that is being read |
| pruning (`prune_files.sh`, `opensearch_index_size_prune.py`) | none | delete oldest until below a limit | disk, OpenSearch | stale lists, rounding | the shortest sufficient prefix of the oldest |
| installer configuration (`scripts/installer/core`) | values, visibility, observers | set, default, show, hide | user interfaces | cascades of observers | they end, and leave each item as its rule says |
| NetBox enrichment caches (`netbox_enrich.rb`) | caches shared by threads | look up, create | NetBox | two threads missing at once | one object per key |
| control scripts, REST API, dashboards set-up, threat feeds, configuration generators | that of other programs | one-shot | docker, OpenSearch, feeds | little of their own | not in the scope, see the end |

The parts meet in two pipelines. *Captures*: an upload is seen by the directory
watch, moved by the upload monitor, seen again by the PCAP watcher's directory
watch, announced to the processors, whose engines write logs and extracted
files. *Extracted files*: the filescan watcher requests a scan of each, the
scanners and the logger decide its fate. Finished logs are picked up by filebeat
and cleaned up; captures and indices are pruned.

The places where this is hard to test are in `PROJECT.json` under `hazards`,
each at its line, with the properties that cover it.

## Plan

What was built, most important behaviour first, and which module uses which:

1. `ScanModel`, `FileScan`, `ScanPromise`, `MCFileScan`: the file scanning
   service, where a decision made by several processes deletes evidence.
   `FileScan` extends `ScanModel` and implements `ScanPromise`.
2. `WatchDeck`, `MCWatchDeck`: the directory watch under both pipelines.
3. `SuricataSubmit`, `SubmitPromise`, `MCSuricata`: the Suricata worker with its
   socket clients and instances; it implements `SubmitPromise`.
4. `DependencyManager`, `InstallerRules`, `InstallerConfig`, `MCInstaller`: the
   installer's store and observers, the rules they are driven by, and what is
   checked before saving. `InstallerConfig` puts the two together.
5. `LogLifecycle`, `MCLogLifecycle`: log uploads, their preparation, filebeat and
   the clean-up, five programs on one volume.
6. `PcapPipeline`, `MCPcapPipeline`: the upload monitor, the publisher and the
   processors. Its watched directories keep what `WatchDeck` shows of them: what
   is quiet is handed over. Its third processor is the worker of
   `SuricataSubmit`, which begins where an announcement is queued.

`FileScanProofs`, `FileScanRecordProofs`, `WatchDeckProofs`,
`SuricataSubmitProofs`, `DependencyManagerProofs`, `InstallerConfigProofs`,
`LogLifecycleProofs` and `PcapPipelineProofs` hold the theorems. Specifications are written for it: no
RECURSIVE operator, one action per operation, invariants that are conjunctions
of named parts.

What could come next: the pending map of the filescan watcher's polling loop, in
front of `FileScan.Observe`; the two pruning selections, as functions against a
reference definition. [What is not modelled](#what-is-not-modelled) says
why the rest is left out.

## File scanning: `ScanModel`, `FileScan`, `ScanPromise`

`ScanModel` translates `filescan/model.py`, without variables. A dictionary is a
function with a varying domain; a result's payload is reduced to what the logger
tells apart (`hit`: a non-empty list of rules; `miss`; `error`). `UpdateScan` is
`FileScan.update`, `Accepts` the value it returns, `Complete` and `Expired` its
properties; `Aged` and `UpdateMap` are `FileScanMap.update`; `Finished` and
`Working` are `get_completed_scans`, which yields what is finished and keeps the
rest. Time enters as the age of a scan when a message is handled, the only
moment the code looks at the clock.

`FileScan` has the processes.

| in the model | in the code |
|---|---|
| `Observe`, `PublishRequest`, `PublishSubmit`, `CrashWatcher` | `handle_file_event`: the file check, the publish of the request, the publish of the submit message with the number of receivers redis returned, and a crash between two of them |
| `Begin`, `OpenFile`, `FinishScan`, `Send` | `Scanner.handle_request` from await to await: the begin message, `resolve_path`, the end of `scan()`, the results and the end in the `finally` clause |
| `StopScanner`, `CancelTask`, `ExitScanner` | `process_requests` on SIGTERM: the tasks are cancelled; a cancelled task enters its `finally` clause, where the next await is cancelled again, so that at most one publish in flight gets through |
| `KillScanner`, `StartScanner` | a kill or a lost connection, and supervisord |
| `Handle` | `watch_pubsub`: one message, `FileScanMap.update`, `get_completed_scans`; nothing else in the process runs between them |
| `Emit` | the record, the start of the cleanup, the publish of `complete` |
| `StartDelete`, `Unlink` | `preservation_cleanup_scan_artifacts`: a token of the limiter, `unlink` in a thread |
| `KillLogger`, `StartLogger` | supervisord's SIGKILL, or an exception in the loop, which cancels the cleanup group despite its shield; a new process. There is no orderly stop: the shielded scope, meant for the cleanups, holds the receive loop as well, so a SIGTERM changes nothing and the process goes on until it is killed |

`task[w][q]` stands for the request channel and for the task of scanner `w`:
`queued` until the scanner has read the request. The notify and the result
channel are one sequence, `inbox`, since the logger reads both through one
connection. A subscriber that is down misses what is published.
`outcome`, `phase`, `counted` and `output` record what was done, for the properties.

*Properties.* `RecordsAreFinal`, `RecordedOnce`, `VerdictsAreFaithful`,
`DeletesAreOnRecord` (invariants), where `RecordedOnce` says that a file is recorded at
most once and, when no process stopped and no time limit forced a record, exactly once
as soon as nothing of its request is under way, with no entry left behind; `FlaggedFilesAreKept`, which fails (see below); `SubmittedIsRecorded`,
`LoggerForgets`, `DroppedFilesGo` (liveness); `KeepsPromise`, the refinement of
`ScanPromise`, which knows only verdicts and files: one verdict per request,
allowed by the policy, and deletion only on a verdict to drop.

*Fairness.* `FairSpec` asks that an event loop runs a task that can run, that a
thread unlinks, that supervisord restarts what ended. It is weak fairness for
each such actor. Events and stops are never forced.

*What the properties leave to the reader*, all visible in the code and in the
model: a scan past a limit is looked at only when a message of another scan
arrives, so with limits an unlucky submit is recorded late; a scanner killed in
the middle of a scan leaves its part open, and without `max_scan_time` (which
the shipped configuration does not set) that scan never completes; a request that no
scanner received expects 0 results and completes at once, so under the policies
`quarantined` and `none` the unscanned file is deleted; and a publish that fails
in the logger takes the other finished scans and the pending cleanups with it.

## Directory watch: `WatchDeck`

`WatchDeck` translates `watch_common.py`. `decks.deck` and `decks.modDeck` are
the handler's two dictionaries, from file to history of operations (`<<>>` for
a file that is not in it), and `decks.before` is the order of the main one.

| in the model | in the code |
|---|---|
| `Stamp` | `on_any_event` up to the lock: the time and `os.path.getsize` |
| `Record`, with `Recorded`, `Extended`, `Promotes`, `Staged`, `Place` | `on_any_event` under the lock, one disjunct per branch |
| `ReadEnded`, `Retracted` | `cancel_read_open` |
| `Sweep`, with `Reached`, `Ready`, `Waits` | one pass of `ProcessFileEventWorker`, which holds the lock all the time, the calls of the processor included |
| `ProcessorFails` | an exception of the processor: the file is out of the deck already; `ContextLockedOrderedDict.__exit__` returns the dictionary, so the exception is swallowed unless the dictionary is empty |
| `Restart`, `Touched` | a new process; the PCAP watcher touches what it finds (`TouchExisting`), the upload monitors do not |
| `Tick` | a second of the clock; ages are counted up to `AssumeClosed`, beyond which the code does not tell them apart |
| `Create` ... `Delete` | external: what users of the directories do, and the events watchdog makes of it; the queue drops an event equal to the last one waiting when `Coalesce` |

What the users do besides writing files and moving them in is chosen at the
start: `habits` is one of the sets in the constant `Manners`, of reading,
touching, replacing and deleting, renaming, renaming files that are open. The
code works under some of them only, and the properties say which. `polling`, the
observer, is chosen among `PollingModes`.
A started process is taken to touch the files in the same step; the sweep reads
the clock in the same step as the decks; an unlucky second between them delays a
file to the next sweep.

*Properties.* `DecksAgree`: no file in both decks, the main deck in one order.
`DueFilesExist`: nothing is due under an old name. `QuietFilesAreReady`: a file
that is not empty and left alone is in the main deck with a history the worker
acts on, whoever read it meanwhile. Its conditions: inotify; users who replace
nothing; no two ends of reads reported as one (`Coalesce` only without readers);
a process that touches what it finds, if it is ever started again.
(An empty file whose attributes change after its close is stuck: `on_any_event`
recognises an attribute change by a size above 0.) `WritersAreLeftAlone`: a file
that is being written is not due. Its conditions: inotify (a polling observer
reports no opens), no restart, and users who neither read nor rename what is
being written. The last three speak of the moment when all events are in.
`BreakIsSafe`: when polling, behind a file that waits all wait.
`EventuallyHandedOver`: liveness under `FairSpec`, which asks that the observer's
thread, the worker and the clock go on and that whoever opened a file closes it.

## Captures: `PcapPipeline`

A capture on its way from `upload/` to the engines, with the upload monitor
(`watch-pcap-uploads-folder.py`), the publisher (`pcap_watcher.py`) and the
processors (`pcap_processor.py`) as processes of their own. A file is known by
the upload its content is from, so a file that took another's place is another
file under the same name. What a process has read of a file stays in `mon.held`
or `pub.held` while the directory goes on changing.

| in the model | in the code |
|---|---|
| `Put` | external: a file appears in `upload/`, in the place of one of the same name if there is one |
| `HandOver`, `Inspect`, `Check` | `file_processor` of the monitor: `isfile`, type and size read from one descriptor, `same_directory_entry`, which removes an entry that is another file by now |
| `Delete`, `Move` | two of the ways of `Way`: not a capture, and a capture, whose move within the volume is a rename |
| `HandOn`, `Copied`, `Unlink`, `CopyFails` | an archive or event log, whose move to the log uploads crosses two mounts: `shutil.move` copies it and then unlinks what has the name by then. A copy that fails leaves a part of it there and the upload where it is, since `file_processor` logs the exception and is done |
| `Unpack`, `Place`, `Remove`, `WriteFails` | `try_decompress_pcap_stream`: into a temporary file, its rename into `processed/`, the unlink of the upload, and the handler of a failed write, which deletes the upload |
| `KillMonitor`, `StartMonitor` | a kill may also break a copy off; a new monitor looks for no files at its start |
| `Find`, `Skip`, `Announce` | `EventWatcher.processFile`: type, query of Arkime's files by name and size, publish. A query that fails leads to an announcement |
| `KillPublisher`, `StartPublisher` | a new publisher touches the files that are there |
| `Subscribe`, `Analyse`, `WorkerDies`, `RestartProcessor` | a processor's subscription, its queue and the run of its tool on whatever the announced name now leads to; an exception in the Zeek worker ends its thread and not the process |
| `Refresh` | external: OpenSearch refreshes its index |

*Properties.* `UploadsAreKept`: a capture or an archive is in `upload/` until it
is where it belongs, wherever the monitor is killed, and as long as an upload is
not settled somebody has yet to act on its name (`UnderWay`). `AnalysedOnce`: no processor
runs twice on a capture. `EveryUploadIsHandled` (liveness): what is uploaded
leaves `upload/`, and a capture that stays in `processed/` is analysed.

*What the properties leave to the reader*, each an exception the property names:

* an upload replaced while it is inspected or unpacked takes the newcomer with
  it: the entry is removed by name (`Shared`);
* a write that fails, for want of space say, deletes the upload (`lost`);
* an archive whose copy is broken off, by a kill or for want of space, is given to
  the log uploads in part and stays in `upload/`, where nobody looks at it again
  (`torn`);
* what is uploaded while the monitor is down stays in `upload/` (`stranded`);
* a processor that is not subscribed when a capture is announced never learns of
  it, and what it has queued dies with it (`missed`); an exception ends the Zeek
  worker for good while its process goes on and queues (`alive`);
* a publisher that is started again relies on an index that may not show yet what
  was analysed (`again`);
* the duplicate check knows names and sizes, and Arkime alone. When a capture takes
  another's name in `processed/` after the other was announced, Arkime may
  read the second in the first's stead and record its name and size; the
  publisher then skips the second, and Zeek is never told of it. In the same way
  Arkime may run on something that is no capture, which took the place of an announced
  one while it was inspected; a later capture of this name and size is then skipped
  although nobody has read it. It takes four uploads of one name, more than the
  run has, and was met in the proof (`Twins`).

*Fairness.* The monitor, the publisher and each processor go on; nobody has to
upload anything, the index need not be refreshed and nothing has to fail. A copy
that goes on ends.

## Submission to Suricata: `SuricataSubmit`, `SubmitPromise`

The thread `suricataFileWorker` of `pcap_processor.py` with a
`SuricataSocketClient` per socket path, and the instances behind the paths
(external). The thread's position is `thread`: which command it is about to send
or waits for, and which call of the client it is part of, since a call for a
command may reconnect, and a connection may run the warm-up and the reload of the
rules before the command is sent again.

| in the model | in the code |
|---|---|
| `Announce`, `Pop`, `NextCapture` | the queue and the loop of the worker; a capture taken off it is not put back |
| `AskSize`, `Submit` | `queue_size` of every client (999 on an error), `process_pcap` of the least busy |
| `Send`, `Receive`, `NoAnswer`, with `Failed`, `Resends` | `_send_command`: retries with a new connection, the socket closed when a late answer could arrive, a command that was sent and changes state not sent again |
| `Connect` | `_connect`: a new socket and the handshake |
| `Stat`, `Acquire`, `EnsureStep`, `WarmUpEnds`, `Deadline` | `_ensure_rules_reloaded` and `_warm_up`: identity of the socket, the lock, the warm-up capture, idle seen twice, the reload, the record |
| `Refresh`, `Visit` | the clients that are made again after failures or for new sockets |
| `Respond`, `ReadOrphan`, `StartRun`, `EndRun`, `Die`, `Boot` | external: an instance reads and answers in order, also what closed connections left in their sockets (`orphans`, a count of each command: a connection leaves one at most, and nobody reads the answer); it may die and is started again |
| `Crash` | the processor is killed and started again |

A timeout, a refusal, a death and a crash are faults; `MaxFaults` bounds them.
`Prompt` says that the handshake of the last attempt to connect, when a running
instance has it, is answered within the five seconds (`LateHandshake`); every other
answer may be late, that to the handshake of an earlier attempt too. The refresh of the clients after 30 seconds is a choice of
the step `NextCapture`. The count of failures that are not of one client is left out: it
is raised only when there is no client, and then the clients are refreshed anyway.

*Properties.* `KeepsPromise` refines `SubmitPromise`: a capture is acted on at
most once and reported once, and one reported as submitted has been acted on.
`AnswersMatch`: what is on a connection is the command the thread waits for.
`RecordIsTrue`: an instance on record has run a capture and reloaded its rules
since it started, though it may die at any point of the warm-up.
`RunWithMetadata`: without faults no capture is run before that.
`EveryCaptureEnds` (liveness): every capture is reported on. The lock is not
reentrant, so this one fails if a command sent under the lock may reconnect.

*Fairness.* The thread runs, deadlines pass, an instance reads, works and is
started again by supervisord.

## Zeek logs: `LogLifecycle`

Uploads of Zeek log archives and Windows event logs, in five programs that share
one volume and no lock but the preparer's directory `LOCKDIR`.

| in the model | in the code |
|---|---|
| `Upload`, `OriginalAges`, `LogAges` | external: users and time |
| `Look`, `Reject`, `Move` | `filebeat-watch-zeeklogs-uploads-folder.py`: type, first free path `name`, `name.1`, ..., and the move |
| `Start`, `Refused`, `Take`, `MoveIn`, `Finish`, with `Place`, `Trap` | `filebeat-process-zeek-folder.sh`: `mkdir` of `LOCKDIR`, the list, a destination under `processed/`, `mv`, the trap |
| `Open`, `Extracted`, `ExtractionFails` | `safe-extract.py`, which removes what it extracted when it fails, and the start and the end of `evtx_to_jsonl.sh` |
| `ConversionStops`, `NothingToConvert` | `evtx_to_jsonl.sh` stops in the middle (an upload of kind `torn`), and nobody looks at how it ended; the event log is gone, and `touch` makes an empty file |
| `Link` | `touch`, and the link in `current/` |
| `Wake`, `Check`, `RemoveLog`, `RemoveOriginal`, `Tidy` | `clean-processed-folder.py`: the registry read once, then file by file age and open files, then dead links |
| `PickUp`, `CloseEarly`, `ReadAll`, `Forget` | external: filebeat |
| `Kill`, `Replace` | the preparer is killed; the container is replaced, and with it `/tmp` |

An archive stands for its one log. A file's age is kept as "past the limit for
its kind" as the cleaner measures it. Archives get there (12 hours) once the
preparer is done with them and logs (6 hours) once filebeat has picked them up,
since both are touched or new and those steps take minutes; the exception is
explored: an upload may come with an old modification time, which `mv` keeps.
The cleaner may then remove an archive between its move into `processed/` and
its extraction, though docs/malcolm-config.md:383 speaks of files
"already-processed"; `ArchivesAreRead` leaves such uploads out. Moves
within the volume are renames. Paths stand for names: the time in a destination is
that of one upload only, to the nanosecond. A run of the cleaner that finds
nothing is left out. After a kill of the preparer `LOCKDIR` stays, and nothing is
prepared until the container is replaced; `ArchivesAreRead` says so.

*Properties.* `OnePreparer`, `NothingIsOverwritten`, `NoPartIsLinked` (filebeat is
never given what is still being written, nor what is left of an archive whose
extraction failed or was killed; it is given the part that a conversion leaves when
it stops, since the script does not look at its status and links what there is),
`ReadBeforeRemoved` (a registry read once, at the start, is enough; and, unless
somebody was killed, what came recent and intact is waiting in a directory, in the
preparer's hands, linked with its whole log, or read: no place on the way is one it
can get lost in), and `ArchivesAreRead` (liveness).

*Fairness.* cron starts a preparer every minute and each process goes on; the
watcher takes what is in `upload/`; filebeat picks up and reads. The cleaner need
not run.

## The installer's configuration: `DependencyManager`, `InstallerRules`, `InstallerConfig`

`DependencyManager` is the store (`malcolm_config.py`) and the observers
(`dependency_manager.py`) for any items and rules. An observer called for one item
sets or hides others, whose observers are called in turn: nested Python calls,
kept as the stack `calls` of the calls still to be made. One step makes one.
`Register` installs the rules one at a time and evaluates each, `Show`, `Hide` and
`ComputeDefault` are the three observers, `Preset` what `install.py` sets first,
`Import` the application of one value of the `.env` files, `Choose` the user at
the menu, `SaveAndRestart` validation, save and a later start.

`InstallerRules` gives the constants their values: 129 items, the 122 visibility
rules and 41 value rules of `dependencies.py` (17 of them `only_if_unmodified`),
their order of registration, which items each `.env` file keeps, and what a variable says
of an item. `EnvMapper` meets the files with an `os.walk` nobody sorts
(`config_env_mapper.py:378`), so values are loaded in the order of some directory:
`LoadOrders` is a set of orders (`MetIn` computes one from a list of the files), a load takes
any of them. Values are reduced to what a
rule, a check or a transform tells apart: an address is the host it names, with
"local" for a service of this installation; an item nothing reads is `"-"`.
The user may leave the addresses of Logstash and of WISE blank, those of OpenSearch
and of the dashboards not (`accept_blank`).
`InstallerConfig` adds `validate_required`. One of its details is easily taken
for a slip of the model: a blank address is reported under its value, not its key
(`validation.py:106`).

The rules are long, and a slip in a row would pass TLC. They were therefore
compared with the program: on 82 random sequences of menu choices the values and
the visible items of the Python store and of the module agree after every choice, and on 290
random configurations so do the results of saving and loading, with the files met in one order.

*Properties.* For any rules: `VisibleIsCurrent` and `DefaultsAreCurrent`, when the
cascade has ended, what is shown, and what the user left alone and no `.env` file
gave a value, is what the rules say of the values as they now are, although rules were evaluated in the middle on
values that changed again; `CascadeEnds`. For the rules of Malcolm:
`OneCaptureEngine` (three rules that switch each other off leave exactly one on),
`HiddenServicesAreLocal`, `ClosedPortsAreClosed`, `AddressesAreLoaded`; `SavedIsLoaded` fails
(see below). `AddressesAreLoaded` says when loading does give back what was saved, whatever
order the files are in: the addresses of Logstash, OpenSearch and the dashboards of a
Malcolm, and of a configuration whose addresses all name one host. It is not true of a
sensor whose services are on two hosts: one address
comes back as the default of another, the overwriting of `SavedIsLoaded`.

The address of WISE is in neither property once a configuration was loaded, because there the order
decides. In alphabetical order a Malcolm with a remote store that captures with Arkime
loads `arkime-live.env` before `opensearch.env`: the rule of `liveArkime` switches it off while the
store is still the local one, and the WISE address loaded next is overwritten, or stays that of another
host although the menu hides it. With `opensearch.env` first neither happens. No
document says what the code promises here; `SavedIsLoaded` covers it.

*Fairness.* The installer is one thread that makes the calls it has to make. A
user does nothing he does not want to.

## Runs

| run | instance | shows |
|---|---|---|
| `filescan_faults` | 1 request, 2 scanners, both time limits 1 and ages to 2, 1 stop or kill anywhere, inbox of 2 | the safety properties |
| `filescan_shared` | 2 requests for 1 file, 1 scanner, 1 stop, inbox of 2, no time | the refinement where one request may delete the file under the other; cleanups end; what is submitted is recorded and forgotten |
| `filescan_flagged` | 2 requests for 1 file | violation, see below |
| `watch_any` | 2 files, both observers, users that replace and rename or that read (2 at a time), 3 operations, 1 restart or failure, no event merged | decks agree, no stale names, the break is safe when polling, readers leave nothing behind |
| `watch_live` | 2 files, renames and touches, 3 operations, 1 restart or failure, equal events merged | writers are left alone, everything is handed over |
| `watch_poll_start` | 1 file, polling, 2 operations | violation, see below |
| `pcap_faults` | 2 uploads, the first a capture or packed, the second of 8 kinds (same name, name it is unpacked to, or own; same or other size), 1 kill, failed write or copy, or restart | nothing lost, nothing analysed twice, everything handled |
| `suricata_faults` | 1 instance, 2 captures, 3 tries, 2 connects, 2 faults, `Prompt` | the refinement, answers, record, metadata, termination |
| `suricata_late` | the same with `Prompt` FALSE | violation, see below |
| `logs_shared` | 2 uploads of 1 name, good, damaged, event log, event log whose conversion stops, or unsupported, new or old, 2 preparers, 1 numeric segment, 1 kill, replacement or early close | all properties of `LogLifecycle` |
| `installer_menu` | all items and rules, image of the ISO, 2 remote hosts, 9 groups of items a user edits without limit; 1 save and load of what the two of the store and the dashboards made, in 12 orders of the files: all orders of the store's, the profile's and Logstash's, with that of the dashboards before or behind, the others last | all properties but `SavedIsLoaded` |
| `installer_reload` | the two groups that save, the same orders | violation, see below |

*Why the bounds are enough.* Requests of file scanning interact only through the
file they share, the limiter and the inbox, so two of them show every
interaction; two scanners show one that ended and one that has not; an inbox of
two messages is enough, as the order of messages is that of their publishing
whatever its length. One stop reaches every point of every process, and ages up
to one above the limits every outcome of the comparisons. Two requests with two
scanners *and* faults are beyond TLC; the theorems are for any number.
`filescan_shared` uses ages of 0: with time passing `SubmittedIsRecorded` is not
promised, as said above. In the directory watch two files show the order of the
deck and renames; a history is judged by its last operation and by which kinds it
holds, which three operations by the users, with their closes free, produce in
every order; sizes 0 and 1 show a file that is gone or empty; one second of
`AssumeClosed` separates a recent file from an old one. In the pipeline of
captures and in the log volume files interact by their names, two at a time; the
pipeline's safety also passed with two faults (2.3 million states). A second
capture shows what a late or repeated command does to the next; two faults show
one in the recovery from the other, and three tries outlast them. In the installer each group holds
the items whose rules feed each other, so that what a user outside it could add is
a value no rule of the group reads.

CHECK_DEADLOCK is off where the users may stop: all but file scanning, whose state
always allows another step.

The configurations of a module fire every action between them. Operators marked
`(mutant)` are plausible bugs of the definition that follows them; they are used
by no action. Replaced one at a time, each makes its property fail.

## Where the code and its documents disagree

Each is a run that TLC must find violated; `PROJECT.json` quotes the text.

* `filescan_flagged`: a file flagged by the scan of one request is deleted by
  the cleanup of a second request for the same path whose scan failed
  (docs/file-scanning.md: "preserve only files ... that are flagged").
* `watch_poll_start`: when polling, the touch of a file found at the start is
  one modification of a file the handler does not know, which is staged for ever
  ("touch" them so that they will be notified on).
* `suricata_late`: when the handshake of the last attempt to connect takes too
  long, its socket is left open, and its late answer is taken for that of the next
  command ("a late reply could still arrive, so close the socket").
* `installer_reload`: a sensor whose OpenSearch is not on the host of its Logstash
  is loaded with another address than was saved: loading is setting values one by
  one, each of which calls the observers ("Full-config .env roundtrip tests").

The limits of the watch that the other runs stay within, and that TLC shows when
their configuration is widened:

* `BreakIsSafe` fails with inotify: an open renews a timestamp and does not move
  the file to the end of the deck, whose order the break relies on. Due files
  behind it wait longer than they should; they are not lost (`watch_live`).
* `QuietFilesAreReady` fails with readers and `Coalesce`: two ends of reads that
  arrive as one leave an open behind, and the file moved in is not processed. It
  fails with the habit `replace`: a file replaced by a move between its close and
  the next sweep has the history closed, created.
* `WritersAreLeftAlone` fails with readers: a read that spans the close and the
  second open of a writer takes the writer's open back, as the events do not say
  whose it is (shared/tests/test_watch_common_read_events.py:192 tests the case
  without the close). It fails with the habit `rename open`: a file renamed while
  it is written has only the move in its history, like one moved in; and with
  `MaxStops = 1` and `TouchExisting`: the touch at the start closes a file that
  somebody else is writing, and a close is processed at once.

## Proofs

`FileScanProofs` proves, for all values of the constants allowed by
`ScanModelAssumption` and `FileScanAssumption` (any finite sets of requests and
scanners, any files, policy, limits and outcomes):

* `TypeCorrect`: `Spec => []TypeOK`;
* `RecordsFinal`: `Spec => []RecordsAreFinal`, the property that the cleanup
  relies on when it deletes a file;
* `Invariance`: the inductive invariant `IInv` they follow from.

`RecordsAreFinal` is not inductive: it speaks of records, and a record is as good
as the messages it was made from. `IInv` therefore follows a claim from its
source. `CountInv`: the number announced for a request is that of its
receivers, and no scanner receives it later. `MessageOK`: a submit on its way
carries this number, and a begin, result or end was published by a task that
has come so far. `ScanOK`: the same is true of what an entry of the logger's map
says. `EmittingInv` and `OutputInv`: what is about to be written and what is
written is such an entry and was finished. A record in time has then as many
parts as receivers, all ended; as parts are of receivers only, they are all the
receivers. `SentInv`, that a task has a message left to publish while it is
sending, makes types correct. The lemmas go the same way: one per group of actions that
changes one of these sets of variables (`SendStep`, `HandleStep`,
`EmitStep`), and steps that leave them alone are handled together
(`StableStep`). What they need of the operators of `ScanModel` is at the top.

`FileScanRecordProofs` goes on from there, under the same assumptions, to what a
record is worth:

* `RecordsOnce` (`[]RecordedOnce`). An entry can be written, forgotten and made
  anew by a late message, so that the count of records says nothing; the file of a
  request is what cannot come twice. `FileOnceInv`: the submit that carries it is
  published once, and it is on its way, in the map, about to be written or on
  record, one of the four only.
  The other half, that a settled request is on record, is the safety core of
  `SubmittedIsRecorded` and `LoggerForgets`: it says that the logger never waits for
  something that will not come. `WaitInv`: no entry of the map has heard all
  that it waits for, so what is left there waits for a message. `RestInv`: a
  request whose scan ended in its own time has no message left that could make
  a second entry. `CalmInv`: while no process has stopped, the logger is up and
  each thing published is on its way, noted, about to be written or on record (`FileKept` for
  the submit, `TaskKept` for what a scanner says). With no message left, an entry
  in the map would have its submit and all its ends, against `WaitInv`.
* `DeletesOnRecord` (`[]DeletesAreOnRecord`), from `CleanupInv`: a cleanup that
  is to delete, or has deleted, has a record behind it that lets the file go.
* `ImplementsPromise` (`KeepsPromise`): the two together are the refinement of
  `ScanPromise`. Writing a record with a file is the decision, which
  `FileOnceInv` makes the only one; unlinking is the deletion; every other step
  stutters.
* `VerdictsFaithful` (`[]VerdictsAreFaithful`). A part of a scan that is done may
  lack results if the logger was down, or if it gave the scan up and made a new
  entry in the middle. `PairInv` says, for a scanner and a request, why such a
  part is never `done`: a begin comes first and once and the end last
  (`OrderOK`); from the begin on, a finding is noted or on its way exactly if it
  was published (`TallyOK`), and an end whose begin the entry has not seen is not
  taken. `DownInv`, that a logger that is not up has neither messages nor
  a map, says what a restart loses: everything at once.

`WatchDeckProofs` proves, for any finite set of files, any habits of the users
and any bounds (`WatchDeckAssumption`):

* `TypeCorrect`: `Spec => []TypeOK`;
* `DecksAlwaysAgree`: `Spec => []DecksAgree`, no file is in both decks and the
  main deck is in one order of the files in it, which is what the worker relies
  on when it stops at the first file that has to wait;
* `DueFilesAlwaysExist` (`[]DueFilesExist`), `BreakIsAlwaysSafe`
  (`[]BreakIsSafe`), `WritersAreAlwaysLeftAlone` (`[]WritersAreLeftAlone`) and
  `QuietFilesAlwaysGetReady` (`[]QuietFilesAreReady`): every safety property of
  the module.

The first two together are inductive, and the proof is about the operations on the
decks more than about the steps. Each operation makes agreeing decks of agreeing
decks: taking files out keeps the order of the others (`WithoutOK`, for the
worker, a deletion and the source of a move); moving a file to an end makes the
order one of the files there are (`PlacedOK`); what only changes histories keeps
the order if no history becomes empty or stops being so (`SameOrder`).
`RecordedOK` and `ReadEndedOK` put these together along the branches of
`on_any_event` and `cancel_read_open`. Histories stay sequences of operations
because a history is only replaced at its end, extended, or shortened by one
open. The users of the directory do not touch the decks (`UserQueue`) and the
watcher does not touch the files (`OtherSteps`), so the two halves of the state
are proved apart and put together in `NextInv`.

The other four relate the decks to what the users did, and between the two are
the events on their way. These are treated as one list, `pending`: the event in
hand and those in the queue. Users append to it, a repeated event may be dropped
at its end, and `Record` takes the first one off (`EnqueueGrows`, `RecordIs`). Each
invariant says where in the list the fact is, or that the decks have it already:

* `GoneFilesLeave`: of a file that is gone, an event that makes the handler
  forget it (its deletion, or a move away from it) comes behind every event that
  makes the handler know it;
* `PolledEvents` and `NewestAreLast`: a polling observer reports no opens and
  closes, so every event recorded puts its file at the end of the main deck; the
  order of the deck is that of the ages, and the event in hand is not older than
  what is recorded. The clock ages all alike, which keeps the order although ages
  are counted up to a bound only (`OlderLast`);
* `Unread` and `OpensAreKnown`: nobody reads, so no open is ever taken back, and
  of a file with a writer the open is either recorded, with no conclusion after it,
  or on its way with none behind it;
* `ReadersStay` and `ConclusionsAreComing`: of a file that is left alone, the
  close, creation or move that makes it complete is recorded or on its way, and
  behind it come only opens of readers and their ends. An end takes back the
  latest open, whoever made it, since events do not say whose they are; so the
  invariant follows no open but counts them: after each event the opens
  recorded behind the conclusion are no more than the readers there were then.

`SuricataSubmitProofs` proves, for any sockets, captures, tries and faults
(`SuricataSubmitAssumption`) and with no condition on what is late:

* `Types`, from `CallInv`: `Shape` says how the phase of the thread, its command and
  the lock go together, so that every end of a call (`Ended`, cited by every step
  that can end one) leaves the thread where the next step can go on;
* `NeverTwice`: no capture is run twice, and none reported on is reported on again,
  from `OnceInv`. There is one command for a capture, and it is in one place: while
  the capture may still be sent there is none (`Fresh`); then it is on the wire,
  unread on one closed connection (`Pending`), or acted on. An answer that is one to
  this command (`Confirmed`) says that it was acted on;
* `MetadataHolds` (`[]RunWithMetadata`), from `Calm`: without faults no connection
  is closed, and a client exists only for a warmed-up instance (`Undisturbed`);
* `CallsEnd`, what `EveryCaptureEnds` rests on. A call may send, wait, connect
  again and warm up, and each of these has a limit that lies within another:
  `Left` measures the steps left before the next try, and every step of the thread
  ends the call, uses up a try or lowers it (`StepsOn`). The one exception is the
  loop of the warm-up, which goes on until its deadline;
* `NeverStands` (`NoStandstill`): the lock is never asked for while it is held, and
  the thread waits for an answer only while one is there, the connection is gone, or
  a running instance has commands to read (`Heard`, `Alive`). It needs no fairness;
  that time passes and that an instance reads what it has is what the liveness run
  adds. No run lists these two, as `EveryCaptureEnds` is what they are for.

Whose answer the thread is given is another matter: one step of the code, the last
attempt to connect whose handshake is late, leaves an answer that belongs to
nobody (the run `suricata_late`). Up to the first such step, `[][InTime]_vars`, with
every other late answer allowed, it is proved that

* `AnswersAreOwn` (`[]AnswersMatch`), from `BaseInv`: a connection is quiet, or the
  thread waits on it and it carries the command or its answer (`ConnInv`). Every
  other end of a call that leaves something on a connection closes it;
* `ImplementsPromise` (`KeepsPromise`): beyond `NeverTwice`, a report of success is
  true, since the answer it rests on is that to the submission (`Vouches` is the one
  kind of step that could report without it);
* `RecordHolds` (`[]RecordIsTrue`), from `RecordInv`. What the thread learns under the
  lock concerns the instance whose identity it read: a capture is
  queued, then under way or over, then over, and only then the rules are reloaded
  (`WarmOK`). An instance that died and was started again is not that one any more,
  so what was learnt of the old one says nothing, and is not put on record for
  the new one; an instance never forgets (`Grows`).

`PromptIsInTime` says that where `Prompt` holds every behaviour is such, so these
are what the run `suricata_faults` checks. A theorem without the condition would be
false: the finding is its counterexample, and that step is the only one.

`DependencyManagerProofs` proves, for any items, any finite set of rules and any
order of registration (`RulesAssumption`, `OrderAssumption`: a rule observes the
items it reads and no others, in the order of registration, reads not the item it
sets, and no item is its own parent), and any user:

* `Types`: `Spec => []TypeOK`;
* `MenuShowsTheRules`: `Spec => []VisibleIsCurrent`;
* `MenuHasTheDefaults`: `Spec => []DefaultsAreCurrent`.

Both properties speak of the moment when no call is left to be made. In the
middle of a cascade they are false, and what is true instead is the heart of
`IInv`: an item is as its rule says *or the call that will make it so is due*
(`ShownOrDue`, `SetOrDue`). A change of an item puts the calls of its observers in
front, and every rule that reads the item is among them. The subtle call is
`Hide`, which hides the children of a hidden item without asking their rules; it
is right only because its parent is still hidden when it is made. `HidesFirst` says so:
the hides that are due come before every other call, so that nothing can show
the parent in between. `PhaseOK` says that the menu opens after all rules are
registered. That cascades end depends on the rules and is checked, not proved.
`BoundInductive` adds, for the next module, what is true of value rules no
choice of the user stops, those with `only_if_unmodified=False` (`Bound`): the item is as its
rule says, or the rule is due, or the item is one the menu shows. The user can set
only what is shown, and a change that hides the item makes its rule due.

`InstallerConfigProofs` proves the properties of Malcolm's own rules. `TheRules`
and `TheInstaller` say that the parameters of `DependencyManager` are the
operators of `InstallerRules` and `InstallerConfig`, as the configurations of TLC
substitute them; they are hypotheses, as a constant operator can be given no value in
the module itself. What a proof needs of the tables is in `RowsAssumption` (dependencies,
parents, first values), `KeysAssumption` (which part of a table a key is in) and
`FilesAssumption` (what the files keep), which TLC evaluates for the real
tables in both installer runs. Any remote hosts, any menus, any number of saves
and any orders of the files (`LoadAssumption` asks only that each has every kept item once) are allowed:

* `PortsCloseAgain` (`[]ClosedPortsAreClosed`), from `BoundInductive`: with the
  ports closed none of the switches is shown, so each is as its rule says;
* `OneEngineCaptures` (`[]OneCaptureEngine`). That the rules of three programs are
  obeyed is not enough: tcpdump on and netsniff-ng off obeys them as well.
  `NetsniffFirst` says why this does not happen: tcpdump is off, and
  whenever its rule is due, netsniff-ng is as its own rule says or its rule is due
  before. It is due before because rules are called in the order in which they were registered and both
  read the same items, and a rule of netsniff-ng that changes nothing
  leaves it as ruled. With the two rows of `dependencies.py` swapped it would
  be tcpdump that captures;
* `ServicesComeHome` (`[]HiddenServicesAreLocal`), for loaded configurations too. While values
  are loaded they are set without regard to rules, and a rule that ran before is not
  called again, so it matters what was saved and what is still to be
  loaded. `FilesAreValid`: the files hold what `validate_required` accepted.
  `ProfileLoaded` and `StoreLoaded`: the profile is the first one until the saved one is loaded, and
  the store of a Malcolm, once loaded, stays. An address is as its rule says, or it is shown, or
  what shows it or makes its rule void is still to be loaded (`AwaitProfile`, `AwaitStore`,
  `AwaitElastic` in `ServicesRuled`); when the menu opens nothing is. The address of the
  dashboards is set by a rule that reads less than
  what shows it, and may lag behind as long as the rule of the store is due (`StoreFollows`);
* `AddressesComeBack` (`[]AddressesAreLoaded`), on top of the lemmas of the last. Of a Malcolm
  an address once loaded stays (`MalcolmLoaded`): the rules that copy a host's address never
  write, as there is no such host, and the others write what was saved (`AddressesDue` says when they are
  due). A sensor is a Malcolm until its profile is loaded. What was loaded of its Logstash or
  its store stays, or is overwritten while the host is known and the profile, or a rule
  that is due, will set it to that host (`LogstashLoaded`, `StoreKept`), which is the one
  everything saved names.

`LogLifecycleProofs` proves, for any uploads of any names, any number of
processes and any bounds (`LogLifecycleAssumption`):

* `Types`, `OneAtATime` (`[]OnePreparer`), `NoneIsOverwritten`
  (`[]NothingIsOverwritten`) from `IInv == TypeOK /\ Shape /\ Safe`;
* `NoPartIsGiven` (`[]NoPartIsLinked`) from `IInv` and `Given`;
* `ReadFirst` (`[]ReadBeforeRemoved`) from these and `Road`.

Nothing is overwritten because what the watcher and the preparer checked is still so
when they move. `MoverReady` and `TakenReady` say this of a path checked earlier;
for the preparer it needs `OnePreparer`, as another one could take the same place,
and `Stamped`, that a place with a timestamp belongs to the upload of this
timestamp. `Given` is about the logs: an upload that has a log or a link has left
every directory it could be taken from (`Past`), so no process gets it in hand
again; one in hand is not linked yet, and nobody writes its log any more at the link
(`Hand`), so what is linked is whole or empty unless a conversion stopped
(`PartsAreTorn`); a log past its age was never linked or has been picked up (`Aged`);
and what the cleaner has put on its list from the registry at its start will not
be linked any more, or was read to its end (`Doomed`), which is what makes a
registry that is stale when it is used harmless. `Road` is about what is due to be
read. An archive that did not come old is old, or on the cleaner's list, only once
the preparer is done with it, and files go one way, so it is never in hand again
(`Young`); what is in hand is therefore still there to be extracted, and its log is
whole, unless a conversion stops, and not the empty one made for an event log that is
gone (`Ready`); and so it
is, at every step, in a directory it is taken from, in hand, linked or read
(`AllWell`). This is the safety core of `ArchivesAreRead`.

`PcapPipelineProofs` proves, for any uploads of any names, kinds and sizes and any number of
faults (`PcapPipelineAssumption`):

* `Types`, from `IInv == TypeOK /\ Places /\ Held /\ Told /\ OnItsWay`: files are
  under the names their uploads allow (`Places`), the monitor goes the way of the
  kind it has inspected, and it removes an upload it has unpacked or handed on when
  the copy is in its place (`Held`);
* `Kept` (`[]UploadsAreKept`), from `IInv` and `TellInv`. What is in `upload/` and
  neither stranded nor the rest of a broken copy is known to the watch or held by the monitor (`Watched`). A capture that
  is where it belongs was found, is being announced, was told to each
  processor, or has a twin (`TellsAll`). The step this rests on is `Skip`: the index
  answers for Zeek too, though only Arkime writes it. What Arkime was told
  of Zeek was told of or has missed (`TellsBoth`), and a capture is not filed once
  more after that, which would make it forget (`FiledLast`), except when the
  monitor was killed with the upload still there. This is the safety core of
  `EveryUploadIsHandled`;
* `RunAtMostOnce` (`[]AnalysedOnce`), from `IInv` and `Once`. A capture of names
  of its own has one chance to be filed, to be announced and to be run: while it
  may still be filed nobody is to announce it, while it may be announced it is
  queued nowhere, while it is queued it was not run, and each chance is in one
  place only (`FiledOnce`, `ToldOnce`, `RunOnce`). A kill of the monitor between
  the move of the copy and the removal of the upload does not give a second
  chance, since a new monitor does not look for files; the mutant in which it
  does breaks the property.

Every safety property that the code has is proved, `AnswersMatch`, `RecordIsTrue`
and `KeepsPromise` up to the step that refutes the first of them (the four it does
not have are the findings). Model-checked only are the liveness properties,
`CascadeEnds` among them, since this prover has no rules for fairness and ENABLED
(that no step loses what must eventually be handled, the safety core of such a
property, is proved for `EveryUploadIsHandled` in `UploadsAreKept`, for
`ArchivesAreRead` in `ReadBeforeRemoved`, for the books of the file scans in
`RecordedOnce`, and for `EveryCaptureEnds`, the measure with it, in `CallsEnd` and
`NeverStands`); what would take induction over data, which the provers at hand
cannot do, stays with TLC too.

## What is not modelled

Every component is listed in `PROJECT.json` with its status and the reason. In short:

* of modelled components: what a scanner computes, log formats, rotation of the
  record stream; tags in file names and the limits on archives; the
  live, Suricata and file scanning directories of the clean-up, and empty
  directories; the temporary file a killed upload monitor leaves behind, symbolic
  links and archives of one name in the log uploads' folder; retention of
  captures by Arkime; statistics of Suricata nothing asks for; the reading of an
  existing compose file, the search of the menu and the install steps;
* the filescan watcher's map of pending files and the redis list and channel that
  feed it: when a file has settled is an input of `FileScan`. A file modified
  while the loop is suspended in a publish is therefore not in the models;
* `filescan/aio.py`'s worker pool and the list and channel watchers of
  `redis.py`: no process of the service uses them in its protocol;
* pruning of capture files and indices: one selection per call against what the disk or the
  index reports, without state between calls (the sizes of indices are rounded
  before they are summed, which only a model of the arithmetic would show);
* the NetBox enrichment's caches: those of an external library, and what a miss
  creates is decided by NetBox;
* Logstash pipelines, ECS and Strelka adapters, REST API, dashboards set-up,
  configuration generators, threat feeds, control scripts: stateless translations
  or one-shot scripts around other programs, most of the repository's lines;
* authentication helpers, container images, documentation: no behaviour of the
  kind modelled here.
