# AMSD in TLA+

AMSD (Avalon Management System Daemon) polls a farm of mining controllers, keeps what they
answer in SQLite databases and serves a JSON API over a Unix socket: status pages, history,
reports, a script runner over SSH, a network scanner, user and configuration operations.

This directory models the parts of it in which several threads share state or in which the
process may die half way. TLC checks the models on small instances; TLAPS proves the
properties that matter most for every value of the constants. `PROJECT.json` lists
components, runs, mutants, hazards, theorems and, for every definition, the source lines it
stands for.

## The system

| Part | State | Operations | Hard behaviour |
|---|---|---|---|
| Data collector (`DataProcessing/Collector.cpp`, `CgMinerAPI.cpp`, `Issue.cpp`, run by `Services/DataCollector.cpp` every 600 s) | four open transactions, an event base with four connections per controller, the issue and extension databases | `Collect`, `event_cb`, `Process` | events in any order, batches, failures of some of the four connections, a crash between two COMMITs |
| NVRAM page (`Runtime/RuntimeData.cpp`) | `CurrentDataCollection`, `LastDataCollection`, in a file-backed mapping | get, set | survives a crash; readers rely on its order with the COMMITs |
| Farm databases (`Runtime/DataBase.cpp`) | summary, module, module_ext, device, pool, issue, controller | created at start, WAL mode | one transaction per database, no transaction over two |
| Farm readers (`Operations/status.cpp`, `history.cpp`, `poool.cpp` "info", `glimpse.cpp`, `farmap.cpp`, `issues.cpp`, `DataProcessing/Report.cpp`) | a timestamp per request or per query | SELECT ... WHERE Time = ? | several queries per answer, a collection published in between |
| Script store (`Operations/supertac.cpp`) | JSON array in memory, file, two locks | get, add, del, exec | lazy loading and creation by the first requests, saving script by script outside the memory lock, a content used after the lock is given back |
| Super RTAC sessions (`supertac.cpp`, `poool.cpp` "modify", `ssh.cpp`) | task list and its lock, two threads per session | exec, tasks, clear | deleting a session whose thread still runs |
| Controller table (`Operations/controller.cpp`) | table, lock | list, add, del, wipe | exceptions while the lock is held |
| Controller scanner (`Operations/ctl_scanner.cpp`) | globals, one lock handed to a thread | scan, status, result | error returns with the lock held, unlocked reads |
| Configuration (`Runtime/Config.cpp`, `Operations/config.cpp`) | map, file, lock | get, set | the lock is taken twice |
| API server (`Services/API_*.cpp`, `Operations/Operations.cpp`), start (`amsd.cpp`), users (`User/`) | one thread per connection, token | accept, dispatch, answer; load, create, start | requests that never answer, a start cut by a crash |
| Module text parser (`DataProcessing/CrapNemesis.cpp`) | key, value and list buffers | one character at a time | texts cut anywhere, buffers that outlive an item |

Mail, HTML, the CLI, the CGI, the block chain client and single-shot forwarding operations
(firmware version, raw API, ascset) are sequential I/O and are not modelled.

How the parts interact: the collector and the readers share only the databases and the two
timestamps, with no lock. The API threads share the script store, the task list, the scanner
and the configuration with each other, each part under locks of its own. `poool` "modify" and
`exec_script` create sessions in the same list.

What makes each part correct:

* collector and readers: a timestamp that is published stands for a complete collection that
  never changes again; no node drops out unnoticed or is shown both alive and unreachable; an
  answer speaks of one collection;
* script store: what was acknowledged is on file; names are unique; nobody sees half an
  update; every request is answered;
* sessions: they end, run their own script, are deleted only when over, and are reported
  truthfully;
* controller table: an edit takes effect as a whole or not at all and its answer says which,
  whatever raises or dies on the way; the table is there when the server is up;
* scanner and configuration: locks are given back, counters add up, requests are answered;
* parser: it returns the items of the text, nothing of a text cut short.

## Modules

`FarmArchive` is the promise to readers: rows under the published timestamp and the earlier
ones are frozen, timestamps grow. `CommitLog` is the collector as other threads see it: a
round begins, databases are committed one by one, the round is published or abandoned. It
implements `FarmArchive` (property `KeepsArchive`). `Collector` is the detailed model and
implements `CommitLog` (property `ImplementsCommitLog`): `published` is `last`, `archive` is
computed from the committed rows, `reached` is the cursor of the commit loop while a
collection runs. `FarmReaders` extends `CommitLog` with the reading operations, so the
readers are checked against exactly the interface the collector was shown to implement.
`PublishedIsFrozen` states the promise of `FarmArchive` of the detailed collector directly.

### Collector

The thread's program counter `pc` follows `Collect()`: `scan` is the loop over the controller
SELECT, `dispatch` and `drain` are the two `event_base_dispatch` calls, `commit` the loop
over DBConnections. `OpenController(c)` is one turn of the loop: any set `up` of the four
connect calls may succeed, and the API number advances past those only, as the code's
`continue` makes it (a node's EStats may be sent on the connection of the device database,
where it then raises or is lost: `Outcomes`). `Connected`, `Reply` and `Fails` are the
branches of `event_cb`. `stored` and `txn` are the committed and uncommitted rows by rowid,
`ext` the extension rows, which are committed one by one. `Crash` may come between any two steps; what
is committed and the NVRAM page stay. The order in which the SELECT returns controllers is left open, and a
controller that is added while it runs is visited by the next collection.

History variables: `members` (who was to be visited), `excused` (who gave no reason to write
anything), and the time and controller of an extension row.

Assumed of libraries: libevent delivers one closing event per connection; SQLite hands out
rowids in order; in WAL mode readers do not make COMMIT fail. A SQLite error such as a full
disk is not modelled. Two collections never start within one second (`ClockAssumption`): the
Tasker waits 600 s, and a process that comes back is not collecting within the second it died in.

### FarmReaders

A query takes its timestamp in one step and its rows in another. `status`, `history`, `farmap`
and `issues` take one timestamp for all of their threads; `poool` takes one in each thread, `report`
one per query. An SQLite read is one snapshot. What is computed from the rows is left out. The second
thread of `farmap` and of `issues` asks for table `issue` in the database of the modules
(`farmap.cpp` 74-76, `issues.cpp` 124-126), which raises, so it reads nothing: nodes that were not
reached are never shown.

### ScriptStore

One `pc` per connection thread follows `supertac()`: `load_scripts()`, the array created outside any
lock, then one operation. The request is looked at only then (`Parse`), as in the code.

Loading is four steps: the check (`Call`, 35), the lock and the second check (38-40), the reading of the file,
and the assignment of what it held (`LoadEnd`, 41). `Create` (58) assigns the same pointer under no
lock, so both may replace an array that another request has made and added to: by the NULL of a
missing file, or by an empty array. After line 41 an operation may so find no array at all, where
appending and searching do nothing and saving truncates the file and fails (`SaveNothing`).

`add_script` is three steps before it saves (lock, find and delete the old content, set the content and
unlock), and saving is a walk: `SaveBegin` truncates the file and takes the length of the array, as
jansson's `json_dump_file` does, `SaveScript` writes the next script of the array as it is by then,
`SaveEnd` leaves a whole file, `SaveFails` one cut short, when the array has become shorter than it
was. Nothing but the file lock is held meanwhile, so adds, updates and deletions come between any two
scripts. A walk goes on through an array that is replaced under it (`walk.lost`, `walk.from`; the
code leaks it). What is undefined there, a script freed while it is written, is an instance of `Crash`.

`exec_script` is three steps: it takes the shared lock, finds the script and gives the lock back
with a pointer to the content (`uses`), and makes the sessions from it once the lock of the task
list is free (`ExecScript`; the sessions are module RTACSessions).

History variables: `wanted`, the content last added under a name; `edited`, who has a pointer to a script
that another request has since added anew or deleted (what these run is freed memory, the property is
about all the others); `shuffled`, whether a script was removed while the array was written, on file,
and in memory once such a file is loaded; `excuse`, that scripts may be lost: an array was replaced
(41, 58), or the process died with the file cut short, half updated or shuffled. The properties name
these exceptions because the code loses scripts there: with any of them taken away TLC finds a property
violated. What they say is that there is no other way to lose one.

Left out: what get_scripts and get_script return (get_script tests the type of the wrong
variable at line 107 and so never finds a script), requests that are rejected for their arguments and the
operations on tasks, which do not touch the array once it is there (get_script stands for them as far as
they load it), and full disks.

### RTACSessions

`exec[s]` and `ssh[s]` are the program counters of a session's two threads, `status[s]` the
field clear_tasks and tasks read without a lock. The list lock is the set of threads in
`creating`, `listing`, `clearing`. A deleted session keeps its last state, so that what its
threads still do is visible; writing to freed memory may also end the process, after which
nothing of this module is left. `shell`, `disk` and `ran` model the node: the command writes the script to a file
whose name holds the UUID and runs that file; the UUID is constant in the code. The known-hosts
branch of Connector is left out: no caller sets KnownHostsPath.

`TaskList` is what tasks and clear_tasks promise of a session: listed, gathering output, over, cleared,
in this order, and no output once it is over. One part of this is an assumption on the node, `NodeSends`:
that it sends no output for a command it refused, since Executor goes on to read after a failed exec
request and would append it (`ssh.cpp` 213-228). `ImplementsTaskList` maps the list, the status and the
output to it (`LifeOf`); locks, loops and the two threads of a session are not seen there.

### CtlScanner

`pc[t]` is where caller t is in op scan (`check`: after try_lock), and from `init` on where the
detached thread is that it started; a caller may send the next request only when that thread
is gone, which loses nothing because requests that fail try_lock change nothing and the other
callers are free. `Probe` is one turn of the loop with both outcomes of
`bufferevent_socket_connect`, `batch` and `drain` are the two `event_base_dispatch` calls,
`Event` is `event_cb`. Requests rejected after try_lock leave the lock taken (`rejected` records
it), as the code does; with it `ipst` and `iped` may change. `lastip` is left out, and the two
requests that only read.

`ScanJob` is a scan as its clients see it: a range is accepted, each address is tried once and either
answers or not, and it is over when none is left. `ImplementsScanJob` maps to it: untried are the
attempts under way and the addresses the loop has not come to. `ScanAdvances` counts what the thread
and its callbacks have still to do (`StepsLeft`) and says that each step lowers it.

### ApiServer, ControllerTable, ConfigStore, Daemon, TableOps

`ApiServer` is the life of a connection thread: accept, read, refuse or dispatch, answer, close.
`ControllerTable` and `ConfigStore` extend it, each with one operation and the state that operation
shares with other threads; `Daemon` puts both together with `main()` and the end of the process. A
request to op `version` stands for operations that share nothing.

`ControllerTable` follows `controller()` statement by statement where another thread can come in
between: `OpenTable`, `LockTable`, `Begin`, one `Entry` per turn of the loop, `Commit`, `UnlockTable`.
Of SQLite it has the write lock of the file and the rows as the writing connection sees them
(`work`); a step that finds the write lock taken changes nothing, as the code ignores what `Step()`
returns. `Raise` is the catch block: -2 is answered, GlobalLock stays locked (`Leaked`) and so does
the connection with its transaction. What raises is a table that is not there, an address that
`IPEndPoint` does not take, and SQLite itself at any call (`SQLiteFails`, a fault: nothing relies on it).
The rows are a set because the table is UNIQUE(Addr, Port) ON CONFLICT IGNORE. `wipe` has no effect: TRUNCATE is
no statement of SQLite.

`ConfigStore` stops where `set` stops for good: `Config::Save()` locks the mutex its caller holds. `get`
looks up a key and a subkey that were never assigned and inserts them (`emptykey`).

`Daemon` adds the start: `LoadConfig`, and for a database file that is missing `CreateFile` and
`CreateTable`, between which the process may die; later starts find the file and do not look for
the table. The history variable `cut` records such a death.

`TableOps` is what operation `controller` promises: a request is called, applied or failed, and
ended; `Applied` is one step. `Daemon` implements it (`ImplementsTableOps`): `phase` is computed from
`pc` and `rc`, the table is the committed one.

`LocksStayLost` says what the two locks that are never given back mean for everybody else, and
`RequestsAdvance` counts what a request has still to do (`StepsLeft`): only waiting for a lock keeps it
from its answer.

### CrapNemesis

The parser of the texts that nodes send of a module, one action per case of the switch. The text is a
variable that grows by any character, so every reachable state is a text that may end there.
`Reference` defines without buffers or states, by the positions of the special characters, what the items of a
text are (`Ends`, `KeyOf`, `ValuesOf`); `ParsesItems` compares.

## Runs

| Run | Instance | Shows |
|---|---|---|
| CollectorRounds | 1 controller, 2 databases, clock 1..3, crashes | several collections in a row, dying anywhere: types, PublishedClosed, ModuleHasExt, PublishedExtExact, refinement of CommitLog, and of FarmArchive (PublishedIsFrozen) |
| CollectorBatches | 2 controllers, 3 databases, batches of 1, one clock value | the orders of events within a collection: OneConnectionIssue, UnreachableHasNoSummary, NoSilentLoss, CollectionAdvances; with fairness CollectionPublished |
| StatusReads | 1 client, all six kinds, 4 databases, times 0..2 | ReadsAreFinal (rows at or before the timestamp of a query: the ranges of history and report have no upper bound and may also find newer rows), StatusOneCollection, refinement of FarmArchive |
| ReportTorn | report and poool, times 0..3 | violation: an answer mixes collections (RereadersOneCollection) |
| ScriptStore | 3 threads, 2 names, 2 contents, crashes, four initial files | StoreTypeOK, UniqueNames, AddedIsOnFile, ReadersSeeWhole, ExecUsesStored |
| ScriptsHang | 2 threads, 2 names, 1 content, fair | violation: a request never ends |
| RTACSessions | 3 threads, 1 session, 1 node, up to 2 reads with output, counter modulo 3, fair | LoopsSeeListed, ClearedIsOver, FinishedIsComplete, refinement of TaskList, SessionEnds |
| RTACSameNode | 1 thread, 2 sessions, 2 scripts, 1 node | violation: a session runs another's script |
| CtlScanner | 2 callers, 6 addresses, batches of 2, 2 scans, fair | ScannerTypeOK, OneScan, FoundInRange, LockHasOwner, refinement of ScanJob, ScanAdvances, ScanEnds |
| DaemonEdits | 2 connections, 2 controllers, ops list, add, del, wipe, get, set, version, crashes, fair | EditorsNeverBusy, ServesWithTable, refinement of TableOps, LocksStayLost, RequestsAdvance, AnsweredOrWaits |
| ConfigHangs | 2 connections, ops get and set, fair | violation: a request to op config is never answered |
| CrapTexts | 2 letters and the 4 special characters, texts of up to 7 | ParsesItems |

Why the bounds are enough. The databases are treated alike but for the first two (summary and
module), so two show every relation between databases and three add a connection that carries
a shifted API number to a third. One controller suffices where only the order of collections
matters; two are needed for the batch loop and for events of different nodes. Three clock
values allow a collection that dies, one that reuses its rowids and is published, and one
more. The races of loading and of saving are between two requests to the script store, and two
contents tell a lost script from an overwritten one; the content in the hands of `exec_script` may be
lost by two others, of which one adds and one loads, so there are three threads, and a walk may meet a
deletion and an addition by each of two others. The `VIEW` of that run (`MCScriptStore`) takes states for one
that differ only in contents, and the history kept of them, once `excuse` is TRUE: from then on no step
asks more of a content than whether it is a `Hole`, and of the properties still claimed then `UniqueNames`
asks for names alone and `StoreTypeOK` for types. `ScriptStoreProof` covers any number of threads, names and contents.
`BatchLimit` of the collector is 0 instead of 192, so that a batch is full after one
controller; that of the scanner is 1 instead of 48, with ranges of up to five addresses, so that
a scan has full batches and a rest. `MaxRows`, `MaxTime`, `MaxChunks` bound data; `CountModulus` is 3 instead of 2^64.
Three threads on one session can list it while another tries to clear it and a third to
create; sessions meet only in the list and on the node, so two of them matter only in
RTACSameNode, and `RTACProof` covers any number. Two connections and two controllers make an edit
that is half done while another waits, reads the table or raises; `DaemonProof` covers any number. A
text of seven characters holds two items, one with the key of the other, or one with two values
and a doubled blank.

CHECK_DEADLOCK is FALSE where the clock or the supply of sessions ends, which is a bound of the
model, and in FarmReaders and CrapNemesis for the same reason; in ScriptStore and CtlScanner it is FALSE because
a lock that is leaked may really stop every thread.

## Fairness

`Collector`: weak fairness of the thread and of event delivery. The thread is scheduled by the
kernel; each connection ends because `bufferevent_set_timeouts` bounds every silence and
cgminer closes after its reply. A peer that sends a byte now and then for ever is excluded by
this assumption, the code has no overall deadline. Neither starting a collection nor the
absence of crashes is assumed. `RTACSessions`: weak fairness of each session's threads where they need
no answer of the node, `connect()` included, which the kernel gives up after a while. The calls of libssh2 are not
fair (`WaitsForNode`): `ssh.cpp` sets neither a timeout nor a keepalive, so the handshake, the
authentication, the exec request, the reading and the closing wait for ever for a node that falls silent, and
reading also for a script that does not end. `SessionEnds` therefore says that a session ends unless
it is for ever waiting for its node. `CtlScanner`: weak fairness of the
scanner thread and its callbacks; an attempt ends after 7 seconds at the latest. `ScriptStore` (only in the
run that shows a hang): strong fairness of every thread, so that the counterexample cannot be
a thread overtaken for ever on a lock that is released again and again.

`Daemon`: weak fairness of each connection thread's own steps (clients do send what they announce, or
hang up). A fault of SQLite, a new connection, a start or a death is never relied on. A thread that
waits for a lock is not promised to get it, mutexes of the C++ library being unfair; hence
`AnsweredOrWaits`, and hence `RequestsAnswered` fails only on the lock that is never given back: in
ConfigHangs both requests are stuck for good.

## Findings

1. Report and glimpse take the timestamp once per query (`Report.cpp` 34, 58, 94, 100) and
   may mix two collections; `poool` "info" asks once per thread and does the same (ReportTorn).
2. `load_scripts` leaks its mutex when another thread loaded first (`supertac.cpp` 39-40); the
   next add_script never answers (ScriptsHang).
3. All sessions share one UUID (`utils.cpp` 26-41), so two tasks on one node may run each
   other's script (RTACSameNode).
4. Op `config` "set" holds `Lock_Config` when it calls `Config::Save()`, which locks it again
   (`config.cpp` 58-62, `Config.cpp` 99): it never answers, nor does any config request after it
   (ConfigHangs). That is a lock that waits for itself; the language leaves a second lock by the owner
   undefined, and with glibc and libstdc++ `lock()` throws, which nothing catches, and the daemon dies
   (in the model `Crash`, which is no answer either).

Known and modelled, but contradicting no text of the repository: a deleted script comes back
after a restart; two first requests may lose a script that was added and acknowledged (`supertac.cpp` 41,
58); a deletion while the array is saved may leave a name twice, or not at all, in a valid file (49);
a session whose node falls silent is never over; `taskscount` is no count of tasks; a session may be deleted between its
ConnectionFailure status and the errno, before its first thread has detached the second, or
while it goes on after a failed exec request; a scan request rejected for its addresses keeps
the scanner's lock for good, and the last address of a range is not scanned; an edit of the
controller table that raises keeps GlobalLock, so that no edit is served again until a restart; an
address that does not parse makes `del` delete a controller nobody named; `wipe` leaves the table as it is;
a death between the making of a database file and of its table leaves a daemon that starts but has no such
table; `farmap` and `issues` never show the nodes that were not reached; `config` "get" always answers
for the same, empty key.

## Proofs

`CollectorProof` proves, for every value of the constants that meets the named assumptions
(`NumDBAssumption`, `BoundsAssumption`, `ClockAssumption`, and `ControllersAssumption`: the controllers are
finitely many, being the rows of a table in a file):

* `TypeCorrect`: Spec => []TypeOK
* `PublishedIsClosed`: Spec => []PublishedClosed
* `UncommittedAfterPublished`: Spec => []UncommittedIsNew
* `AdvancesAlways`: Spec => CollectionAdvances

The second and the third are not inductive. The invariant `IInv` adds how the timestamps are ordered
depending on where the thread is (last < ts while a collection runs, ts = current from the
first step on, clock at least ts, and strictly later than ts when a new process is about to
start), that outside the dispatch phases no connection is open, that the commit loop has
emptied the transactions below its cursor, and that every row of a transaction carries ts. `Opened`
gives APIs in range because a cardinality of a subset of 1..d is at most d (`ApiNumbering`).
The step proof is split into the environment, the thread and event delivery, one lemma each.

`AdvancesAlways` is the safety half of `CollectionPublished`. `StepsLeft` reckons 2 * NumDB + 3 steps for
each controller still to visit (connected and closed once for each database, its batch full and done,
its own turn of the loop), what the open connections can still do, and the commits. `FiniteInv` keeps the
counted sets finite; a turn of the loop opens at most NumDB connections (`OpenedFew`), so it trades more
steps than it brings (`OpenAdvances`); each event is one thing less that can happen (`DeliverAdvances`).

`CollectorRowsProof` proves, under the same assumptions, the rest of the collector's safety:

* `OneReport` (`OneConnectionIssue`), `AliveOrUnreachable` (`UnreachableHasNoSummary`), `NothingIsLost`
  (`NoSilentLoss`), `ModulesHaveExt` (`ModuleHasExt`), `PublishedExtIsExact` (`PublishedExtExact`);
* `LogImplemented`: Spec => ImplementsCommitLog;
* `PublishedStaysFrozen`: Spec => PublishedIsFrozen, the promise of `FarmArchive` for the detailed collector:
  nothing readers were handed the timestamp of is changed by batches, failures, deaths or restarts.

`RowsInv` has one part per question, each with a lemma that goes through the actions. `ConnsInv`: one
connection per controller and API, none for a controller still to visit (`OpenedDiffer`). `SettledInv`: a
controller that left a summary row or a report of failure has no summary connection left, so the second
one of them cannot come. `AccountedInv`: each controller of the collection is still to visit, still being
asked, settled or excused; it rests on `SummaryIsAsked`: if any connect call succeeds, one of the
connections asks for the summary, because the API numbers of k connections are k different numbers from
1 to k. `ExtInv`: the extension rows of the running collection fit its module rows, which is what
publishing hands over to `PublishedExtExact`; rows of collections that died are told apart by their
earlier time (`PastInv`).

`FarmReadersProof` proves under `CommitLogAssumption`, `WindowAssumption` and
`ReadersAssumption` (the four databases that queries name exist):

* `ArchiveIsKept`: Spec => KeepsArchive, the refinement of `FarmArchive`;
* `TypeCorrect`, `ReadsFinal`, `StatusTakesOne`: Spec => []P for `ReadersTypeOK`,
  `ReadsAreFinal`, `StatusOneCollection`.

`RoundInv` says that the round that runs is later than what is published, so a COMMIT writes
under a timestamp nobody was handed; `StampInv` that every bound timestamp is at most the
published one, so a row a reader has is never written again. Two more parts say that a query
that is not bound, or whose client is idle, has read nothing, and that status binds all its
queries at once.

`RTACProof` proves under `MaxChunksAssumption` and `CountAssumption` all safety properties of
`RTACSessions` but `RunsOwnScript`, which the code violates: `TypeCorrect` (`RTACTypeOK`),
`LoopsAreSafe` (`LoopsSeeListed`), `ClearsWhatIsOver` (`ClearedIsOver`), `ReportsAllOutput`
(`FinishedIsComplete`), and `TaskListImplemented`: Spec => ImplementsTaskList. `LockInv` is the exclusion of the list lock. `OverInv` ties a
session's status to where its threads are and is what makes a final status final: it would fail for
a step of Connector or Executor that leaves a final status, or sets one too early in a place
the property does not name. `ConnectionStep` states the condition a step has to meet once, and
each step of the two functions is checked against it. The refinement needs one part more, `TaskInv`: only
listed or deleted sessions have a thread that runs, and while the command has started and its output is
read the status is ExecInProgress, so that no output comes to what was shown as over.

`CtlScannerProof` proves under `ScannerAssumption`:

* `TypeCorrect`, `ScansAlone`, `CountsAll`, `FindsInRange`, `LockIsOwned`: Spec => []P for
  `ScannerTypeOK`, `OneScan`, `AllCounted`, `FoundInRange`, `LockHasOwner`, all the safety
  invariants of the module;
* `JobImplemented`: Spec => ImplementsScanJob;
* `AdvancesAlways`: Spec => ScanAdvances, for every range and batch size.

The invariant `IInv` says that whoever is past try_lock has the lock alone (`LockInv`), so that
a step of one thread cannot disturb what holds of another; that nothing is under way when nobody
scans (`QuietInv`); and that the loop goes through the range in order: addresses under way and
addresses found lie below `curnode` and are disjoint (`WorkInv`), which is why an address is
counted once and listed once. One lemma per kind of step. `DrainInv` adds for the refinement that the
last dispatch begins with no address left: at its end nothing is untried. The globals that ScanJob sees
belong to the one thread that is not idle (`Seen`), so each step is looked at for that thread alone.

`ScriptStoreProof` proves under `StoreAssumption` and `FilesAssumption` all the safety properties of
`ScriptStore`: `TypeCorrect`, `NamesUnique` (`UniqueNames`), `AddedStored` (`AddedIsOnFile`),
`ReadersWhole` (`ReadersSeeWhole`), `ExecStored` (`ExecUsesStored`). The first half of the file is
about lists: what `json_array_remove`, a change in place and an append keep of names and contents
(`RemovalKeeps`, `ChangeKeeps`, `AppendKeeps`), and that the loop finds the one script of a name
(`IndexFinds`). The inductive invariant has four groups of parts. Where the two locks are held and which
request is where (`LocksInv`, `OpInv`, `LoadedInv`). That a script without content is one some `add_script` is
about to fill, at the very index it remembers (`HoleInv`, `FillInv`), and that what was added is in memory
unless being filled (`MemInv`). The walk: as long as no script is removed it writes the scripts of the array in
their order, never past its end and none twice (`WalkInv`), and everything added that is not itself waiting to be
saved was in the array when the walk began, and was written with the content last added if the walk has come past it
(`WalkedInv`, which speaks of a script by its position, since an array only grows at its end). From this follows that
it is on file once the walk is over (`FileInv`), and that names are unique there (`UniqueInv`).
The start: whoever has come past the load of a good file has left an array behind, so a load assigns over an
array only if the file was broken (`ColdInv`); no array and no good file means that nothing was added, without an excuse
(`UnloadedInv`); a file that was shuffled is not loaded without one (`ShuffledInv`).

`DaemonProof` proves under `NamesAssumption` (and `EndpointsAssumption` for the last: addresses and ports
are finitely many):

* `TypeCorrect`, `NeverBusy`, `TableServed`: Spec => []P for `DaemonTypeOK`, `EditorsNeverBusy`,
  `ServesWithTable`;
* `OpsImplemented`: Spec => ImplementsTableOps, every step of the daemon being a step of `TableOps` or a
  stutter;
* `LostForGood`: Spec => LocksStayLost;
* `AdvancesAlways`: Spec => RequestsAdvance, faults of SQLite included.

`LockInv` and `WriterInv` say who has GlobalLock and the write lock and that a lost transaction comes with
a lost GlobalLock, so no editor meets it. `WorkInv` says which part of the request the transaction holds:
the entries the loop has left behind, and after a bad address of `del` perhaps one more controller. At the
COMMIT nothing is left, so the whole effect is there. While GlobalLock is lost, `LockInv` leaves nobody
between its lock and its unlock, which is why it stays lost and the table as it is; `ConfigInv` says the same
of Lock_Config: while a thread holds it, nobody is left who could give it back. That a request advances
needs that what the loop has still to come to is a finite set, taken from the endpoints and one entry that
does not parse (`FewEntries`), and that every other step goes onward in the order of `StepsAfter`
(`OnwardAdvances`).

`CrapNemesisProof` proves for texts of any length over any letters:

* `TypeCorrect` (`ParserTypeOK`): every returned key has a value, and buffers only take letters;
* `ParsesWhatItSays`: Spec => []ParsesItems.

`Reference` speaks of positions and not of a recursion over the text, so no induction over data is needed:
the steps of the parser are the induction. `ParserInv` says what state and buffers hold of the text read so
far (`BuffersOK`): since the item before ended, the key is the letters left of the first bracket, the value
those since the last blank, and the values the pieces between the blanks. One character more changes no item
that has ended before.

Proved are all safety invariants, all action properties and all refinements of the passing runs. Only
model-checked is liveness under fairness (CollectionPublished, SessionEnds, ScanEnds, AnsweredOrWaits),
which with ENABLED is out of the prover's reach. Of the first, the third and the fourth the part that needs
no fairness is proved: `CollectionAdvances`, `ScanAdvances` and `RequestsAdvance` exclude that the steps a
thread takes lead in a circle, so what remains to be assumed is that it takes them. The four violations
are TLC's.

Four invariants are proved that no run checks any more, since what a run checks says more: `UncommittedIsNew`
(a row committed late would change what was published, against `PublishedIsFrozen`), `AllCounted` (the counts of
`ScanJob`), `ParserTypeOK` (the type of `Reference`), and `ReadersTypeOK`.

## Not modelled

* Users and login (`User/`, `Operations/user.cpp`, `login.cpp`): a token comes from
  `amsd_random_string()`, which returns a constant, so every user has the same token and every
  login the same outcome. ApiServer refuses requests at will instead.
* `DataProcessing/AvalonError.cpp`: its encoder and decoder are called nowhere; the rest maps bits to names.
* The arithmetic and the wording of answers, reports and mails, and the sort orders of `poool`.
* SMTP, the block chain client, firmware version, raw API, ascset, the command line client and
  the CGI: one request, one answer, nothing shared.
* `GlimpseDataUpdater` writes variables nobody reads; the mail service is not started by `Services::Init()`.
* The Tasker that starts the services is in a git submodule; that it starts one collection at a time, 600 s apart,
  is an assumption of Collector.
* Data races on memory that no lock guards: `foundlist` read by op `result` while the scanner appends to it,
  `ConfigList` changed by `get` under a shared lock and read by the mail report under none, the array of
  scripts that `get_scripts` hands out and that is serialised after unlock. What such a race does is
  undefined, and no text of the repository says what should come out.
