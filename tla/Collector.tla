------------------------------ MODULE Collector ------------------------------
(***************************************************************************)
(* The data collector (DataProcessing/Collector.cpp, CgMinerAPI.cpp,        *)
(* Issue.cpp), the service that runs it (Services/DataCollector.cpp) and    *)
(* the two timestamps it keeps in the NVRAM page (Runtime/RuntimeData.cpp). *)
(*                                                                         *)
(* One thread walks the controller table, opens one connection per          *)
(* controller and per cgminer API, lets libevent deliver what happens on    *)
(* them in any order, writes the replies inside one transaction per         *)
(* database, commits the databases one after the other and then publishes   *)
(* the timestamp of the collection.  The process may be killed between any  *)
(* two steps: what is committed and the NVRAM page survive.                 *)
(***************************************************************************)
EXTENDS Integers, Sequences, FiniteSets

CONSTANTS
    Controllers,    \* the endpoints the controller table may list
    NumDB,          \* DBConnections.size(): 4 in the code
    BatchLimit,     \* 192 in the code: controllers opened before a dispatch
    MaxRows,        \* bound: rows that one reply of a multi-row API yields
    MaxTime,        \* bound: the last second the clock shows
    Interval,       \* seconds between two runs of the service: 600
    RestartDelay    \* seconds a restarted process needs before it collects

ASSUME NumDBAssumption == NumDB \in Nat /\ NumDB >= 2
ASSUME BoundsAssumption ==
    BatchLimit \in Nat /\ MaxRows \in Nat /\ MaxTime \in Nat /\ MaxTime >= 1
\* The table is a file.
ASSUME ControllersAssumption == IsFiniteSet(Controllers)
\* Two collections never start within one second: the Tasker waits, and a
\* process that died takes at least a second to come back.
ASSUME ClockAssumption ==
    Interval \in Nat /\ Interval >= 1 /\ RestartDelay \in Nat /\ RestartDelay >= 1

VARIABLES
    clock,      \* time(NULL)
    current,    \* NVRAM: CurrentDataCollection
    last,       \* NVRAM: LastDataCollection, the published timestamp
    pc,         \* where the collector thread is
    ts,         \* Collector::TimeStamp
    farm,       \* the controller table
    members,    \* history: the controllers this collection set out to visit
    todo,       \* rows of the controller SELECT not stepped over yet
    batch,      \* sb_libev_workaround
    conns,      \* live connections of the event base
    stored,     \* stored[d]: the committed rows of database d, by rowid
    txn,        \* txn[d]: rows added by the open transaction of database d
    cursor,     \* the database the commit loop has reached
    ext,        \* rows of module_avalon7_ext, committed one by one
    issues,     \* rows of the issue database, committed one by one
    excused     \* history: members that gave no reason to write anything

vars == <<clock, current, last, pc, ts, farm, members, todo, batch, conns,
          stored, txn, cursor, ext, issues, excused>>

nvram == <<current, last>>

(***************************************************************************)
(* Data.                                                                   *)
(***************************************************************************)
DBs == 1 .. NumDB

\* APIType, numbered as the databases DBConnections holds: summary,
\* module_avalon7, device, pool.
Summary == 1
EStats == 2

\* Of a row only who it is about and when is kept; its place is its rowid.
Row == [time : Nat, ctl : Controllers]

NewRows(c, n) == [i \in 1 .. n |-> [time |-> ts, ctl |-> c]]

Connection == [ctl : Controllers, db : DBs, api : DBs, stage : {"connecting", "queried"}]

IssueKind == {"ConnectionFailure", "ConnectionTimeout", "RawDataError"}

\* "via" tells rows apart that the table tells apart by rowid.
IssueRow == [time : Nat, ctl : Controllers, kind : IssueKind, via : DBs]

\* The table holds ParentID; whose reply the row was parsed from, and when, is
\* kept as history.
ExtRow == [parent : Nat, time : Nat, ctl : Controllers]

NoRows == [d \in DBs |-> <<>>]

\* What Process() may do with a reply of API a on the connection to database d:
\* how many rows it inserts and whether it raises. A statement prepared for a
\* table the database does not have raises; so does a reply that is not JSON.
\* ParseAPIData drops what follows the first object it cannot use and catches
\* its own exceptions; ParseCrap raises at the first column it does not know.
Outcomes(a, d) ==
    LET some == 0 .. (IF a = Summary THEN 1 ELSE MaxRows) IN
    IF a # d
    THEN [rows : {0}, raises : IF a = EStats THEN BOOLEAN ELSE {TRUE}]
    ELSE IF a = EStats
         THEN [rows : some, raises : BOOLEAN]
         ELSE [rows : some, raises : {FALSE}] \cup {[rows |-> 0, raises |-> TRUE]}

TypeOK ==
    /\ clock \in Nat /\ current \in Nat /\ last \in Nat /\ ts \in Nat
    /\ pc \in {"boot", "idle", "scan", "dispatch", "drain", "commit", "down"}
    /\ farm \subseteq Controllers /\ members \subseteq Controllers
    /\ todo \subseteq Controllers /\ excused \subseteq Controllers
    /\ batch \in Nat
    /\ conns \subseteq Connection
    /\ stored \in [DBs -> Seq(Row)]
    /\ txn \in [DBs -> Seq(Row)]
    /\ cursor \in 1 .. NumDB + 1
    /\ ext \subseteq ExtRow
    /\ issues \subseteq IssueRow

Init ==
    /\ clock = 1 /\ current = 0 /\ last = 0 /\ ts = 0
    /\ pc = "boot"
    /\ farm \in SUBSET Controllers
    /\ members = {} /\ todo = {} /\ excused = {}
    /\ batch = 0
    /\ conns = {}
    /\ stored = NoRows /\ txn = NoRows
    /\ cursor = 1
    /\ ext = {} /\ issues = {}

(***************************************************************************)
(* The environment: the clock, the controller operation, the process.       *)
(***************************************************************************)
Tick ==
    /\ clock < MaxTime
    /\ clock' = clock + 1
    /\ UNCHANGED <<current, last, pc, ts, farm, members, todo, batch, conns,
                   stored, txn, cursor, ext, issues, excused>>

\* Operation "controller": add, insert or ignore; and del.
EditFarm ==
    /\ \E c \in Controllers : farm' \in {farm \cup {c}, farm \ {c}}
    /\ UNCHANGED <<clock, nvram, pc, ts, members, todo, batch, conns,
                   stored, txn, cursor, ext, issues, excused>>

\* The process dies: open transactions roll back and connections close.
Crash ==
    /\ pc # "down"
    /\ pc' = "down"
    /\ txn' = NoRows
    /\ conns' = {}
    /\ todo' = {} /\ members' = {} /\ excused' = {}
    /\ batch' = 0
    /\ cursor' = 1
    /\ UNCHANGED <<clock, nvram, ts, farm, stored, ext, issues>>

Restart ==
    /\ pc = "down"
    /\ clock + RestartDelay <= MaxTime
    /\ pc' = "boot"
    /\ clock' = clock + RestartDelay
    /\ UNCHANGED <<nvram, ts, farm, members, todo, batch, conns, stored, txn,
                   cursor, ext, issues, excused>>

(***************************************************************************)
(* Collector::Collect                                                      *)
(***************************************************************************)
\* The service runs: at once in a new process, then every Interval seconds.
\* Up to the first SELECT step nothing of it is visible but the timestamp.
Start ==
    /\ \/ pc = "boot"
       \/ pc = "idle" /\ clock >= ts + Interval
    /\ pc' = "scan"
    /\ ts' = clock
    /\ current' = clock
    /\ members' = farm /\ todo' = farm
    /\ batch' = 0
    /\ txn' = NoRows
    /\ cursor' = 1
    /\ excused' = {}
    /\ UNCHANGED <<clock, last, farm, conns, stored, ext, issues>>

\* Bug: the API number is taken before it is advanced.
BugOpened(c, up) ==
    {[ctl |-> c, db |-> d, api |-> Cardinality({e \in up : e < d}),
      stage |-> "connecting"] : d \in up}

\* The connections opened for controller c when the connect calls to the
\* databases in "up" succeed: apiType only advances past those.
Opened(c, up) ==
    {[ctl |-> c, db |-> d, api |-> Cardinality({e \in up : e <= d}),
      stage |-> "connecting"] : d \in up}

\* One turn of the controller loop.
OpenController(c) ==
    /\ pc = "scan"
    /\ c \in todo
    /\ batch <= BatchLimit
    /\ \E up \in SUBSET DBs :
          /\ conns' = conns \cup Opened(c, up)
          /\ excused' = IF up = {} THEN excused \cup {c} ELSE excused
    /\ todo' = todo \ {c}
    /\ batch' = batch + 1
    /\ UNCHANGED <<clock, nvram, pc, ts, farm, members, stored, txn, cursor,
                   ext, issues>>

\* The loop stops to dispatch what it opened so far.
BatchFull ==
    /\ pc = "scan"
    /\ todo # {}
    /\ batch > BatchLimit
    /\ pc' = "dispatch"
    /\ UNCHANGED <<clock, nvram, ts, farm, members, todo, batch, conns, stored,
                   txn, cursor, ext, issues, excused>>

\* Bug: the counter is not reset.
BugBatchDone ==
    /\ pc = "dispatch"
    /\ conns = {}
    /\ pc' = "scan"
    /\ UNCHANGED <<clock, nvram, ts, farm, members, todo, batch, conns, stored,
                   txn, cursor, ext, issues, excused>>

BatchDone ==
    /\ pc = "dispatch"
    /\ conns = {}
    /\ pc' = "scan"
    /\ batch' = 0
    /\ UNCHANGED <<clock, nvram, ts, farm, members, todo, conns, stored, txn,
                   cursor, ext, issues, excused>>

\* No controller is left: the last dispatch begins, and ends.
ScanDone ==
    /\ pc = "scan"
    /\ todo = {}
    /\ pc' = "drain"
    /\ UNCHANGED <<clock, nvram, ts, farm, members, todo, batch, conns, stored,
                   txn, cursor, ext, issues, excused>>

\* Bug: the last dispatch is forgotten.
BugDrained == TRUE

Drained == conns = {}

DrainDone ==
    /\ pc = "drain"
    /\ Drained
    /\ pc' = "commit"
    /\ UNCHANGED <<clock, nvram, ts, farm, members, todo, batch, conns, stored,
                   txn, cursor, ext, issues, excused>>

\* Bug: the connection is closed without COMMIT.
BugCommitted(d) == stored[d]

Committed(d) == stored[d] \o txn[d]

\* One turn of the commit loop.
CommitNext ==
    /\ pc = "commit"
    /\ cursor <= NumDB
    /\ stored' = [stored EXCEPT ![cursor] = Committed(cursor)]
    /\ txn' = [txn EXCEPT ![cursor] = <<>>]
    /\ cursor' = cursor + 1
    /\ UNCHANGED <<clock, nvram, pc, ts, farm, members, todo, batch, conns,
                   ext, issues, excused>>

\* Bug: the timestamp is published while databases are still to be committed.
BugAllCommitted == cursor >= 1

AllCommitted == cursor = NumDB + 1

\* Bug: the time of the end is published, not the one of the rows.
BugPublishedStamp == clock

PublishedStamp == current

PublishCollection ==
    /\ pc = "commit"
    /\ AllCommitted
    /\ last' = PublishedStamp
    /\ pc' = "idle"
    /\ UNCHANGED <<clock, current, ts, farm, members, todo, batch, conns,
                   stored, txn, cursor, ext, issues, excused>>

(***************************************************************************)
(* event_cb, called by event_base_dispatch for one connection at a time.    *)
(***************************************************************************)
Dispatching == pc \in {"dispatch", "drain"}

Report(k, kind) ==
    issues \cup {[time |-> ts, ctl |-> k.ctl, kind |-> kind, via |-> k.db]}

Connected(k) ==
    /\ Dispatching
    /\ k.stage = "connecting"
    /\ conns' = (conns \ {k}) \cup {[k EXCEPT !.stage = "queried"]}
    /\ UNCHANGED <<clock, nvram, pc, ts, farm, members, todo, batch, stored,
                   txn, cursor, ext, issues, excused>>

\* Bug: rowids counted from 0.
BugNewExtRows(k, n) ==
    {[parent |-> Len(stored[EStats]) + Len(txn[EStats]) + i - 1,
      time |-> ts, ctl |-> k.ctl] : i \in 1 .. n}

\* The rows that ParseCrap adds to module_avalon7_ext, each with the rowid
\* its module row has just been given inside the open transaction.
NewExtRows(k, n) ==
    {[parent |-> Len(stored[EStats]) + Len(txn[EStats]) + i,
      time |-> ts, ctl |-> k.ctl] : i \in 1 .. n}

\* Bug: the exception of Process() is swallowed.
BugReplyIssues(k, raises) == issues

ReplyIssues(k, raises) == IF raises THEN Report(k, "RawDataError") ELSE issues

\* BEV_EVENT_EOF: the reply is complete and goes through Process().
Reply(k) ==
    /\ Dispatching
    /\ k.stage = "queried"
    /\ \E o \in Outcomes(k.api, k.db) :
          /\ txn' = [txn EXCEPT ![k.db] = @ \o NewRows(k.ctl, o.rows)]
          /\ ext' = IF k.api = EStats THEN ext \cup NewExtRows(k, o.rows) ELSE ext
          /\ issues' = ReplyIssues(k, o.raises)
          /\ excused' = IF k.api = Summary /\ o.rows = 0 /\ ~o.raises
                        THEN excused \cup {k.ctl} ELSE excused
    /\ conns' = conns \ {k}
    /\ UNCHANGED <<clock, nvram, pc, ts, farm, members, todo, batch, stored,
                   cursor>>

\* Bug: every failing connection reports.
BugReportsFailure(k) == TRUE

ReportsFailure(k) == k.api = Summary

\* Bug: the failed connection is left in the event base.
BugFreed(k) == conns

Freed(k) == conns \ {k}

\* BEV_EVENT_ERROR or BEV_EVENT_TIMEOUT: only the Summary connection reports.
Fails(k, kind) ==
    /\ Dispatching
    /\ issues' = IF ReportsFailure(k) THEN Report(k, kind) ELSE issues
    /\ conns' = Freed(k)
    /\ UNCHANGED <<clock, nvram, pc, ts, farm, members, todo, batch, stored,
                   txn, cursor, ext, excused>>

Event(k) ==
    \/ Connected(k)
    \/ Reply(k)
    \/ Fails(k, "ConnectionFailure")
    \/ Fails(k, "ConnectionTimeout")

(***************************************************************************)
(* The specification.                                                      *)
(***************************************************************************)
Thread ==
    \/ \E c \in Controllers : OpenController(c)
    \/ BatchFull \/ BatchDone \/ ScanDone \/ DrainDone
    \/ CommitNext \/ PublishCollection

Deliver == \E k \in conns : Event(k)

Next ==
    \/ Tick \/ EditFarm \/ Crash \/ Restart
    \/ Start
    \/ Thread
    \/ Deliver

Spec == Init /\ [][Next]_vars

\* The thread is scheduled, and every connection ends: cgminer closes after
\* its reply and bufferevent_set_timeouts bounds every silence. A peer that
\* trickles bytes for ever is excluded by this.
Fairness == WF_vars(Thread) /\ WF_vars(Deliver)

FairSpec == Spec /\ Fairness

(***************************************************************************)
(* Properties.                                                             *)
(***************************************************************************)
Collecting == pc \in {"scan", "dispatch", "drain", "commit"}

\* A collection that is published is closed: no connection of it is open, no
\* controller of it is left to visit and no row of it is still uncommitted.
\* Readers rely on it from the moment LastDataCollection is written.
PublishedClosed ==
    last = ts =>
        /\ conns = {} /\ todo = {}
        /\ \A d \in DBs : txn[d] = <<>>

\* Every row of an open transaction belongs to a collection later than the
\* published one, so that committing it cannot change what readers see.
UncommittedIsNew ==
    \A d \in DBs : \A i \in DOMAIN txn[d] : txn[d][i].time > last

\* The rows of the farm databases as their readers select them, by timestamp.
Archive ==
    [t \in 0 .. MaxTime |-> [d \in DBs |->
        {[id |-> i, ctl |-> stored[d][i].ctl] :
            i \in {j \in DOMAIN stored[d] : stored[d][j].time = t}}]]

Visible == INSTANCE CommitLog
    WITH RowSets <- SUBSET [id : Nat, ctl : Controllers],
         published <- last, archive <- Archive, round <- current,
         reached <- IF Collecting THEN cursor ELSE 0

\* The collector implements CommitLog, the collector its readers see: rows
\* appear database by database under the timestamp of the running collection,
\* which is published when all of them are there; batches, failing
\* connections, crashes half way and restarts show no other change.
ImplementsCommitLog == Visible!LogSpec

Frozen == INSTANCE FarmArchive
    WITH Tables <- DBs, RowSets <- SUBSET [id : Nat, ctl : Controllers],
         published <- last, archive <- Archive

\* What a SELECT finds under a published timestamp never changes again, and
\* timestamps are published in increasing order, however collections die: the
\* promise of FarmArchive, kept by the collector itself.
PublishedIsFrozen == Frozen!ArchiveSpec

\* Per collection a controller is reported unreachable at most once, although
\* four connections to it may fail (event_cb tests Type == Summary).
ConnectionIssue(r) == r.kind \in {"ConnectionFailure", "ConnectionTimeout"}

OneConnectionIssue ==
    \A r, s \in {q \in issues : ConnectionIssue(q)} :
        r.time = s.time /\ r.ctl = s.ctl => r = s

\* A controller that is reported unreachable for a collection has no summary
\* row in it: status pages never show a node both alive and unreachable.
UnreachableHasNoSummary ==
    \A r \in issues : ConnectionIssue(r) =>
        \A i \in DOMAIN (stored[Summary] \o txn[Summary]) :
            (stored[Summary] \o txn[Summary])[i] # [time |-> r.time, ctl |-> r.ctl]

\* A controller of a published collection left a summary row or an issue,
\* unless every connect call for it failed at once or its summary reply held
\* no summary: these two are the only ways a node drops out unnoticed.
NoSilentLoss ==
    pc = "idle" =>
        \A c \in members \ excused :
            \/ \E i \in DOMAIN stored[Summary] :
                  stored[Summary][i] = [time |-> last, ctl |-> c]
            \/ \E r \in issues : r.time = last /\ r.ctl = c

\* Each module row, committed or not, has the extension row that was parsed
\* with it, although the two databases are committed separately.
ModuleHasExt ==
    LET modules == stored[EStats] \o txn[EStats] IN
    \A i \in DOMAIN modules :
        [parent |-> i, time |-> modules[i].time, ctl |-> modules[i].ctl] \in ext

\* An extension row of the published collection refers to the committed
\* module row it was parsed with. (Rows left by a collection that died refer
\* to rowids that a later collection hands out again.)
PublishedExtExact ==
    \A e \in ext : e.time = last =>
        /\ e.parent \in DOMAIN stored[EStats]
        /\ stored[EStats][e.parent] = [time |-> e.time, ctl |-> e.ctl]

\* What the thread has still to do: each controller to visit is 2 * NumDB + 3 steps at
\* most, one to open its connections, two for each of them, and 2 around the dispatch
\* of a full batch; and each database is one COMMIT.
Connecting == {k \in conns : k.stage = "connecting"}

Phases == [drain |-> 0, scan |-> 1, dispatch |-> 2]

StepsLeft ==
    IF pc = "commit" THEN NumDB + 2 - cursor
    ELSE IF pc \in {"scan", "dispatch", "drain"}
    THEN NumDB + 2 + Phases[pc]
             + (2 * NumDB + 3) * Cardinality(todo)
             + Cardinality(conns) + Cardinality(Connecting)
             + IF pc = "scan" /\ batch > BatchLimit THEN 2 ELSE 0
    ELSE 0

\* Every step of a collection brings it nearer its end, whatever fails and in
\* whatever order: no batch, no connection and no COMMIT is gone through twice. Only
\* the clock and edits of the table leave it where it is, and they do not send it back.
CollectionAdvances ==
    [][Collecting =>
           \/ pc' = "down"
           \/ StepsLeft' < StepsLeft
           \/ UNCHANGED <<pc, todo, batch, conns, stored, txn, cursor, ext, issues>>]_vars

\* A collection that started is published, unless the process dies: the batch
\* dispatch, the last dispatch and the commit loop all end.
CollectionPublished == (pc = "scan") ~> (pc = "down" \/ last = ts)
=============================================================================
