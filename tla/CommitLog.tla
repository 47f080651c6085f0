------------------------------ MODULE CommitLog ------------------------------
(***************************************************************************)
(* The data collector as every other thread sees it: which rows a SELECT    *)
(* finds and which timestamp is published.  A collection commits its        *)
(* databases one after the other, in the order of DBConnections, and        *)
(* publishes its timestamp when all are committed; it may die half way.     *)
(* Module Collector implements this one, and this one implements            *)
(* FarmArchive.  The readers of module FarmReaders run against it.          *)
(***************************************************************************)
EXTENDS Integers

CONSTANTS
    NumDB,      \* DBConnections.size(): 4 in the code
    RowSets,    \* the sets of rows one collection may leave in one database
    MaxTime     \* bound: the last second the clock shows

ASSUME CommitLogAssumption == NumDB \in Nat /\ MaxTime \in Nat /\ {} \in RowSets

VARIABLES
    published,  \* LastDataCollection
    archive,    \* archive[t][d]: the committed rows of database d with Time = t
    round,      \* CurrentDataCollection
    reached     \* the database to commit next, 0 when no collection runs

logvars == <<published, archive, round, reached>>

Times == 0 .. MaxTime
DBs == 1 .. NumDB

LogTypeOK ==
    /\ published \in Times /\ round \in Times
    /\ archive \in [Times -> [DBs -> RowSets]]
    /\ reached \in 0 .. NumDB + 1

LogInit ==
    /\ published = 0 /\ round = 0 /\ reached = 0
    /\ archive = [t \in Times |-> [d \in DBs |-> {}]]

\* Bug: a collection may start in the second the last one started in.
BugFreshStamps == round .. MaxTime

FreshStamps == round + 1 .. MaxTime

\* A collection starts under a timestamp that was never used.
BeginRound ==
    /\ reached = 0
    /\ round' \in FreshStamps
    /\ reached' = 1
    /\ UNCHANGED <<published, archive>>

\* COMMIT on one database makes the rows R visible.
CommitRows(R) ==
    /\ reached \in DBs
    /\ archive' = [archive EXCEPT ![round][reached] = R]
    /\ reached' = reached + 1
    /\ UNCHANGED <<published, round>>

\* CommitRows(R) for some R, told from the step instead of enumerated.
CommitTable ==
    /\ reached \in DBs
    /\ archive'[round][reached] \in RowSets
    /\ CommitRows(archive'[round][reached])

RoundStamp == round

PublishRound ==
    /\ reached = NumDB + 1
    /\ published' = RoundStamp
    /\ reached' = 0
    /\ UNCHANGED <<archive, round>>

\* The process dies: what is committed stays, the rest never comes.
AbandonRound ==
    /\ reached # 0
    /\ reached' = 0
    /\ UNCHANGED <<published, archive, round>>

LogNext == BeginRound \/ CommitTable \/ PublishRound \/ AbandonRound

LogSpec == LogInit /\ [][LogNext]_logvars

Frozen == INSTANCE FarmArchive WITH Tables <- DBs

\* Committing table by table, with crashes in between, keeps the promise to
\* readers: nothing changes under a timestamp once it is published.
KeepsArchive == Frozen!ArchiveSpec
=============================================================================
