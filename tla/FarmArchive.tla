----------------------------- MODULE FarmArchive -----------------------------
(***************************************************************************)
(* What the data collector promises to every reader of the farm databases.  *)
(*                                                                         *)
(* A reader takes the timestamp LastDataCollection() out of the NVRAM page  *)
(* and runs SELECT ... WHERE Time = ?1 against databases that the collector *)
(* keeps writing.  The promise is that the rows of the published timestamp, *)
(* and of every earlier one, are frozen: only rows of collections that are  *)
(* not published yet may still appear, and timestamps are published in      *)
(* increasing order.                                                       *)
(***************************************************************************)
EXTENDS Integers

CONSTANTS
    Tables,     \* the databases a collection fills
    RowSets,    \* the sets of rows one collection may leave in one database
    MaxTime     \* bound: the last second the clock shows

VARIABLES
    published,  \* the timestamp readers use
    archive     \* archive[t][d]: the rows of database d with Time = t

avars == <<published, archive>>

Times == 0 .. MaxTime

ArchiveTypeOK ==
    /\ published \in Times
    /\ archive \in [Times -> [Tables -> RowSets]]

ArchiveInit ==
    /\ published = 0
    /\ archive = [t \in Times |-> [d \in Tables |-> {}]]

\* Rows arrive, all of them for a collection still to be published.
Gather ==
    /\ archive' \in [Times -> [Tables -> RowSets]]
    /\ \A t \in 0 .. published : archive'[t] = archive[t]
    /\ UNCHANGED published

\* A collection is published as it stands.
Publish ==
    /\ published' \in published + 1 .. MaxTime
    /\ UNCHANGED archive

ArchiveNext == Gather \/ Publish

ArchiveSpec == ArchiveInit /\ [][ArchiveNext]_avars
=============================================================================
