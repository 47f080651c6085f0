----------------------------- MODULE FarmReaders -----------------------------
(***************************************************************************)
(* The operations that read the farm databases while the collector runs:    *)
(*   status   Operations/status.cpp: four threads, one timestamp            *)
(*   history  Operations/history.cpp: two threads, one timestamp, all rows   *)
(*            since some time before it                                     *)
(*   poool    Operations/poool.cpp, op "info": three threads, each taking    *)
(*            the timestamp for itself                                      *)
(*   report   DataProcessing/Report.cpp: four queries in a row, each taking  *)
(*            the timestamp anew (glimpse leaves the pools out)               *)
(*   farmap, issues   Operations/farmap.cpp, issues.cpp: two threads, one      *)
(*            timestamp                                                      *)
(* A query takes its timestamp in one step (Bind) and the rows in another    *)
(* (Step); the collector may run in between.                                *)
(***************************************************************************)
EXTENDS CommitLog

CONSTANTS
    Clients,    \* connections that run one of these operations each
    Kinds,      \* the operations they run
    Window      \* TimeOffset, and 86400 in Report: how far back a range query goes

ASSUME WindowAssumption == Window \in Nat

\* The databases that DatabaseOf names.
ASSUME ReadersAssumption == NumDB >= 4

VARIABLES
    kind,       \* kind[r]: the operation client r runs, "none" between two
    stamp,      \* stamp[r][p]: the timestamp bound to query p
    got         \* got[r][p]: the rows query p returned, by timestamp

vars == <<logvars, kind, stamp, got>>

Queries == {"summary", "modules", "versions", "devices", "pools"}

\* The queries of each operation.
StatusQueries == {"summary", "modules", "devices", "pools"}
HistoryQueries == {"summary", "pools"}
PooolQueries == {"summary", "modules", "pools"}
ReportQueries == {"summary", "modules", "versions", "pools"}

\* The second thread of farmap and of issues, which is to find the nodes that
\* were not reached, asks for table issue in the database of the modules: the
\* query raises, and the thread ends without a row.
FarmapQueries == {"modules"}
IssuesQueries == {"modules"}

QueriesOf(k) ==
    CASE k = "status"  -> StatusQueries
      [] k = "history" -> HistoryQueries
      [] k = "poool"   -> PooolQueries
      [] k = "report"  -> ReportQueries
      [] k = "farmap"  -> FarmapQueries
      [] k = "issues"  -> IssuesQueries
      [] OTHER         -> {}

\* What has to be answered before a query is made: status joins getModule
\* before it creates getDevice, Report runs its queries one after the other.
Before(k, p) ==
    CASE k = "status" /\ p = "devices"  -> {"modules"}
      [] k = "report" /\ p = "pools"    -> {"summary"}
      [] k = "report" /\ p = "modules"  -> {"summary", "pools"}
      [] k = "report" /\ p = "versions" -> {"summary", "pools", "modules"}
      [] OTHER -> {}

DatabaseOf(p) ==
    CASE p = "summary" -> 1
      [] p \in {"modules", "versions"} -> 2
      [] p = "devices" -> 3
      [] p = "pools" -> 4

\* One LastDataCollection() for all queries of the operation.
BugTakesOneStamp(k) == k = "history"    \* Bug: status asks in each thread.

TakesOneStamp(k) == k \in {"status", "history", "farmap", "issues"}

\* The timestamps a query selects, given the one bound to it.
Selected(k, p, t) ==
    IF k = "history" THEN {u \in Times : u >= t - Window}
    ELSE IF k = "report" /\ p = "pools" THEN {u \in Times : u > t - Window}
    ELSE {t}

Unbound == -1
NotRead == [u \in {} |-> {}]

ReadersTypeOK ==
    /\ LogTypeOK
    /\ kind \in [Clients -> Kinds \cup {"none"}]
    /\ stamp \in [Clients -> [Queries -> Times \cup {Unbound}]]
    /\ \A r \in Clients, p \in Queries :
          /\ DOMAIN got[r][p] \subseteq Times
          /\ \A u \in DOMAIN got[r][p] : got[r][p][u] \in RowSets

Init ==
    /\ LogInit
    /\ kind = [r \in Clients |-> "none"]
    /\ stamp = [r \in Clients |-> [p \in Queries |-> Unbound]]
    /\ got = [r \in Clients |-> [p \in Queries |-> NotRead]]

IsRead(r, p) == got[r][p] # NotRead

Ready(r, p) ==
    /\ p \in QueriesOf(kind[r])
    /\ \A q \in Before(kind[r], p) : IsRead(r, q)

\* Bug: CurrentDataCollection() is read instead.
BugStampRead == round

StampRead == published

\* The operation is called. Status and history take the timestamp here; op
\* "info" of poool runs under its GlobalLock.
Request(r, k) ==
    /\ kind[r] = "none"
    /\ k = "poool" => \A q \in Clients : kind[q] # "poool"
    /\ kind' = [kind EXCEPT ![r] = k]
    /\ stamp' = [stamp EXCEPT ![r] = [p \in Queries |->
                    IF TakesOneStamp(k) /\ p \in QueriesOf(k) THEN StampRead ELSE Unbound]]
    /\ UNCHANGED <<logvars, got>>

\* Bind(1, LastDataCollection())
BindQuery(r, p) ==
    /\ Ready(r, p)
    /\ stamp[r][p] = Unbound
    /\ stamp' = [stamp EXCEPT ![r][p] = StampRead]
    /\ UNCHANGED <<logvars, kind, got>>

\* The loop over Step(), one read transaction of SQLite.
StepQuery(r, p) ==
    /\ Ready(r, p)
    /\ stamp[r][p] # Unbound
    /\ ~IsRead(r, p)
    /\ got' = [got EXCEPT ![r][p] =
                  [u \in Selected(kind[r], p, stamp[r][p]) |-> archive[u][DatabaseOf(p)]]]
    /\ UNCHANGED <<logvars, kind, stamp>>

Complete(r) == kind[r] # "none" /\ \A p \in QueriesOf(kind[r]) : IsRead(r, p)

\* The threads are joined and the answer is sent.
Answer(r) ==
    /\ Complete(r)
    /\ kind' = [kind EXCEPT ![r] = "none"]
    /\ stamp' = [stamp EXCEPT ![r] = [p \in Queries |-> Unbound]]
    /\ got' = [got EXCEPT ![r] = [p \in Queries |-> NotRead]]
    /\ UNCHANGED logvars

Reader(r) ==
    \/ \E k \in Kinds : Request(r, k)
    \/ \E p \in Queries : BindQuery(r, p) \/ StepQuery(r, p)
    \/ Answer(r)

\* The collector runs on.
Collect ==
    /\ \/ BeginRound
       \/ \E R \in RowSets : CommitRows(R)
       \/ PublishRound
       \/ AbandonRound
    /\ UNCHANGED <<kind, stamp, got>>

Next ==
    \/ Collect
    \/ \E r \in Clients : Reader(r)

Spec == Init /\ [][Next]_vars

(***************************************************************************)
(* Properties.                                                             *)
(***************************************************************************)
\* Whatever a query returned for its timestamp, or an earlier one, is still
\* what the database holds: no operation reads a collection in the making
\* under a published timestamp.
ReadsAreFinal ==
    \A r \in Clients, p \in Queries :
        \A u \in DOMAIN got[r][p] :
            u <= stamp[r][p] => got[r][p][u] = archive[u][DatabaseOf(p)]

\* The answer of an operation speaks of one collection.
OneCollection(k) ==
    \A r \in Clients : kind[r] = k /\ Complete(r) =>
        \A p, q \in QueriesOf(k) : stamp[r][p] = stamp[r][q]

\* The answer of status speaks of one collection, however many are published
\* while its four threads run.
StatusOneCollection == OneCollection("status")

\* So do the mail report, the glimpse and op "info" of poool ("All database
\* operations can run in parallel without collisions").
RereadersOneCollection == OneCollection("report") /\ OneCollection("poool")
=============================================================================
