--------------------------- MODULE CollectorProof ---------------------------
(***************************************************************************)
(* Proofs about Collector: what holds for every farm, every number of       *)
(* databases and every bound, checked by TLAPS.                             *)
(***************************************************************************)
EXTENDS Collector, FiniteSetTheorems, SequenceTheorems, TLAPS

\* Where the thread is fixes how its timestamp relates to the clock and to the
\* two timestamps of the NVRAM page.
ClockInv ==
    /\ last <= current /\ current <= clock /\ ts <= clock
    /\ clock <= MaxTime
    /\ Collecting => ts = current /\ last < ts
    /\ pc = "idle" => ts = current /\ last = ts
    /\ pc = "boot" => current < clock

\* What is open when, and whose rows the transactions hold.
OpenInv ==
    /\ ~Collecting => conns = {} /\ todo = {} /\ txn = NoRows
    /\ pc \in {"drain", "commit"} => todo = {}
    /\ pc = "commit" => conns = {} /\ \A d \in DBs : d < cursor => txn[d] = <<>>
    /\ pc \in {"scan", "dispatch", "drain"} => cursor = 1
    /\ \A d \in DBs : \A i \in DOMAIN txn[d] : txn[d][i].time = ts

IInv == TypeOK /\ ClockInv /\ OpenInv

(***************************************************************************)
(* Lemmas about the operators.                                             *)
(***************************************************************************)
\* An element of s \o t is one of s or one of t, in its place.
LEMMA ConcatElement ==
    ASSUME NEW S, NEW s \in Seq(S), NEW t \in Seq(S), NEW i \in DOMAIN (s \o t)
    PROVE  \/ i \in DOMAIN s /\ (s \o t)[i] = s[i]
           \/ i - Len(s) \in DOMAIN t /\ (s \o t)[i] = t[i - Len(s)]
<1>1. Len(s) \in Nat /\ Len(t) \in Nat /\ i \in 1 .. Len(s) + Len(t)
    OBVIOUS
<1>2. CASE i <= Len(s)
    BY <1>1, <1>2
<1>3. CASE ~(i <= Len(s))
    <2>1. (s \o t)[i] = t[i - Len(s)]
        BY <1>1, <1>3, ConcatProperties
    <2>2. i - Len(s) \in 1 .. Len(t)
        BY <1>1, <1>3
    <2>3. DOMAIN t = 1 .. Len(t)
        OBVIOUS
    <2> QED BY <2>1, <2>2, <2>3
<1> QED BY <1>2, <1>3

\* The rows of a reply are rows of the running collection.
LEMMA NewRowsType ==
    ASSUME TypeOK, NEW c \in Controllers, NEW n \in Nat
    PROVE  /\ NewRows(c, n) \in Seq(Row)
           /\ Len(NewRows(c, n)) = n
           /\ \A i \in 1 .. n : NewRows(c, n)[i] = [time |-> ts, ctl |-> c]
BY DEF TypeOK, NewRows, Row

\* A reply inserts a number of rows.
LEMMA OutcomeType ==
    ASSUME NEW a \in DBs, NEW d \in DBs, NEW o \in Outcomes(a, d)
    PROVE  o.rows \in Nat
<1> DEFINE some == 0 .. (IF a = Summary THEN 1 ELSE MaxRows)
<1>0. some \subseteq Nat
    BY BoundsAssumption
<1>1. \/ o \in [rows : {0}, raises : BOOLEAN]
      \/ o \in [rows : {0}, raises : {TRUE}]
      \/ o \in [rows : some, raises : BOOLEAN]
      \/ o \in [rows : some, raises : {FALSE}]
      \/ o = [rows |-> 0, raises |-> TRUE]
    BY DEF Outcomes
<1>2. o.rows \in some \cup {0}
    <2> HIDE DEF some
    <2>1. ASSUME NEW S, NEW T, o \in [rows : S, raises : T] PROVE o.rows \in S
        BY <2>1
    <2>2. ASSUME o = [rows |-> 0, raises |-> TRUE] PROVE o.rows = 0
        BY <2>2
    <2> QED BY <1>1, <2>1, <2>2
<1> QED BY <1>0, <1>2

\* The APIs asked on the connections of one controller are numbered from 1 and
\* all differ, whichever connect calls fail.
LEMMA ApiNumbering ==
    ASSUME NEW up \in SUBSET DBs, NEW d \in up
    PROVE  /\ Cardinality({e \in up : e <= d}) \in DBs
           /\ \A f \in up : d < f =>
                Cardinality({e \in up : e <= d}) # Cardinality({e \in up : e <= f})
<1> DEFINE Upto(x) == {e \in up : e <= x}
<1>1. IsFiniteSet(DBs) /\ Cardinality(DBs) = NumDB
    BY FS_Interval, NumDBAssumption DEF DBs
<1>2. \A x \in up : IsFiniteSet(Upto(x)) /\ Cardinality(Upto(x)) \in Nat /\ Cardinality(Upto(x)) <= NumDB
    <2> SUFFICES ASSUME NEW x \in up
                 PROVE IsFiniteSet(Upto(x)) /\ Cardinality(Upto(x)) \in Nat /\ Cardinality(Upto(x)) <= NumDB
        OBVIOUS
    <2>1. Upto(x) \in SUBSET DBs
        OBVIOUS
    <2> QED BY <2>1, <1>1, FS_Subset, FS_CardinalityType
<1>3. Cardinality(Upto(d)) # 0
    <2>1. d \in Upto(d)
        BY NumDBAssumption DEF DBs
    <2> QED BY <2>1, <1>2, FS_EmptySet
<1>4. ASSUME NEW f \in up, d < f PROVE Cardinality(Upto(d)) # Cardinality(Upto(f))
    <2>0. d \in Nat /\ f \in Nat /\ up \subseteq Nat
        BY NumDBAssumption DEF DBs
    <2>1. Upto(d) \in SUBSET Upto(f)
        <3>1. \A e \in up : e <= d => e <= f
            BY <1>4, <2>0
        <3> QED BY <3>1
    <2>2. f \in Upto(f) /\ f \notin Upto(d)
        BY <1>4, <2>0
    <2> QED BY <2>1, <2>2, <1>2, FS_Subset
<1> QED BY <1>2, <1>3, <1>4, NumDBAssumption DEF DBs

\* What OpenController adds are connections.
LEMMA OpenedType ==
    ASSUME NEW c \in Controllers, NEW up \in SUBSET DBs
    PROVE  Opened(c, up) \subseteq Connection
<1>1. ASSUME NEW d \in up
      PROVE  [ctl |-> c, db |-> d, api |-> Cardinality({e \in up : e <= d}),
              stage |-> "connecting"] \in Connection
    <2>1. Cardinality({e \in up : e <= d}) \in DBs
        BY ApiNumbering
    <2> QED BY <2>1 DEF Connection
<1> QED BY <1>1 DEF Opened

(***************************************************************************)
(* The inductive invariant.                                                *)
(***************************************************************************)
LEMMA InitIInv == Init => IInv
<1> SUFFICES ASSUME Init PROVE IInv
    OBVIOUS
<1> USE DEF Init
<1>1. TypeOK
    BY NumDBAssumption DEF TypeOK, NoRows, DBs
<1>2. ClockInv
    BY BoundsAssumption DEF ClockInv, Collecting
<1>3. OpenInv
    BY DEF OpenInv, Collecting, NoRows
<1> QED BY <1>1, <1>2, <1>3 DEF IInv

LEMMA EnvironmentIInv ==
    IInv /\ (Tick \/ EditFarm \/ Crash \/ Restart \/ Start) => IInv'
<1> USE DEF IInv
<1>1. ASSUME IInv, Tick PROVE IInv'
    <2>1. TypeOK'
        BY <1>1 DEF Tick, TypeOK
    <2>2. ClockInv'
        BY <1>1, BoundsAssumption DEF Tick, TypeOK, ClockInv, Collecting
    <2>3. OpenInv'
        BY <1>1 DEF Tick, OpenInv, Collecting
    <2> QED BY <2>1, <2>2, <2>3
<1>2. ASSUME IInv, EditFarm PROVE IInv'
    BY <1>2 DEF EditFarm, TypeOK, ClockInv, OpenInv, Collecting, nvram
<1>3. ASSUME IInv, Crash PROVE IInv'
    <2>1. TypeOK'
        BY <1>3, NumDBAssumption DEF Crash, TypeOK, NoRows, DBs, nvram
    <2>2. ClockInv' /\ OpenInv'
        BY <1>3 DEF Crash, TypeOK, ClockInv, OpenInv, Collecting, NoRows, nvram
    <2> QED BY <2>1, <2>2
<1>4. ASSUME IInv, Restart PROVE IInv'
    BY <1>4, ClockAssumption, BoundsAssumption
    DEF Restart, TypeOK, ClockInv, OpenInv, Collecting, nvram
<1>5. ASSUME IInv, Start PROVE IInv'
    <2>1. TypeOK'
        BY <1>5, NumDBAssumption DEF Start, TypeOK, NoRows, DBs
    <2>2. ClockInv'
        BY <1>5, ClockAssumption DEF Start, TypeOK, ClockInv, Collecting
    <2>3. OpenInv'
        BY <1>5 DEF Start, TypeOK, OpenInv, Collecting, NoRows
    <2> QED BY <2>1, <2>2, <2>3
<1> QED BY <1>1, <1>2, <1>3, <1>4, <1>5

LEMMA ThreadIInv == IInv /\ Thread => IInv'
<1> USE DEF IInv
<1>1. ASSUME IInv, NEW c \in Controllers, OpenController(c) PROVE IInv'
    <2> PICK up \in SUBSET DBs :
            /\ conns' = conns \cup Opened(c, up)
            /\ excused' = IF up = {} THEN excused \cup {c} ELSE excused
        BY <1>1 DEF OpenController
    <2>1. TypeOK'
        BY <1>1, OpenedType DEF OpenController, TypeOK, nvram
    <2>2. ClockInv' /\ OpenInv'
        BY <1>1 DEF OpenController, TypeOK, ClockInv, OpenInv, Collecting, nvram
    <2> QED BY <2>1, <2>2
<1>2. ASSUME IInv, BatchFull \/ BatchDone \/ ScanDone PROVE IInv'
    BY <1>2 DEF BatchFull, BatchDone, ScanDone, TypeOK, ClockInv, OpenInv, Collecting, nvram
<1>3. ASSUME IInv, DrainDone PROVE IInv'
    <2>1. TypeOK' /\ ClockInv'
        BY <1>3 DEF DrainDone, Drained, TypeOK, ClockInv, Collecting, nvram
    <2>2. cursor = 1
        BY <1>3 DEF DrainDone, Drained, OpenInv
    <2>3. OpenInv'
        BY <1>3, <2>2 DEF DrainDone, Drained, OpenInv, Collecting, DBs
    <2> QED BY <2>1, <2>3
<1>4. ASSUME IInv, CommitNext PROVE IInv'
    <2>1. cursor \in DBs /\ cursor' = cursor + 1 /\ cursor' \in 1 .. NumDB + 1
        BY <1>4, NumDBAssumption DEF CommitNext, TypeOK, DBs
    <2>2. TypeOK'
        BY <1>4, <2>1 DEF CommitNext, Committed, TypeOK, nvram
    <2>3. ClockInv'
        BY <1>4 DEF CommitNext, Committed, TypeOK, ClockInv, Collecting, nvram
    <2>4. OpenInv'
        BY <1>4, <2>1, NumDBAssumption
        DEF CommitNext, Committed, TypeOK, OpenInv, Collecting, nvram, DBs
    <2> QED BY <2>2, <2>3, <2>4
<1>5. ASSUME IInv, PublishCollection PROVE IInv'
    <2>1. txn = NoRows
        BY <1>5, NumDBAssumption DEF PublishCollection, AllCommitted, PublishedStamp, TypeOK, OpenInv, NoRows, DBs
    <2>2. TypeOK' /\ ClockInv'
        BY <1>5 DEF PublishCollection, AllCommitted, PublishedStamp, TypeOK, ClockInv, Collecting
    <2>3. OpenInv'
        BY <1>5, <2>1 DEF PublishCollection, AllCommitted, PublishedStamp, OpenInv, Collecting, NoRows
    <2> QED BY <2>2, <2>3
<1> QED BY <1>1, <1>2, <1>3, <1>4, <1>5 DEF Thread

LEMMA DeliverIInv == IInv /\ Deliver => IInv'
<1> USE DEF IInv
<1> SUFFICES ASSUME IInv, NEW k \in conns, Event(k) PROVE IInv'
    BY DEF Deliver
<1>0. k \in Connection /\ k.ctl \in Controllers /\ k.db \in DBs /\ k.api \in DBs
    BY DEF TypeOK, Connection
<1>1. CASE Connected(k)
    <2>1. [k EXCEPT !.stage = "queried"] \in Connection
        BY <1>0 DEF Connection
    <2>2. TypeOK'
        BY <1>1, <2>1 DEF Connected, TypeOK, nvram
    <2>3. ClockInv' /\ OpenInv'
        BY <1>1 DEF Connected, Dispatching, TypeOK, ClockInv, OpenInv, Collecting, nvram
    <2> QED BY <2>2, <2>3
<1>2. CASE Reply(k)
    <2> PICK o \in Outcomes(k.api, k.db) :
            /\ txn' = [txn EXCEPT ![k.db] = @ \o NewRows(k.ctl, o.rows)]
            /\ ext' = IF k.api = EStats THEN ext \cup NewExtRows(k, o.rows) ELSE ext
            /\ issues' = ReplyIssues(k, o.raises)
            /\ excused' = IF k.api = Summary /\ o.rows = 0 /\ ~o.raises
                          THEN excused \cup {k.ctl} ELSE excused
        BY <1>2 DEF Reply
    <2>1. o.rows \in Nat
        BY <1>0, OutcomeType
    <2>2. /\ NewRows(k.ctl, o.rows) \in Seq(Row)
          /\ Len(NewRows(k.ctl, o.rows)) = o.rows
          /\ \A i \in 1 .. o.rows : NewRows(k.ctl, o.rows)[i] = [time |-> ts, ctl |-> k.ctl]
        BY <1>0, <2>1, NewRowsType
    <2>3. txn' \in [DBs -> Seq(Row)]
        BY <2>2, <1>0 DEF TypeOK
    <2>4. ext' \subseteq ExtRow
        <3>1. EStats \in DBs
            BY NumDBAssumption DEF DBs, EStats
        <3>2. NewExtRows(k, o.rows) \subseteq ExtRow
            BY <1>0, <2>1, <3>1 DEF NewExtRows, ExtRow, TypeOK
        <3> QED BY <3>2 DEF TypeOK
    <2>5. issues' \subseteq IssueRow
        BY <1>0 DEF ReplyIssues, Report, IssueRow, IssueKind, TypeOK
    <2>6. TypeOK'
        BY <1>2, <2>3, <2>4, <2>5, <1>0 DEF Reply, TypeOK, nvram
    <2>7. ClockInv'
        BY <1>2 DEF Reply, Dispatching, TypeOK, ClockInv, Collecting, nvram
    <2>8. ASSUME NEW d \in DBs, NEW i \in DOMAIN txn'[d] PROVE txn'[d][i].time = ts'
        <3>1. CASE d # k.db
            BY <3>1, <1>2 DEF Reply, TypeOK, OpenInv
        <3>2. CASE d = k.db
            <4>1. txn'[d] = txn[d] \o NewRows(k.ctl, o.rows) /\ txn[d] \in Seq(Row)
                BY <3>2 DEF TypeOK
            <4>2. CASE i \in DOMAIN txn[d] /\ txn'[d][i] = txn[d][i]
                BY <4>2, <1>2 DEF Reply, OpenInv
            <4>3. CASE /\ i - Len(txn[d]) \in DOMAIN NewRows(k.ctl, o.rows)
                       /\ txn'[d][i] = NewRows(k.ctl, o.rows)[i - Len(txn[d])]
                <5> DEFINE new == NewRows(k.ctl, o.rows)
                            j == i - Len(txn[d])
                <5>1. new \in Seq(Row) /\ j \in DOMAIN new /\ txn'[d][i] = new[j]
                    BY <4>3, <2>2
                <5>2. DOMAIN new = 1 .. o.rows
                    BY <2>2
                <5>3. new[j] = [time |-> ts, ctl |-> k.ctl]
                    BY <5>1, <5>2, <2>2
                <5> HIDE DEF new, j
                <5>4. txn'[d][i] = [time |-> ts, ctl |-> k.ctl]
                    BY <5>1, <5>3
                <5>5. [time |-> ts, ctl |-> k.ctl].time = ts
                    OBVIOUS
                <5>6. ts' = ts
                    BY <1>2 DEF Reply
                <5> QED BY <5>4, <5>5, <5>6, Zenon
            <4>4. i \in DOMAIN (txn[d] \o NewRows(k.ctl, o.rows))
                BY <4>1
            <4>5. \/ i \in DOMAIN txn[d] /\ txn'[d][i] = txn[d][i]
                  \/ /\ i - Len(txn[d]) \in DOMAIN NewRows(k.ctl, o.rows)
                     /\ txn'[d][i] = NewRows(k.ctl, o.rows)[i - Len(txn[d])]
                <5> DEFINE new == NewRows(k.ctl, o.rows)
                <5>1. txn[d] \in Seq(Row) /\ new \in Seq(Row) /\ i \in DOMAIN (txn[d] \o new)
                    BY <4>1, <4>4, <2>2
                <5> HIDE DEF new
                <5>2. \/ i \in DOMAIN txn[d] /\ (txn[d] \o new)[i] = txn[d][i]
                      \/ i - Len(txn[d]) \in DOMAIN new /\ (txn[d] \o new)[i] = new[i - Len(txn[d])]
                    BY <5>1, ConcatElement
                <5> QED BY <4>1, <5>2 DEF new
            <4> QED BY <4>2, <4>3, <4>5
        <3> QED BY <3>1, <3>2
    <2>9. OpenInv'
        BY <1>2, <2>8 DEF Reply, Dispatching, OpenInv, Collecting
    <2> QED BY <2>6, <2>7, <2>9
<1>3. ASSUME NEW kind \in {"ConnectionFailure", "ConnectionTimeout"}, Fails(k, kind)
      PROVE  IInv'
    <2>1. issues' \subseteq IssueRow
        BY <1>0, <1>3 DEF Fails, Freed, Report, IssueRow, IssueKind, TypeOK
    <2>2. TypeOK'
        BY <1>3, <2>1 DEF Fails, Freed, TypeOK, nvram
    <2>3. ClockInv' /\ OpenInv'
        BY <1>3 DEF Fails, Freed, Dispatching, TypeOK, ClockInv, OpenInv, Collecting, nvram
    <2> QED BY <2>2, <2>3
<1> QED BY <1>1, <1>2, <1>3 DEF Event

LEMMA NextIInv == IInv /\ [Next]_vars => IInv'
<1>1. IInv /\ UNCHANGED vars => IInv'
    BY DEF IInv, vars, TypeOK, ClockInv, OpenInv, Collecting
<1> QED BY <1>1, EnvironmentIInv, ThreadIInv, DeliverIInv DEF Next

\* The inductive invariant holds in every reachable state.
THEOREM Invariance == Spec => []IInv
BY InitIInv, NextIInv, PTL DEF Spec

\* Every variable of the collector keeps its type: in particular no rowid, no
\* API number and no connection is ever made up out of range.
THEOREM TypeCorrect == Spec => []TypeOK
<1>1. IInv => TypeOK
    BY DEF IInv
<1> QED BY <1>1, Invariance, PTL

\* A published collection is closed (Collector.cpp, the last write of Collect).
THEOREM PublishedIsClosed == Spec => []PublishedClosed
<1>1. IInv => PublishedClosed
    <2> SUFFICES ASSUME IInv, last = ts PROVE conns = {} /\ todo = {} /\ \A d \in DBs : txn[d] = <<>>
        BY DEF PublishedClosed
    <2>1. ~Collecting
        BY DEF IInv, ClockInv, TypeOK
    <2> QED BY <2>1 DEF IInv, OpenInv, NoRows
<1> QED BY <1>1, Invariance, PTL

\* What a transaction holds is newer than what is published.
THEOREM UncommittedAfterPublished == Spec => []UncommittedIsNew
<1>1. IInv => UncommittedIsNew
    <2> SUFFICES ASSUME IInv, NEW d \in DBs, NEW i \in DOMAIN txn[d]
                 PROVE  txn[d][i].time > last
        BY DEF UncommittedIsNew
    <2>1. Collecting
        BY DEF IInv, OpenInv, NoRows
    <2>2. last < ts /\ txn[d][i].time = ts
        BY <2>1 DEF IInv, ClockInv, OpenInv
    <2>3. last \in Nat /\ ts \in Nat
        BY DEF IInv, TypeOK
    <2> QED BY <2>2, <2>3
<1> QED BY <1>1, Invariance, PTL

(***************************************************************************)
(* A collection gets nearer its end.                                        *)
(***************************************************************************)
FiniteInv == IsFiniteSet(conns) /\ IsFiniteSet(todo)

\* A controller has one connection per database at most.
LEMMA OpenedFew ==
    ASSUME NEW c, NEW up \in SUBSET DBs
    PROVE  /\ IsFiniteSet(Opened(c, up))
           /\ Cardinality(Opened(c, up)) \in Nat /\ Cardinality(Opened(c, up)) <= NumDB
<1> DEFINE f == [d \in up |-> [ctl |-> c, db |-> d, api |-> Cardinality({e \in up : e <= d}),
                               stage |-> "connecting"]]
<1>1. IsFiniteSet(DBs) /\ Cardinality(DBs) = NumDB
    BY NumDBAssumption, FS_Interval DEF DBs
<1>2. IsFiniteSet(up) /\ Cardinality(up) <= NumDB /\ Cardinality(up) \in Nat
    BY <1>1, FS_Subset, FS_CardinalityType
<1>3. f \in Surjection(up, Opened(c, up))
    BY DEF Opened, Surjection
<1> HIDE DEF f
<1>4. IsFiniteSet(Opened(c, up)) /\ Cardinality(Opened(c, up)) <= Cardinality(up)
    BY <1>2, <1>3, FS_Surjection
<1>5. Cardinality(Opened(c, up)) \in Nat
    BY <1>4, FS_CardinalityType
<1> QED BY <1>2, <1>4, <1>5, NumDBAssumption

LEMMA FiniteStep == IInv /\ FiniteInv /\ [Next]_vars => FiniteInv'
<1> SUFFICES ASSUME IInv, FiniteInv, [Next]_vars PROVE FiniteInv'
    OBVIOUS
<1>1. IsFiniteSet(todo')
    <2>1. todo' \subseteq todo \/ todo' \subseteq Controllers
        BY DEF IInv, TypeOK, Next, vars, Tick, EditFarm, Crash, Restart, Start, Thread,
            OpenController, BatchFull, BatchDone, ScanDone, DrainDone, CommitNext,
            PublishCollection, Deliver, Event, Connected, Reply, Fails
    <2> QED BY <2>1, ControllersAssumption, FS_Subset DEF FiniteInv
<1>2. CASE \E c \in Controllers : OpenController(c)
    <2>1. PICK c \in Controllers, up \in SUBSET DBs : conns' = conns \cup Opened(c, up)
        BY <1>2 DEF OpenController
    <2>2. IsFiniteSet(conns')
        BY <2>1, OpenedFew, FS_Union DEF FiniteInv
    <2> QED BY <1>1, <2>2 DEF FiniteInv
<1>3. CASE \E k \in conns : Connected(k)
    <2>1. PICK k \in conns : conns' = (conns \ {k}) \cup {[k EXCEPT !.stage = "queried"]}
        BY <1>3 DEF Connected
    <2>2. IsFiniteSet(conns \ {k})
        BY FS_RemoveElement DEF FiniteInv
    <2>3. IsFiniteSet(conns')
        BY <2>1, <2>2, FS_AddElement
    <2> QED BY <1>1, <2>3 DEF FiniteInv
<1>4. CASE conns' \subseteq conns
    BY <1>1, <1>4, FS_Subset DEF FiniteInv
<1> QED
    BY <1>2, <1>3, <1>4 DEF Next, vars, Tick, EditFarm, Crash, Restart, Start, Thread,
        BatchFull, BatchDone, ScanDone, DrainDone, CommitNext, PublishCollection,
        Deliver, Event, Reply, Fails, Freed

LEMMA Times == \A n \in Nat, m \in Nat : (2 * n + 3) * (m + 1) = (2 * n + 3) * m + (2 * n + 3)
OBVIOUS

\* What is left to do while the event base is in use.
LEMMA StepsAt ==
    /\ pc \in {"scan", "dispatch", "drain"} =>
           StepsLeft = NumDB + 2 + Phases[pc] + (2 * NumDB + 3) * Cardinality(todo)
                           + Cardinality(conns) + Cardinality(Connecting)
                           + IF pc = "scan" /\ batch > BatchLimit THEN 2 ELSE 0
    /\ pc = "commit" => StepsLeft = NumDB + 2 - cursor
    /\ pc \notin {"scan", "dispatch", "drain", "commit"} => StepsLeft = 0
BY DEF StepsLeft

LEMMA StepsNext ==
    /\ pc' \in {"scan", "dispatch", "drain"} =>
           StepsLeft' = NumDB + 2 + Phases[pc'] + (2 * NumDB + 3) * Cardinality(todo')
                            + Cardinality(conns') + Cardinality(Connecting')
                            + IF pc' = "scan" /\ batch' > BatchLimit THEN 2 ELSE 0
    /\ pc' = "commit" => StepsLeft' = NumDB + 2 - cursor'
    /\ pc' \notin {"scan", "dispatch", "drain", "commit"} => StepsLeft' = 0
BY DEF StepsLeft

LEMMA CountsAre ==
    ASSUME FiniteInv
    PROVE  /\ Cardinality(todo) \in Nat /\ Cardinality(conns) \in Nat
           /\ IsFiniteSet(Connecting) /\ Cardinality(Connecting) \in Nat
<1>1. IsFiniteSet(Connecting)
    BY FS_Subset DEF FiniteInv, Connecting
<1> QED BY <1>1, FS_CardinalityType DEF FiniteInv

\* A turn of the controller loop opens fewer connections than it was reckoned with.
LEMMA OpenAdvances ==
    ASSUME IInv, FiniteInv, NEW c \in Controllers, OpenController(c)
    PROVE  StepsLeft' < StepsLeft
<1>1. PICK up \in SUBSET DBs : conns' = conns \cup Opened(c, up)
    BY DEF OpenController
<1>2. /\ pc = "scan" /\ pc' = "scan" /\ c \in todo /\ todo' = todo \ {c}
      /\ batch <= BatchLimit
    BY DEF OpenController
<1> DEFINE o == Cardinality(Opened(c, up))
           n == Cardinality(conns)
           p == Cardinality(Connecting)
           m == Cardinality(todo')
<1>3. o \in Nat /\ o <= NumDB /\ IsFiniteSet(Opened(c, up))
    BY OpenedFew
<1>4. /\ n \in Nat /\ p \in Nat /\ IsFiniteSet(conns) /\ IsFiniteSet(Connecting)
      /\ Cardinality(todo) \in Nat /\ IsFiniteSet(todo)
    BY CountsAre DEF FiniteInv
<1>5. Cardinality(todo) = m + 1 /\ m \in Nat
    <2>1. IsFiniteSet(todo')
        BY <1>2, <1>4, FS_RemoveElement
    <2>2. m \in Nat
        BY <2>1, FS_CardinalityType
    <2>3. m = Cardinality(todo) - 1
        BY <1>2, <1>4, FS_RemoveElement
    <2> QED BY <1>4, <2>2, <2>3
<1>6. Cardinality(conns') \in Nat /\ Cardinality(conns') <= n + o
    <2>1. /\ IsFiniteSet(conns \cup Opened(c, up))
          /\ Cardinality(conns \cup Opened(c, up))
                 = n + o - Cardinality(conns \cap Opened(c, up))
        BY <1>3, <1>4, FS_Union
    <2>2. Cardinality(conns \cap Opened(c, up)) \in Nat
        BY <1>4, FS_Intersection, FS_CardinalityType
    <2> QED BY <1>1, <1>3, <1>4, <2>1, <2>2, FS_CardinalityType
<1>7. Cardinality(Connecting') \in Nat /\ Cardinality(Connecting') <= p + o
    <2>1. /\ IsFiniteSet(Connecting \cup Opened(c, up))
          /\ Cardinality(Connecting \cup Opened(c, up))
                 = p + o - Cardinality(Connecting \cap Opened(c, up))
        BY <1>3, <1>4, FS_Union
    <2>2. Cardinality(Connecting \cap Opened(c, up)) \in Nat
        BY <1>4, FS_Intersection, FS_CardinalityType
    <2>3. Connecting' = Connecting \cup Opened(c, up)
        <3>1. ASSUME NEW k \in Opened(c, up) PROVE k.stage = "connecting"
            <4>1. PICK d \in up :
                    k = [ctl |-> c, db |-> d, api |-> Cardinality({e \in up : e <= d}),
                         stage |-> "connecting"]
                BY DEF Opened
            <4> QED BY <4>1
        <3>2. Connecting' = {k \in conns \cup Opened(c, up) : k.stage = "connecting"}
            BY <1>1 DEF Connecting
        <3> QED BY <3>1, <3>2 DEF Connecting
    <2> QED BY <1>3, <1>4, <2>1, <2>2, <2>3, FS_CardinalityType
<1>8. StepsLeft = NumDB + 2 + 1 + (2 * NumDB + 3) * (m + 1) + n + p
    <2>1. StepsLeft = NumDB + 2 + Phases[pc] + (2 * NumDB + 3) * Cardinality(todo) + n + p
                          + IF pc = "scan" /\ batch > BatchLimit THEN 2 ELSE 0
        BY <1>2, StepsAt
    <2>2. ~(batch > BatchLimit) /\ Phases[pc] = 1
        BY <1>2, BoundsAssumption DEF Phases, IInv, TypeOK
    <2> HIDE DEF m, n, p
    <2> QED BY <1>4, <1>5, <2>1, <2>2, NumDBAssumption
<1> DEFINE w == (2 * NumDB + 3) * m
<1>9. (2 * NumDB + 3) * (m + 1) = w + (2 * NumDB + 3) /\ w \in Nat
    BY <1>5, NumDBAssumption, Times
<1>10. StepsLeft' <= NumDB + 2 + 1 + w + Cardinality(conns') + Cardinality(Connecting') + 2
    <2>1. StepsLeft' = NumDB + 2 + Phases[pc'] + w + Cardinality(conns') + Cardinality(Connecting')
                          + IF pc' = "scan" /\ batch' > BatchLimit THEN 2 ELSE 0
        BY <1>2, StepsNext
    <2>2. Phases[pc'] = 1
        BY <1>2 DEF Phases
    <2> HIDE DEF w
    <2> QED BY <1>6, <1>7, <1>9, <2>1, <2>2, NumDBAssumption
<1>11. StepsLeft' \in Int
    BY <1>2, <1>5, <1>6, <1>7, <1>9, StepsNext, NumDBAssumption DEF Phases
<1> HIDE DEF m, n, p, o, w
<1> QED BY <1>3, <1>4, <1>5, <1>6, <1>7, <1>8, <1>9, <1>10, <1>11, NumDBAssumption

\* Each thing that happens on a connection is one thing less that can happen.
LEMMA DeliverAdvances ==
    ASSUME IInv, FiniteInv, Deliver
    PROVE  StepsLeft' < StepsLeft
<1>1. PICK k \in conns : Event(k)
    BY DEF Deliver
<1>2. /\ pc \in {"dispatch", "drain"} /\ pc' = pc /\ todo' = todo
    BY <1>1 DEF Event, Connected, Reply, Fails, Dispatching
<1> DEFINE n == Cardinality(conns)
           p == Cardinality(Connecting)
           q == [k EXCEPT !.stage = "queried"]
<1>3. /\ n \in Nat /\ p \in Nat /\ Cardinality(todo) \in Nat
      /\ IsFiniteSet(conns) /\ IsFiniteSet(Connecting)
    BY CountsAre DEF FiniteInv
<1>4. /\ IsFiniteSet(conns \ {k}) /\ Cardinality(conns \ {k}) = n - 1
      /\ Cardinality(conns \ {k}) \in Nat
    BY <1>3, FS_RemoveElement, FS_CardinalityType
<1>5. Cardinality(conns') \in Nat /\ Cardinality(Connecting') \in Nat
        /\ Cardinality(conns') + Cardinality(Connecting') < n + p
    <2>1. CASE Connected(k)
        <3>1. /\ k.stage = "connecting" /\ q.stage = "queried"
              /\ conns' = (conns \ {k}) \cup {q}
            BY <2>1 DEF Connected, IInv, TypeOK, Connection
        <3>2. Cardinality(conns') \in Nat /\ Cardinality(conns') <= n
            <4>1. IsFiniteSet(conns')
                BY <1>4, <3>1, FS_AddElement
            <4>2. Cardinality(conns') = n - 1 \/ Cardinality(conns') = (n - 1) + 1
                <5> DEFINE rest == conns \ {k}
                <5>1. IsFiniteSet(rest) /\ Cardinality(rest) = n - 1
                    BY <1>4
                <5>2. conns' = rest \cup {q}
                    BY <3>1
                <5> HIDE DEF rest, q, n
                <5>3. Cardinality(rest \cup {q})
                        = IF q \in rest THEN Cardinality(rest) ELSE Cardinality(rest) + 1
                    BY <5>1, FS_AddElement
                <5> QED BY <5>1, <5>2, <5>3
            <4> HIDE DEF n
            <4> QED BY <1>3, <4>1, <4>2, FS_CardinalityType
        <3>3. Connecting' = Connecting \ {k} /\ k \in Connecting
            <4>1. Connecting' = {j \in (conns \ {k}) \cup {q} : j.stage = "connecting"}
                BY <3>1 DEF Connecting
            <4> HIDE DEF q
            <4> QED BY <3>1, <4>1 DEF Connecting
        <3>4. IsFiniteSet(Connecting') /\ Cardinality(Connecting') = p - 1
            BY <1>3, <3>3, FS_RemoveElement
        <3>5. Cardinality(Connecting') \in Nat
            BY <3>4, FS_CardinalityType
        <3> HIDE DEF n, p
        <3> QED BY <1>3, <3>2, <3>4, <3>5
    <2>2. CASE conns' = conns \ {k}
        <3>1. Connecting' \subseteq Connecting
            BY <2>2 DEF Connecting
        <3>2. Cardinality(Connecting') \in Nat /\ Cardinality(Connecting') <= p
            BY <1>3, <3>1, FS_Subset, FS_CardinalityType
        <3>3. Cardinality(conns') = n - 1 /\ Cardinality(conns') \in Nat
            BY <1>4, <2>2
        <3> HIDE DEF n, p
        <3> QED BY <1>3, <3>2, <3>3
    <2> QED BY <1>1, <2>1, <2>2 DEF Event, Reply, Fails, Freed
<1> DEFINE w == (2 * NumDB + 3) * Cardinality(todo)
<1>6. w \in Nat /\ Phases[pc] \in Nat
    BY <1>2, <1>3, NumDBAssumption DEF Phases
<1>7. StepsLeft = NumDB + 2 + Phases[pc] + w + n + p
    <2>1. StepsLeft = NumDB + 2 + Phases[pc] + w + n + p
                          + IF pc = "scan" /\ batch > BatchLimit THEN 2 ELSE 0
        BY <1>2, StepsAt
    <2> HIDE DEF w, n, p
    <2> QED BY <1>2, <1>3, <1>6, <2>1, NumDBAssumption
<1>8. StepsLeft' = NumDB + 2 + Phases[pc] + w + Cardinality(conns') + Cardinality(Connecting')
    <2>1. StepsLeft' = NumDB + 2 + Phases[pc'] + (2 * NumDB + 3) * Cardinality(todo')
                           + Cardinality(conns') + Cardinality(Connecting')
                           + IF pc' = "scan" /\ batch' > BatchLimit THEN 2 ELSE 0
        BY <1>2, StepsNext
    <2>2. pc' # "scan" /\ Phases[pc'] = Phases[pc] /\ (2 * NumDB + 3) * Cardinality(todo') = w
        BY <1>2
    <2> HIDE DEF w
    <2> QED BY <1>5, <1>6, <2>1, <2>2, NumDBAssumption
<1> HIDE DEF n, p, w
<1> QED BY <1>3, <1>5, <1>6, <1>7, <1>8, NumDBAssumption

\* The steps that leave the controllers and their connections as they are.
LEMMA MoveAdvances ==
    ASSUME IInv, FiniteInv,
           \/ BatchFull \/ BatchDone \/ ScanDone \/ DrainDone \/ CommitNext
           \/ PublishCollection
    PROVE  StepsLeft' < StepsLeft
<1> DEFINE n == Cardinality(conns)
           p == Cardinality(Connecting)
           w == (2 * NumDB + 3) * Cardinality(todo)
<1>1. n \in Nat /\ p \in Nat /\ w \in Nat /\ cursor \in 1 .. NumDB + 1 /\ NumDB \in Nat
    <2>1. Cardinality(todo) \in Nat
        BY CountsAre
    <2> QED BY <2>1, CountsAre, NumDBAssumption DEF IInv, TypeOK
<1>2. /\ conns' = conns /\ todo' = todo /\ Connecting' = Connecting
    BY DEF BatchFull, BatchDone, ScanDone, DrainDone, CommitNext, PublishCollection,
        Connecting
<1>3. pc \in {"scan", "dispatch", "drain"} =>
          StepsLeft = NumDB + 2 + Phases[pc] + w + n + p
                          + IF pc = "scan" /\ batch > BatchLimit THEN 2 ELSE 0
    BY StepsAt
<1>4. pc' \in {"scan", "dispatch", "drain"} =>
          StepsLeft' = NumDB + 2 + Phases[pc'] + w + n + p
                           + IF pc' = "scan" /\ batch' > BatchLimit THEN 2 ELSE 0
    BY <1>2, StepsNext
<1> HIDE DEF n, p, w
<1> USE DEF Phases
<1>5. CASE BatchFull
    BY <1>1, <1>3, <1>4, <1>5 DEF BatchFull
<1>6. CASE BatchDone
    <2>1. ~(batch' > BatchLimit)
        BY <1>6, BoundsAssumption DEF BatchDone
    <2> QED BY <1>1, <1>3, <1>4, <1>6, <2>1 DEF BatchDone
<1>7. CASE ScanDone
    BY <1>1, <1>3, <1>4, <1>7 DEF ScanDone
<1>8. CASE DrainDone
    <2>1. StepsLeft' = NumDB + 2 - cursor /\ pc = "drain"
        BY <1>8, StepsNext DEF DrainDone
    <2> QED BY <1>1, <1>3, <2>1
<1>9. CASE CommitNext
    <2>1. StepsLeft' = NumDB + 2 - (cursor + 1) /\ StepsLeft = NumDB + 2 - cursor
        BY <1>9, StepsAt, StepsNext DEF CommitNext
    <2> QED BY <1>1, <2>1
<1>10. CASE PublishCollection
    <2>1. StepsLeft' = 0 /\ StepsLeft = NumDB + 2 - cursor
        BY <1>10, StepsAt, StepsNext DEF PublishCollection
    <2> QED BY <1>1, <2>1
<1> QED BY <1>5, <1>6, <1>7, <1>8, <1>9, <1>10

LEMMA StepAdvances ==
    IInv /\ FiniteInv /\ [Next]_vars =>
        [Collecting =>
           \/ pc' = "down"
           \/ StepsLeft' < StepsLeft
           \/ UNCHANGED <<pc, todo, batch, conns, stored, txn, cursor, ext, issues>>]_vars
<1> SUFFICES ASSUME IInv, FiniteInv, Next, Collecting
             PROVE  \/ pc' = "down"
                    \/ StepsLeft' < StepsLeft
                    \/ UNCHANGED <<pc, todo, batch, conns, stored, txn, cursor, ext, issues>>
    OBVIOUS
<1>1. CASE Tick \/ EditFarm \/ Crash
    BY <1>1 DEF Tick, EditFarm, Crash
<1>2. CASE Restart \/ Start
    BY <1>2 DEF Restart, Start, Collecting
<1>3. CASE Thread
    BY <1>3, OpenAdvances, MoveAdvances DEF Thread
<1>4. CASE Deliver
    BY <1>4, DeliverAdvances
<1> QED BY <1>1, <1>2, <1>3, <1>4 DEF Next

\* A collection of n controllers ends after at most n * (2 * NumDB + 3) + NumDB + 3 steps
\* of its thread and of libevent, unless the process dies (Collector.cpp, Collect).
THEOREM AdvancesAlways == Spec => CollectionAdvances
<1>1. Init => FiniteInv
    BY ControllersAssumption, FS_EmptySet DEF Init, FiniteInv
<1> QED BY <1>1, Invariance, FiniteStep, StepAdvances, PTL DEF Spec, CollectionAdvances
=============================================================================
