--------------------------- MODULE FarmReadersProof ---------------------------
(***************************************************************************)
(* Proofs about CommitLog and FarmReaders, checked by TLAPS: committing      *)
(* table by table keeps the promise of FarmArchive, and what the readers      *)
(* make of it, for every number of databases, readers and every clock.       *)
(***************************************************************************)
EXTENDS FarmReaders, TLAPS

\* The round that runs is later than what is published.
RoundInv ==
    /\ LogTypeOK
    /\ published <= round
    /\ reached # 0 => published < round

\* A timestamp bound to a query was published, and what was read under it, or an
\* earlier one, is final.
StampInv ==
    /\ stamp \in [Clients -> [Queries -> Times \cup {Unbound}]]
    /\ \A r \in Clients, p \in Queries : stamp[r][p] <= published

Reads == UNION {[T -> RowSets] : T \in SUBSET Times}

\* Kinds and rows are kept per client and query.
ShapeInv ==
    /\ kind \in [Clients -> Kinds \cup {"none"}]
    /\ got \in [Clients -> [Queries -> Reads]]

\* A client between two operations has nothing read.
IdleInv ==
    \A r \in Clients, p \in Queries : kind[r] = "none" => got[r][p] = NotRead

\* Status binds its queries at once.
StatusInv ==
    \A r \in Clients : kind[r] = "status" =>
        \A p, q \in QueriesOf("status") :
            stamp[r][p] = stamp[r][q] /\ stamp[r][p] # Unbound

\* A query that is not bound has read nothing.
UnboundInv ==
    \A r \in Clients, p \in Queries : stamp[r][p] = Unbound => got[r][p] = NotRead

IInv ==
    RoundInv /\ StampInv /\ ShapeInv /\ IdleInv /\ UnboundInv /\ ReadsAreFinal
    /\ StatusInv

(***************************************************************************)
(* Lemmas.                                                                 *)
(***************************************************************************)
LEMMA TimeIs == MaxTime \in Nat /\ \A t : t \in Times <=> t \in Nat /\ t <= MaxTime
BY CommitLogAssumption DEF Times

LEMMA DatabaseIs == \A p \in Queries : DatabaseOf(p) \in 1 .. 4
BY DEF Queries, DatabaseOf

\* A step of the collector leaves alone whatever is published, and publishes in
\* increasing order.
LEMMA RoundStep ==
    ASSUME RoundInv, LogNext
    PROVE  /\ RoundInv'
           /\ published <= published'
           /\ \A t \in Times : t <= published => archive'[t] = archive[t]
           /\ published' # published => archive' = archive
<1> USE DEF RoundInv
<1>1. /\ published \in Nat /\ round \in Nat /\ published <= MaxTime /\ round <= MaxTime
      /\ NumDB \in Nat /\ MaxTime \in Nat
    BY TimeIs, CommitLogAssumption DEF LogTypeOK
<1>2. CASE BeginRound
    <2>1. round' \in Nat /\ round < round' /\ round' <= MaxTime
        BY <1>1, <1>2 DEF BeginRound, FreshStamps
    <2>2. round' \in Times
        BY <2>1, TimeIs
    <2>3. UNCHANGED <<published, archive>> /\ reached' = 1
        BY <1>2 DEF BeginRound
    <2> QED BY <1>1, <2>1, <2>2, <2>3 DEF LogTypeOK
<1>3. CASE CommitTable
    <2> DEFINE R == archive'[round][reached]
    <2>1. /\ reached \in DBs /\ R \in RowSets
          /\ archive' = [archive EXCEPT ![round][reached] = R]
          /\ reached' = reached + 1 /\ UNCHANGED <<published, round>>
        BY <1>3 DEF CommitTable, CommitRows
    <2>2. archive' \in [Times -> [DBs -> RowSets]]
        <3> HIDE DEF R
        <3> QED BY <2>1 DEF LogTypeOK
    <2>3. \A t \in Times : t <= published => archive'[t] = archive[t]
        <3>1. published < round
            BY <1>1, <2>1 DEF DBs
        <3>2. \A t \in Times : t <= published => t # round
            BY <1>1, <3>1, TimeIs
        <3> HIDE DEF R
        <3> QED BY <2>1, <3>2 DEF LogTypeOK
    <2>4. reached' \in 0 .. NumDB + 1 /\ reached' # 0 /\ published < round
        BY <1>1, <2>1 DEF DBs
    <2> QED BY <1>1, <2>1, <2>2, <2>3, <2>4 DEF LogTypeOK
<1>4. CASE PublishRound
    <2>1. published < round
        BY <1>1, <1>4 DEF PublishRound
    <2> QED BY <1>1, <1>4, <2>1 DEF PublishRound, RoundStamp, LogTypeOK
<1>5. CASE AbandonRound
    BY <1>1, <1>5 DEF AbandonRound, LogTypeOK
<1> QED BY <1>2, <1>3, <1>4, <1>5 DEF LogNext

LEMMA LogInitInv == LogInit => RoundInv
BY TimeIs, CommitLogAssumption DEF LogInit, RoundInv, LogTypeOK

\* The same as a step of FarmArchive.
LEMMA RoundRefines ==
    ASSUME RoundInv, LogNext
    PROVE  Frozen!ArchiveNext \/ UNCHANGED <<published, archive>>
<1>1. /\ RoundInv' /\ published <= published'
      /\ \A t \in Times : t <= published => archive'[t] = archive[t]
      /\ published' # published => archive' = archive
    BY RoundStep
<1>2. /\ published \in Nat /\ published <= MaxTime /\ published' \in Nat
      /\ published' <= MaxTime /\ MaxTime \in Nat
    BY <1>1, TimeIs DEF RoundInv, LogTypeOK
<1>3. CASE published' = published
    <2>1. archive' \in [Times -> [DBs -> RowSets]]
        BY <1>1 DEF RoundInv, LogTypeOK
    <2>2. \A t \in 0 .. published : archive'[t] = archive[t]
        BY <1>1, <1>2, TimeIs
    <2> QED BY <1>3, <2>1, <2>2 DEF Frozen!ArchiveNext, Frozen!Gather, Frozen!Times, Times
<1>4. CASE published' # published
    <2>1. published' \in published + 1 .. MaxTime
        BY <1>1, <1>2, <1>4
    <2> QED BY <1>1, <1>4, <2>1 DEF Frozen!ArchiveNext, Frozen!Publish
<1> QED BY <1>3, <1>4

\* A collector step of FarmReaders is one of CommitLog.
LEMMA CollectIsLog ==
    ASSUME RoundInv, Collect
    PROVE  LogNext /\ UNCHANGED <<kind, stamp, got>>
<1>1. ASSUME NEW R \in RowSets, CommitRows(R)
      PROVE  CommitTable
    <2>1. reached \in DBs /\ round \in Times /\ archive \in [Times -> [DBs -> RowSets]]
        BY <1>1 DEF CommitRows, RoundInv, LogTypeOK
    <2>2. archive'[round][reached] = R
        BY <1>1, <2>1 DEF CommitRows
    <2> QED BY <1>1, <2>2 DEF CommitTable, CommitRows
<1> QED BY <1>1 DEF Collect, LogNext

\* What a query finds are rows of collections the clock can name.
LEMMA SelectedTimes ==
    ASSUME NEW k, NEW p, NEW t \in Times
    PROVE  Selected(k, p, t) \subseteq Times
BY DEF Selected

LEMMA StampReadTime == RoundInv => StampRead \in Times /\ StampRead = published
BY DEF RoundInv, LogTypeOK, StampRead

(***************************************************************************)
(* The invariant.                                                          *)
(***************************************************************************)
LEMMA InitIInv == Init => IInv
<1> SUFFICES ASSUME Init PROVE IInv
    OBVIOUS
<1>1. RoundInv
    BY LogInitInv DEF Init
<1>2. StampInv
    BY <1>1, TimeIs DEF Init, StampInv, Unbound, RoundInv, LogTypeOK
<1>3. ShapeInv
    <2>1. NotRead \in Reads
        <3>1. NotRead \in [{} -> RowSets]
            BY DEF NotRead
        <3> QED BY <3>1 DEF Reads
    <2> QED BY <2>1 DEF Init, ShapeInv
<1>4. IdleInv /\ UnboundInv /\ ReadsAreFinal /\ StatusInv
    BY DEF Init, IdleInv, UnboundInv, ReadsAreFinal, StatusInv, NotRead
<1> QED BY <1>1, <1>2, <1>3, <1>4 DEF IInv

\* The collector runs on: what was read is under published timestamps, or later
\* than the query's own.
LEMMA CollectStep ==
    ASSUME IInv, Collect
    PROVE  IInv'
<1>1. /\ LogNext /\ UNCHANGED <<kind, stamp, got>>
      /\ RoundInv' /\ published <= published'
      /\ \A t \in Times : t <= published => archive'[t] = archive[t]
    BY CollectIsLog, RoundStep DEF IInv
<1>2. published \in Nat /\ published' \in Nat
    BY <1>1, TimeIs DEF IInv, RoundInv, LogTypeOK
<1>3. \A r \in Clients, p \in Queries : stamp[r][p] \in Nat \cup {-1} /\ stamp[r][p] <= published
    BY TimeIs DEF IInv, StampInv, Unbound
<1>4. StampInv'
    BY <1>1, <1>2, <1>3 DEF IInv, StampInv
<1>5. ShapeInv' /\ IdleInv' /\ UnboundInv' /\ StatusInv'
    BY <1>1 DEF IInv, ShapeInv, IdleInv, UnboundInv, StatusInv, QueriesOf, StatusQueries
<1>6. ReadsAreFinal'
    <2> SUFFICES ASSUME NEW r \in Clients, NEW p \in Queries, NEW u \in DOMAIN got[r][p],
                        u <= stamp[r][p]
                 PROVE  got[r][p][u] = archive'[u][DatabaseOf(p)]
        BY <1>1 DEF ReadsAreFinal
    <2>1. u \in Times
        <3>1. got[r][p] \in Reads
            BY DEF IInv, ShapeInv
        <3> QED BY <3>1 DEF Reads
    <2>2. u <= published
        BY <1>2, <1>3, <2>1, TimeIs
    <2> QED BY <1>1, <2>1, <2>2 DEF IInv, ReadsAreFinal
<1> QED BY <1>1, <1>4, <1>5, <1>6 DEF IInv

\* A query takes a timestamp that is published, now or earlier.
LEMMA RequestStep ==
    ASSUME IInv, NEW r \in Clients, NEW k \in Kinds, Request(r, k)
    PROVE  IInv'
<1>1. published \in Nat /\ published \in Times /\ StampRead = published /\ -1 <= published
    BY TimeIs, StampReadTime DEF IInv, RoundInv, LogTypeOK
<1>2. RoundInv'
    BY DEF Request, IInv, RoundInv, LogTypeOK, logvars
<1>3. StampInv'
    BY <1>1 DEF Request, IInv, StampInv, Unbound, logvars
<1>4. ShapeInv'
    BY DEF Request, IInv, ShapeInv
<1>5. ReadsAreFinal'
    <2> SUFFICES ASSUME NEW q \in Clients, NEW p \in Queries, NEW u \in DOMAIN got[q][p],
                        u <= stamp'[q][p]
                 PROVE  got[q][p][u] = archive[u][DatabaseOf(p)]
        BY DEF Request, ReadsAreFinal, logvars
    <2>1. CASE q # r
        BY <2>1 DEF Request, IInv, StampInv, ReadsAreFinal
    <2>2. CASE q = r
        BY <2>2 DEF Request, IInv, IdleInv, NotRead
    <2> QED BY <2>1, <2>2
<1>6. StatusInv'
    <2> SUFFICES ASSUME NEW q \in Clients, kind'[q] = "status",
                        NEW p1 \in QueriesOf("status"), NEW p2 \in QueriesOf("status")
                 PROVE  stamp'[q][p1] = stamp'[q][p2] /\ stamp'[q][p1] # Unbound
        BY DEF StatusInv, QueriesOf, StatusQueries
    <2>1. CASE q # r
        BY <2>1 DEF Request, IInv, StampInv, ShapeInv, StatusInv
    <2>2. CASE q = r
        <3>1. k = "status" /\ TakesOneStamp(k)
            BY <2>2 DEF Request, IInv, ShapeInv, TakesOneStamp
        <3>2. p1 \in Queries /\ p2 \in Queries
            BY DEF QueriesOf, StatusQueries, Queries
        <3>3. stamp'[q][p1] = StampRead /\ stamp'[q][p2] = StampRead
            BY <2>2, <3>1, <3>2 DEF Request, IInv, StampInv
        <3> QED BY <1>1, <3>3 DEF Unbound
    <2> QED BY <2>1, <2>2
<1>7. IdleInv' /\ UnboundInv'
    BY DEF Request, IInv, IdleInv, UnboundInv, ShapeInv, StampInv, logvars
<1> QED BY <1>2, <1>3, <1>4, <1>5, <1>6, <1>7 DEF IInv

LEMMA BindStep ==
    ASSUME IInv, NEW r \in Clients, NEW p \in Queries, BindQuery(r, p)
    PROVE  IInv'
<1>1. published \in Nat /\ published \in Times /\ StampRead = published
    BY TimeIs, StampReadTime DEF IInv, RoundInv, LogTypeOK
<1>2. /\ p \in QueriesOf(kind[r]) /\ stamp[r][p] = Unbound
      /\ stamp' = [stamp EXCEPT ![r][p] = published]
      /\ UNCHANGED <<published, archive, round, reached, kind, got>>
    BY <1>1 DEF BindQuery, Ready, logvars
<1>3. RoundInv'
    BY <1>2 DEF IInv, RoundInv, LogTypeOK
<1>4. StampInv'
    BY <1>1, <1>2 DEF IInv, StampInv
<1>5. ShapeInv' /\ IdleInv'
    BY <1>2 DEF IInv, ShapeInv, IdleInv
<1>6. ReadsAreFinal'
    <2> SUFFICES ASSUME NEW q \in Clients, NEW n \in Queries, NEW u \in DOMAIN got[q][n],
                        u <= stamp'[q][n]
                 PROVE  got[q][n][u] = archive[u][DatabaseOf(n)]
        BY <1>2 DEF ReadsAreFinal
    <2>1. CASE q = r /\ n = p
        BY <1>2, <2>1 DEF IInv, UnboundInv, NotRead
    <2>2. CASE ~(q = r /\ n = p)
        BY <1>2, <2>2 DEF IInv, StampInv, ReadsAreFinal
    <2> QED BY <2>1, <2>2
<1>7. StatusInv'
    <2>1. kind[r] # "status"
        BY <1>2 DEF IInv, StatusInv
    <2> QED BY <1>2, <2>1 DEF IInv, StampInv, StatusInv, QueriesOf, StatusQueries
<1>8. UnboundInv'
    BY <1>1, <1>2 DEF IInv, StampInv, UnboundInv, Unbound
<1> QED BY <1>3, <1>4, <1>5, <1>6, <1>7, <1>8 DEF IInv

LEMMA StepStep ==
    ASSUME IInv, NEW r \in Clients, NEW p \in Queries, StepQuery(r, p)
    PROVE  IInv'
<1> DEFINE Found == [u \in Selected(kind[r], p, stamp[r][p]) |-> archive[u][DatabaseOf(p)]]
<1>1. /\ stamp[r][p] # Unbound /\ p \in QueriesOf(kind[r])
      /\ got' = [got EXCEPT ![r][p] = Found]
      /\ UNCHANGED <<published, archive, round, reached, kind, stamp>>
    BY DEF StepQuery, Ready, logvars
<1>2. Selected(kind[r], p, stamp[r][p]) \subseteq Times
    BY <1>1, SelectedTimes DEF IInv, StampInv
<1>3. Found \in Reads
    <2>1. DatabaseOf(p) \in DBs
        BY DatabaseIs, ReadersAssumption, CommitLogAssumption DEF DBs
    <2>2. Found \in [Selected(kind[r], p, stamp[r][p]) -> RowSets]
        BY <1>2, <2>1 DEF IInv, RoundInv, LogTypeOK
    <2> QED BY <1>2, <2>2 DEF Reads
<1>4. RoundInv' /\ StampInv' /\ StatusInv'
    BY <1>1 DEF IInv, RoundInv, LogTypeOK, StampInv, StatusInv, QueriesOf, StatusQueries
<1>5. kind[r] # "none"
    BY <1>1 DEF QueriesOf, StatusQueries
<1>6. \A q \in Clients, n \in Queries :
          got'[q][n] = IF q = r /\ n = p THEN Found ELSE got[q][n]
    <2> HIDE DEF Found
    <2> QED BY <1>1 DEF IInv, ShapeInv
<1>7. ShapeInv'
    <2> HIDE DEF Found
    <2> QED BY <1>1, <1>3 DEF IInv, ShapeInv
<1>8. IdleInv' /\ UnboundInv'
    <2> HIDE DEF Found
    <2> QED BY <1>1, <1>5, <1>6 DEF IInv, IdleInv, UnboundInv
<1>9. ReadsAreFinal'
    <2> SUFFICES ASSUME NEW q \in Clients, NEW n \in Queries, NEW u \in DOMAIN got'[q][n],
                        u <= stamp[q][n]
                 PROVE  got'[q][n][u] = archive[u][DatabaseOf(n)]
        BY <1>1 DEF ReadsAreFinal
    <2>1. CASE q = r /\ n = p
        BY <1>6, <2>1
    <2>2. CASE ~(q = r /\ n = p)
        <3>1. got'[q][n] = got[q][n]
            BY <1>6, <2>2
        <3> QED BY <3>1 DEF IInv, ReadsAreFinal
    <2> QED BY <2>1, <2>2
<1> QED BY <1>4, <1>7, <1>8, <1>9 DEF IInv

LEMMA AnswerStep ==
    ASSUME IInv, NEW r \in Clients, Answer(r)
    PROVE  IInv'
<1>1. -1 <= published
    BY TimeIs DEF IInv, RoundInv, LogTypeOK
<1>2. NotRead \in Reads
    <2>1. NotRead \in [{} -> RowSets]
        BY DEF NotRead
    <2> QED BY <2>1 DEF Reads
<1>3. RoundInv' /\ StampInv'
    BY <1>1 DEF Answer, IInv, RoundInv, LogTypeOK, StampInv, Unbound, logvars
<1>4. ShapeInv'
    BY <1>2 DEF Answer, IInv, ShapeInv
<1>5. IdleInv' /\ UnboundInv'
    BY DEF Answer, IInv, IdleInv, UnboundInv, ShapeInv, StampInv
<1>6. StatusInv'
    BY DEF Answer, IInv, StatusInv, ShapeInv, StampInv, QueriesOf, StatusQueries
<1>7. ReadsAreFinal'
    BY DEF Answer, IInv, ReadsAreFinal, ShapeInv, StampInv, NotRead, logvars
<1> QED BY <1>3, <1>4, <1>5, <1>6, <1>7 DEF IInv

LEMMA NextKeepsIInv == IInv /\ [Next]_vars => IInv'
<1> SUFFICES ASSUME IInv, [Next]_vars PROVE IInv'
    OBVIOUS
<1>1. CASE UNCHANGED vars
    BY <1>1 DEF IInv, vars, logvars, RoundInv, LogTypeOK, StampInv, ShapeInv, IdleInv,
        UnboundInv, ReadsAreFinal, StatusInv, QueriesOf, StatusQueries
<1>2. CASE Collect
    BY <1>2, CollectStep
<1>3. ASSUME NEW r \in Clients, Reader(r)
      PROVE  IInv'
    BY <1>3, RequestStep, BindStep, StepStep, AnswerStep DEF Reader
<1> QED BY <1>1, <1>2, <1>3 DEF Next

(***************************************************************************)
(* Theorems.                                                               *)
(***************************************************************************)
LEMMA Invariance == Spec => []IInv
BY InitIInv, NextKeepsIInv, PTL DEF Spec

\* Timestamps are those of the clock, and what is read are rows a collection may
\* leave (status.cpp, history.cpp, poool.cpp, Report.cpp).
THEOREM TypeCorrect == Spec => []ReadersTypeOK
<1>1. IInv => ReadersTypeOK
    <2> SUFFICES ASSUME IInv, NEW r \in Clients, NEW p \in Queries
                 PROVE  /\ DOMAIN got[r][p] \subseteq Times
                        /\ \A u \in DOMAIN got[r][p] : got[r][p][u] \in RowSets
        BY DEF IInv, RoundInv, StampInv, ShapeInv, ReadersTypeOK
    <2>1. got[r][p] \in Reads
        BY DEF IInv, ShapeInv
    <2> QED BY <2>1 DEF Reads
<1> QED BY <1>1, Invariance, PTL

\* No operation reads a collection in the making under its timestamp, however
\* commits, publications and deaths of the collector fall between the timestamp
\* and the rows (Runtime/RuntimeData.cpp, Collector.cpp:187-195).
THEOREM ReadsFinal == Spec => []ReadsAreFinal
<1>1. IInv => ReadsAreFinal
    BY DEF IInv
<1> QED BY <1>1, Invariance, PTL

\* The answer of status speaks of one collection (status.cpp:222).
THEOREM StatusTakesOne == Spec => []StatusOneCollection
<1>1. IInv => StatusOneCollection
    BY DEF IInv, StatusInv, StatusOneCollection, OneCollection
<1> QED BY <1>1, Invariance, PTL

\* Committing database by database keeps the promise of FarmArchive: what is
\* published is frozen, and timestamps are published in increasing order.
THEOREM ArchiveIsKept == Spec => KeepsArchive
<1>1. Init => Frozen!ArchiveInit
    BY DEF Init, LogInit, Frozen!ArchiveInit, Frozen!Times, Times
<1>2. IInv /\ [Next]_vars => [Frozen!ArchiveNext]_(Frozen!avars)
    <2> SUFFICES ASSUME IInv, [Next]_vars
                 PROVE  Frozen!ArchiveNext \/ UNCHANGED <<published, archive>>
        BY DEF Frozen!avars
    <2>1. CASE Collect
        BY <2>1, CollectIsLog, RoundRefines DEF IInv
    <2>2. CASE \E r \in Clients : Reader(r)
        BY <2>2 DEF Reader, Request, BindQuery, StepQuery, Answer, logvars
    <2>3. CASE UNCHANGED vars
        BY <2>3 DEF vars, logvars
    <2> QED BY <2>1, <2>2, <2>3 DEF Next
<1> QED BY <1>1, <1>2, Invariance, PTL DEF Spec, KeepsArchive, Frozen!ArchiveSpec
=============================================================================
