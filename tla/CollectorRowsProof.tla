------------------------- MODULE CollectorRowsProof -------------------------
(***************************************************************************)
(* What a collection writes about a controller, for every farm, every       *)
(* number of databases and every bound: the summary row, the issue, and the *)
(* extension rows of its modules.                                           *)
(***************************************************************************)
EXTENDS CollectorProof

In(x, s) == \E i \in DOMAIN s : s[i] = x

\* Database d holds row r, committed or not.
Holds(d, r) == In(r, stored[d]) \/ In(r, txn[d])

\* What the running collection knows of controller c.
Asking(c) == \E k \in conns : k.ctl = c /\ k.api = Summary
HasSummary(c) == Holds(Summary, [time |-> ts, ctl |-> c])
HasIssue(c) == \E r \in issues : r.time = ts /\ r.ctl = c
Unreachable(c) == \E r \in issues : ConnectionIssue(r) /\ r.time = ts /\ r.ctl = c

\* Nothing is written under a time to come.
PastInv ==
    /\ ts = current
    /\ \A r \in issues : r.time <= ts
    /\ \A e \in ext : e.time <= ts
    /\ \A d \in DBs : \A i \in DOMAIN stored[d] : stored[d][i].time <= ts

\* One connection per controller and API, none before the controller's turn.
ConnsInv ==
    /\ \A j, k \in conns : j.ctl = k.ctl /\ j.api = k.api => j = k
    /\ \A k \in conns : k.ctl \notin todo

\* A controller is settled once: what it left says that its summary connection
\* has ended, and of a row and a report of failure it left at most one.
SettledInv ==
    /\ \A c \in Controllers : Unreachable(c) \/ HasSummary(c) => ~Asking(c) /\ c \notin todo
    /\ OneConnectionIssue
    /\ \A r \in issues : ConnectionIssue(r) => ~Holds(Summary, [time |-> r.time, ctl |-> r.ctl])

\* No controller is lost on the way.
AccountedInv ==
    /\ Collecting =>
         \A c \in members \ excused : c \in todo \/ Asking(c) \/ HasSummary(c) \/ HasIssue(c)
    /\ NoSilentLoss

Modules == stored[EStats] \o txn[EStats]

\* The extension rows of the running collection are those of its module rows.
ExtInv ==
    /\ ModuleHasExt
    /\ PublishedExtExact
    /\ Collecting =>
         \A e \in ext : e.time = ts =>
            /\ e.parent \in DOMAIN Modules
            /\ Modules[e.parent] = [time |-> e.time, ctl |-> e.ctl]

RowsInv == PastInv /\ ConnsInv /\ SettledInv /\ AccountedInv /\ ExtInv

(***************************************************************************)
(* Lemmas about the operators.                                             *)
(***************************************************************************)
\* s \o t has the elements of s and those of t.
LEMMA InConcat ==
    ASSUME NEW S, NEW s \in Seq(S), NEW t \in Seq(S), NEW x
    PROVE  In(x, s \o t) <=> In(x, s) \/ In(x, t)
<1>1. /\ Len(s) \in Nat /\ Len(t) \in Nat /\ Len(s \o t) = Len(s) + Len(t)
      /\ DOMAIN s = 1 .. Len(s) /\ DOMAIN t = 1 .. Len(t)
      /\ DOMAIN (s \o t) = 1 .. Len(s) + Len(t)
    OBVIOUS
<1>2. \A i \in 1 .. Len(s) + Len(t) : (s \o t)[i] = IF i <= Len(s) THEN s[i] ELSE t[i - Len(s)]
    BY ConcatProperties
<1>3. ASSUME In(x, s \o t) PROVE In(x, s) \/ In(x, t)
    <2>1. PICK i \in DOMAIN (s \o t) : (s \o t)[i] = x
        BY <1>3 DEF In
    <2> QED BY <2>1, ConcatElement DEF In
<1>4. ASSUME NEW i \in DOMAIN s, s[i] = x PROVE In(x, s \o t)
    <2>1. i \in DOMAIN (s \o t) /\ (s \o t)[i] = x
        BY <1>1, <1>2, <1>4
    <2> QED BY <2>1 DEF In
<1>5. ASSUME NEW i \in DOMAIN t, t[i] = x PROVE In(x, s \o t)
    <2> DEFINE j == Len(s) + i
    <2>1. i \in Nat /\ j \in 1 .. Len(s) + Len(t) /\ ~(j <= Len(s)) /\ j - Len(s) = i
        BY <1>1
    <2>2. (s \o t)[j] = x
        BY <1>2, <1>5, <2>1
    <2> QED BY <1>1, <2>1, <2>2 DEF In
<1> QED BY <1>3, <1>4, <1>5 DEF In

\* In s \o t the elements of s keep their places and those of t follow.
LEMMA ConcatPlaces ==
    ASSUME NEW S, NEW s \in Seq(S), NEW t \in Seq(S)
    PROVE  /\ s \o t \in Seq(S)
           /\ Len(s) \in Nat /\ Len(t) \in Nat /\ Len(s \o t) = Len(s) + Len(t)
           /\ DOMAIN s = 1 .. Len(s) /\ DOMAIN (s \o t) = 1 .. Len(s) + Len(t)
           /\ \A i \in 1 .. Len(s) : (s \o t)[i] = s[i]
           /\ \A i \in 1 .. Len(t) : (s \o t)[Len(s) + i] = t[i]
<1>1. /\ Len(s) \in Nat /\ Len(t) \in Nat /\ Len(s \o t) = Len(s) + Len(t)
      /\ DOMAIN s = 1 .. Len(s) /\ DOMAIN (s \o t) = 1 .. Len(s) + Len(t)
      /\ s \o t \in Seq(S)
    OBVIOUS
<1>2. \A i \in 1 .. Len(s) + Len(t) : (s \o t)[i] = IF i <= Len(s) THEN s[i] ELSE t[i - Len(s)]
    BY ConcatProperties
<1>3. ASSUME NEW i \in 1 .. Len(s) PROVE (s \o t)[i] = s[i]
    <2>1. i \in 1 .. Len(s) + Len(t) /\ i <= Len(s)
        BY <1>1
    <2> QED BY <1>2, <2>1
<1>4. ASSUME NEW i \in 1 .. Len(t) PROVE (s \o t)[Len(s) + i] = t[i]
    <2> DEFINE j == Len(s) + i
    <2>1. j \in 1 .. Len(s) + Len(t) /\ ~(j <= Len(s)) /\ j - Len(s) = i
        BY <1>1
    <2> HIDE DEF j
    <2>2. (s \o t)[j] = t[i]
        BY <1>2, <2>1
    <2> QED BY <2>2 DEF j
<1> QED BY <1>1, <1>3, <1>4

\* If a connect call for a controller succeeds, its first connection asks for
\* the summary.
LEMMA SummaryIsAsked ==
    ASSUME NEW c \in Controllers, NEW up \in SUBSET DBs, up # {}
    PROVE  \E k \in Opened(c, up) : k.ctl = c /\ k.api = Summary
<1> DEFINE Upto(x) == {e \in up : e <= x}
           n == Cardinality(up)
           f == [x \in up |-> Cardinality(Upto(x))]
<1>1. IsFiniteSet(DBs) /\ IsFiniteSet(up)
    <2>1. IsFiniteSet(DBs)
        BY FS_Interval, NumDBAssumption DEF DBs
    <2> QED BY <2>1, FS_Subset
<1>2. n \in Nat /\ n # 0
    BY <1>1, FS_CardinalityType, FS_EmptySet
<1>3. IsFiniteSet(1 .. n) /\ Cardinality(1 .. n) = n
    BY <1>2, FS_Interval
<1>4. f \in [up -> 1 .. n]
    <2> SUFFICES ASSUME NEW x \in up PROVE Cardinality(Upto(x)) \in 1 .. n
        OBVIOUS
    <2>1. Cardinality(Upto(x)) \in DBs
        BY ApiNumbering
    <2>2. Upto(x) \in SUBSET up
        OBVIOUS
    <2>3. Cardinality(Upto(x)) <= n
        BY <1>1, <2>2, FS_Subset
    <2> QED BY <1>2, <2>1, <2>3, NumDBAssumption DEF DBs
<1>5. \A x, y \in up : f[x] = f[y] => x = y
    <2> SUFFICES ASSUME NEW x \in up, NEW y \in up, x < y PROVE f[x] # f[y]
        BY NumDBAssumption DEF DBs
    <2> QED BY ApiNumbering
<1>6. f \in Injection(up, 1 .. n)
    <2> HIDE DEF f, n
    <2> QED BY <1>4, <1>5 DEF Injection, IsInjective
<1>7. f \in Surjection(up, 1 .. n)
    <2> HIDE DEF f
    <2> QED BY <1>1, <1>3, <1>6, FS_Injection
<1>8. PICK x \in up : f[x] = 1
    <2> HIDE DEF f
    <2>1. 1 \in 1 .. n
        BY <1>2
    <2> QED BY <1>7, <2>1 DEF Surjection
<1>9. [ctl |-> c, db |-> x, api |-> Cardinality({e \in up : e <= x}), stage |-> "connecting"]
            \in Opened(c, up)
    BY DEF Opened
<1> QED BY <1>8, <1>9 DEF Summary

\* The connections opened for a controller are its own, and ask different APIs.
LEMMA OpenedDiffer ==
    ASSUME NEW c \in Controllers, NEW up \in SUBSET DBs
    PROVE  /\ \A k \in Opened(c, up) : k.ctl = c
           /\ \A j, k \in Opened(c, up) : j.api = k.api => j = k
<1>1. \A d, e \in up : d # e =>
        Cardinality({g \in up : g <= d}) # Cardinality({g \in up : g <= e})
    <2> SUFFICES ASSUME NEW d \in up, NEW e \in up, d < e
                 PROVE  Cardinality({g \in up : g <= d}) # Cardinality({g \in up : g <= e})
        BY NumDBAssumption DEF DBs
    <2> QED BY ApiNumbering
<1> DEFINE N(d) == Cardinality({g \in up : g <= d})
<1>2. Opened(c, up) = {[ctl |-> c, db |-> d, api |-> N(d), stage |-> "connecting"] : d \in up}
    BY DEF Opened
<1>3. \A d, e \in up : N(d) = N(e) => d = e
    BY <1>1
<1> HIDE DEF N
<1> QED BY <1>2, <1>3

\* A record of narrower sets is a record of wider ones.
LEMMA OutcomeWidens ==
    ASSUME NEW A, NEW B, NEW C, NEW D, A \subseteq C, B \subseteq D,
           NEW o \in [rows : A, raises : B]
    PROVE  o \in [rows : C, raises : D] /\ o.rows \in A
OBVIOUS

\* What event_cb does with a complete reply: rows only come from a reply of
\* the API that the database stores, and a summary asked on the wrong
\* connection raises.
LEMMA ReplyStep ==
    ASSUME NEW k \in Connection, Reply(k)
    PROVE  \E o \in [rows : Nat, raises : BOOLEAN] :
             /\ o.rows # 0 => k.api = k.db
             /\ k.api = Summary => o.rows \in {0, 1}
             /\ txn' = [txn EXCEPT ![k.db] = @ \o NewRows(k.ctl, o.rows)]
             /\ ext' = IF k.api = EStats THEN ext \cup NewExtRows(k, o.rows) ELSE ext
             /\ issues' = ReplyIssues(k, o.raises)
             /\ excused' = IF k.api = Summary /\ o.rows = 0 /\ ~o.raises
                           THEN excused \cup {k.ctl} ELSE excused
<1> PICK o \in Outcomes(k.api, k.db) :
             /\ txn' = [txn EXCEPT ![k.db] = @ \o NewRows(k.ctl, o.rows)]
             /\ ext' = IF k.api = EStats THEN ext \cup NewExtRows(k, o.rows) ELSE ext
             /\ issues' = ReplyIssues(k, o.raises)
             /\ excused' = IF k.api = Summary /\ o.rows = 0 /\ ~o.raises
                           THEN excused \cup {k.ctl} ELSE excused
    BY DEF Reply
<1> DEFINE some == 0 .. (IF k.api = Summary THEN 1 ELSE MaxRows)
<1>0. some \subseteq Nat /\ 0 \in some /\ (k.api = Summary => some = {0, 1})
    BY BoundsAssumption
<1>1. CASE k.api # k.db
    <2>1. \/ o \in [rows : {0}, raises : BOOLEAN]
          \/ o \in [rows : {0}, raises : {TRUE}]
        BY <1>1 DEF Outcomes
    <2>2. {0} \subseteq Nat /\ {TRUE} \subseteq BOOLEAN /\ BOOLEAN \subseteq BOOLEAN
        OBVIOUS
    <2>3. o \in [rows : Nat, raises : BOOLEAN] /\ o.rows \in {0}
        BY <2>1, <2>2, OutcomeWidens, Zenon
    <2>4. o \in [rows : Nat, raises : BOOLEAN] /\ o.rows = 0
        BY <2>3
    <2> QED BY <2>4
<1>2. CASE k.api = k.db
    <2>1. \/ o \in [rows : some, raises : BOOLEAN]
          \/ o \in [rows : some, raises : {FALSE}]
          \/ o = [rows |-> 0, raises |-> TRUE]
        BY <1>2 DEF Outcomes
    <2> HIDE DEF some
    <2>2. ASSUME o \in [rows : some, raises : {FALSE}] PROVE o \in [rows : some, raises : BOOLEAN]
        BY <2>2
    <2>3. ASSUME o = [rows |-> 0, raises |-> TRUE] PROVE o \in [rows : some, raises : BOOLEAN]
        BY <2>3, <1>0
    <2>4. o \in [rows : some, raises : BOOLEAN]
        BY <2>1, <2>2, <2>3
    <2>5. o \in [rows : Nat, raises : BOOLEAN] /\ (k.api = Summary => o.rows \in {0, 1})
        BY <1>0, <2>4
    <2> QED BY <1>2, <2>5
<1> QED BY <1>1, <1>2

\* COMMIT moves rows from the transaction to the table.
LEMMA CommitHolds ==
    ASSUME TypeOK, CommitNext
    PROVE  /\ \A d \in DBs : \A r : Holds(d, r)' <=> Holds(d, r)
           /\ Modules' = Modules
<1>1. ASSUME NEW d \in DBs
      PROVE  \/ stored'[d] = stored[d] \o txn[d] /\ txn'[d] = <<>>
             \/ stored'[d] = stored[d] /\ txn'[d] = txn[d]
    BY DEF CommitNext, Committed, TypeOK
<1>2. ASSUME NEW d \in DBs, NEW r PROVE Holds(d, r)' <=> Holds(d, r)
    <2>1. stored[d] \in Seq(Row) /\ txn[d] \in Seq(Row)
        BY DEF TypeOK
    <2>2. CASE stored'[d] = stored[d] /\ txn'[d] = txn[d]
        BY <2>2 DEF Holds
    <2>3. CASE stored'[d] = stored[d] \o txn[d] /\ txn'[d] = <<>>
        <3>1. ~In(r, txn'[d])
            BY <2>3 DEF In
        <3>2. In(r, stored'[d]) <=> In(r, stored[d]) \/ In(r, txn[d])
            BY <2>1, <2>3, InConcat
        <3> QED BY <3>1, <3>2 DEF Holds
    <2> QED BY <1>1, <2>2, <2>3
<1>3. Modules' = Modules
    <2>1. EStats \in DBs
        BY NumDBAssumption DEF DBs, EStats
    <2>2. stored[EStats] \o txn[EStats] \in Seq(Row)
        BY <2>1 DEF TypeOK
    <2> QED BY <1>1, <2>1, <2>2, ConcatEmptySeq DEF Modules
<1> QED BY <1>2, <1>3

\* A reply adds rows of the running collection about its own controller.
LEMMA ReplyHolds ==
    ASSUME TypeOK, NEW k \in conns, NEW n \in Nat, stored' = stored,
           txn' = [txn EXCEPT ![k.db] = @ \o NewRows(k.ctl, n)]
    PROVE  \A d \in DBs : \A r :
             Holds(d, r)' <=> \/ Holds(d, r)
                              \/ (d = k.db /\ n # 0 /\ r = [time |-> ts, ctl |-> k.ctl])
<1> DEFINE new == NewRows(k.ctl, n)
           row == [time |-> ts, ctl |-> k.ctl]
<1>1. k.ctl \in Controllers /\ k.db \in DBs
    BY DEF TypeOK, Connection
<1>2. new \in Seq(Row) /\ Len(new) = n /\ \A i \in 1 .. n : new[i] = row
    BY <1>1, NewRowsType
<1>3. txn \in [DBs -> Seq(Row)] /\ txn' = [txn EXCEPT ![k.db] = @ \o new]
    BY DEF TypeOK
<1> HIDE DEF new, row
<1>4. ASSUME NEW r PROVE In(r, new) <=> n # 0 /\ r = row
    <2>1. DOMAIN new = 1 .. n
        BY <1>2
    <2>2. n # 0 => 1 \in 1 .. n
        OBVIOUS
    <2>3. n = 0 => 1 .. n = {}
        OBVIOUS
    <2> QED BY <1>2, <2>1, <2>2, <2>3 DEF In
<1>5. ASSUME NEW d \in DBs, NEW r
      PROVE  Holds(d, r)' <=> Holds(d, r) \/ (d = k.db /\ n # 0 /\ r = row)
    <2>1. CASE d # k.db
        <3>1. txn'[d] = txn[d]
            BY <1>3, <2>1
        <3> QED BY <2>1, <3>1 DEF Holds
    <2>2. CASE d = k.db
        <3>1. txn'[d] = txn[d] \o new /\ txn[d] \in Seq(Row) /\ new \in Seq(Row)
            BY <1>2, <1>3, <2>2
        <3>2. In(r, txn[d] \o new) <=> In(r, txn[d]) \/ In(r, new)
            BY <3>1, InConcat
        <3>3. In(r, txn'[d]) <=> In(r, txn[d]) \/ In(r, new)
            BY <3>1, <3>2
        <3> QED BY <1>4, <2>2, <3>3 DEF Holds
    <2> QED BY <2>1, <2>2
<1> QED BY <1>5 DEF row

(***************************************************************************)
(* The parts of the invariant, one lemma each.                             *)
(***************************************************************************)
LEMMA InitRowsInv == Init => RowsInv
<1> SUFFICES ASSUME Init PROVE RowsInv
    OBVIOUS
<1> USE DEF Init, NoRows
<1>1. Summary \in DBs /\ EStats \in DBs
    BY NumDBAssumption DEF DBs, Summary, EStats
<1>2. PastInv /\ ConnsInv
    BY DEF PastInv, ConnsInv
<1>3. SettledInv /\ AccountedInv
    BY DEF SettledInv, AccountedInv, OneConnectionIssue, NoSilentLoss, Collecting, Unreachable,
           HasSummary, Asking, Holds, In
<1>4. Modules = <<>>
    BY <1>1 DEF Modules
<1>5. ExtInv
    BY <1>1, <1>4 DEF ExtInv, ModuleHasExt, PublishedExtExact, Modules
<1> QED BY <1>2, <1>3, <1>5 DEF RowsInv

\* No timestamp is ahead of the running collection.
LEMMA PastStep == IInv /\ PastInv /\ [Next]_vars => PastInv'
<1> SUFFICES ASSUME IInv, PastInv, [Next]_vars PROVE PastInv'
    OBVIOUS
<1> USE DEF IInv, nvram
<1>1. CASE UNCHANGED vars
    BY <1>1 DEF PastInv, vars
<1>2. CASE Tick \/ EditFarm \/ Crash \/ Restart
    BY <1>2 DEF Tick, EditFarm, Crash, Restart, PastInv
<1>3. CASE Start
    <2>1. ts \in Nat /\ clock \in Nat /\ ts <= clock /\ ts' = clock
        BY <1>3 DEF Start, ClockInv, TypeOK
    <2>2. /\ \A r \in issues : r.time \in Nat
          /\ \A e \in ext : e.time \in Nat
          /\ \A d \in DBs : \A i \in DOMAIN stored[d] : stored[d][i].time \in Nat
        <3>1. \A d \in DBs : \A i \in DOMAIN stored[d] : stored[d][i] \in Row
            BY DEF TypeOK
        <3> QED BY <3>1 DEF TypeOK, IssueRow, ExtRow, Row
    <2> QED BY <1>3, <2>1, <2>2 DEF Start, PastInv
<1>4. CASE \E c \in Controllers : OpenController(c)
    BY <1>4 DEF OpenController, PastInv
<1>5. CASE BatchFull \/ BatchDone \/ ScanDone \/ DrainDone \/ PublishCollection
    BY <1>5 DEF BatchFull, BatchDone, ScanDone, DrainDone, PublishCollection, PastInv
<1>6. CASE CommitNext
    <2>1. ASSUME NEW d \in DBs, NEW i \in DOMAIN stored'[d] PROVE stored'[d][i].time <= ts
        <3>1. stored[d] \in Seq(Row) /\ txn[d] \in Seq(Row) /\ ts \in Nat
            BY DEF TypeOK
        <3>2. CASE d # cursor
            BY <1>6, <2>1, <3>2 DEF CommitNext, PastInv, TypeOK
        <3>3. CASE d = cursor
            <4>1. stored'[d] = stored[d] \o txn[d]
                BY <1>6, <3>3 DEF CommitNext, Committed, TypeOK
            <4>2. \/ i \in DOMAIN stored[d] /\ stored'[d][i] = stored[d][i]
                  \/ i - Len(stored[d]) \in DOMAIN txn[d] /\ stored'[d][i] = txn[d][i - Len(stored[d])]
                <5>1. i \in DOMAIN (stored[d] \o txn[d])
                    BY <2>1, <4>1
                <5>2. \/ i \in DOMAIN stored[d] /\ (stored[d] \o txn[d])[i] = stored[d][i]
                      \/ /\ i - Len(stored[d]) \in DOMAIN txn[d]
                         /\ (stored[d] \o txn[d])[i] = txn[d][i - Len(stored[d])]
                    BY <3>1, <5>1, ConcatElement
                <5> QED BY <4>1, <5>2
            <4> QED BY <3>1, <4>2 DEF PastInv, OpenInv
        <3> QED BY <3>2, <3>3
    <2> QED BY <1>6, <2>1 DEF CommitNext, PastInv
<1>7. CASE Deliver
    <2> SUFFICES ASSUME NEW k \in conns, Event(k) PROVE PastInv'
        BY <1>7 DEF Deliver
    <2>1. ts \in Nat /\ k \in Connection
        BY DEF TypeOK
    <2>2. CASE Connected(k)
        BY <2>2 DEF Connected, PastInv
    <2>3. CASE Reply(k)
        <3>1. /\ \A r \in issues' : r \in issues \/ r.time = ts
              /\ \A e \in ext' : e \in ext \/ e.time = ts
            <4>1. PICK o \in [rows : Nat, raises : BOOLEAN] :
                    /\ ext' = IF k.api = EStats THEN ext \cup NewExtRows(k, o.rows) ELSE ext
                    /\ issues' = ReplyIssues(k, o.raises)
                BY <2>1, <2>3, ReplyStep
            <4>2. ASSUME NEW e \in NewExtRows(k, o.rows) PROVE e.time = ts
                <5>1. PICK i \in 1 .. o.rows :
                        e = [parent |-> Len(stored[EStats]) + Len(txn[EStats]) + i,
                             time |-> ts, ctl |-> k.ctl]
                    BY DEF NewExtRows
                <5> QED BY <5>1
            <4>3. \A r \in ReplyIssues(k, o.raises) : r \in issues \/ r.time = ts
                BY DEF ReplyIssues, Report
            <4> QED BY <4>1, <4>2, <4>3
        <3> QED BY <2>1, <2>3, <3>1 DEF Reply, PastInv
    <2>4. ASSUME NEW kind, Fails(k, kind) PROVE PastInv'
        <3>1. \A r \in issues' : r \in issues \/ r.time = ts
            BY <2>4 DEF Fails, Report
        <3> QED BY <2>1, <2>4, <3>1 DEF Fails, PastInv
    <2> QED BY <2>2, <2>3, <2>4 DEF Event
<1> QED BY <1>1, <1>2, <1>3, <1>4, <1>5, <1>6, <1>7 DEF Next, Thread

\* Connections stay told apart by controller and API.
LEMMA ConnsStep == IInv /\ ConnsInv /\ [Next]_vars => ConnsInv'
<1> SUFFICES ASSUME IInv, ConnsInv, [Next]_vars PROVE ConnsInv'
    OBVIOUS
<1> USE DEF IInv, nvram
<1>1. CASE UNCHANGED vars
    BY <1>1 DEF ConnsInv, vars
<1>2. CASE Tick \/ EditFarm \/ Crash \/ Restart
    BY <1>2 DEF Tick, EditFarm, Crash, Restart, ConnsInv
<1>3. CASE Start
    <2>1. conns' = {}
        BY <1>3 DEF Start, OpenInv, Collecting
    <2> QED BY <2>1 DEF ConnsInv
<1>4. ASSUME NEW c \in Controllers, OpenController(c) PROVE ConnsInv'
    <2>1. PICK up \in SUBSET DBs : conns' = conns \cup Opened(c, up)
        BY <1>4 DEF OpenController
    <2>2. c \in todo /\ todo' = todo \ {c}
        BY <1>4 DEF OpenController
    <2>3. /\ \A k \in Opened(c, up) : k.ctl = c
          /\ \A j, k \in Opened(c, up) : j.api = k.api => j = k
        BY OpenedDiffer
    <2> QED BY <2>1, <2>2, <2>3 DEF ConnsInv
<1>5. CASE BatchFull \/ BatchDone \/ ScanDone \/ DrainDone \/ CommitNext \/ PublishCollection
    BY <1>5 DEF BatchFull, BatchDone, ScanDone, DrainDone, CommitNext, PublishCollection, ConnsInv
<1>6. CASE Deliver
    <2> SUFFICES ASSUME NEW k \in conns, Event(k) PROVE ConnsInv'
        BY <1>6 DEF Deliver
    <2>1. CASE Connected(k)
        <3> DEFINE q == [k EXCEPT !.stage = "queried"]
        <3>1. q.ctl = k.ctl /\ q.api = k.api
            BY DEF TypeOK, Connection
        <3>2. conns' = (conns \ {k}) \cup {q} /\ todo' = todo
            BY <2>1 DEF Connected
        <3> HIDE DEF q
        <3> QED BY <3>1, <3>2 DEF ConnsInv
    <2>2. CASE Reply(k)
        BY <2>2 DEF Reply, ConnsInv
    <2>3. ASSUME NEW kind, Fails(k, kind) PROVE ConnsInv'
        BY <2>3 DEF Fails, Freed, ConnsInv
    <2> QED BY <2>1, <2>2, <2>3 DEF Event
<1> QED BY <1>1, <1>2, <1>3, <1>4, <1>5, <1>6 DEF Next, Thread

\* Steps that write no row and no report of failure about the summary.
LEMMA SettledKept ==
    ASSUME IInv, SettledInv, ts' = ts, todo' \subseteq todo,
           \A r \in issues' : ConnectionIssue(r) => r \in issues,
           \A c \in Controllers : Asking(c)' => Asking(c),
           \A r : Holds(Summary, r)' => Holds(Summary, r)
    PROVE  SettledInv'
<1>1. ASSUME NEW c \in Controllers, (Unreachable(c) \/ HasSummary(c))'
      PROVE  (~Asking(c) /\ c \notin todo)'
    <2>1. Unreachable(c) \/ HasSummary(c)
        BY <1>1 DEF Unreachable, HasSummary
    <2> QED BY <2>1 DEF SettledInv
<1>2. OneConnectionIssue'
    BY DEF SettledInv, OneConnectionIssue
<1>3. ASSUME NEW r \in issues', ConnectionIssue(r)
      PROVE  ~Holds(Summary, [time |-> r.time, ctl |-> r.ctl])'
    BY <1>3 DEF SettledInv
<1> QED BY <1>1, <1>2, <1>3 DEF SettledInv

LEMMA SettledStep ==
    IInv /\ PastInv /\ ConnsInv /\ SettledInv /\ [Next]_vars => SettledInv'
<1> SUFFICES ASSUME IInv, PastInv, ConnsInv, SettledInv, [Next]_vars PROVE SettledInv'
    OBVIOUS
<1> USE DEF nvram
<1>0. Summary \in DBs /\ TypeOK
    BY NumDBAssumption DEF DBs, Summary, IInv
<1>1. CASE UNCHANGED vars
    BY <1>1, SettledKept DEF vars, Asking, Holds
<1>2. CASE Tick \/ EditFarm \/ Restart
    BY <1>2, SettledKept DEF Tick, EditFarm, Restart, Asking, Holds
<1>3. CASE Crash
    <2>1. \A r : Holds(Summary, r)' => Holds(Summary, r)
        BY <1>0, <1>3 DEF Crash, Holds, In, NoRows
    <2> QED BY <1>3, <2>1, SettledKept DEF Crash, Asking
<1>4. CASE Start
    <2>1. ts \in Nat /\ ts' \in Nat /\ ts < ts'
        <3>1. CASE pc = "boot"
            BY <1>4, <3>1 DEF Start, IInv, TypeOK, ClockInv, PastInv
        <3>2. CASE pc = "idle" /\ clock >= ts + Interval
            BY <1>4, <3>2, ClockAssumption DEF Start, IInv, TypeOK
        <3> QED BY <1>4, <3>1, <3>2 DEF Start
    <2>2. conns' = {} /\ issues' = issues /\ stored' = stored /\ txn' = NoRows
        BY <1>4 DEF Start, IInv, OpenInv, Collecting
    <2>3. \A r : Holds(Summary, r)' => In(r, stored[Summary])
        BY <1>0, <2>2 DEF Holds, In, NoRows
    <2>4. ASSUME NEW c \in Controllers PROVE ~HasSummary(c)'
        <3> DEFINE row == [time |-> ts', ctl |-> c]
        <3>1. row.time = ts'
            OBVIOUS
        <3> HIDE DEF row
        <3>2. ~In(row, stored[Summary])
            BY <1>0, <2>1, <3>1 DEF In, PastInv
        <3> QED BY <2>3, <3>2 DEF HasSummary, row
    <2>5. ASSUME NEW c \in Controllers PROVE ~Unreachable(c)'
        BY <2>1, <2>2 DEF Unreachable, PastInv
    <2>6. \A r \in issues : ConnectionIssue(r) => ~Holds(Summary, [time |-> r.time, ctl |-> r.ctl])'
        BY <2>3 DEF SettledInv, Holds
    <2>7. OneConnectionIssue'
        BY <2>2 DEF SettledInv, OneConnectionIssue
    <2> QED BY <2>2, <2>4, <2>5, <2>6, <2>7 DEF SettledInv
<1>5. ASSUME NEW c \in Controllers, OpenController(c) PROVE SettledInv'
    <2>1. PICK up \in SUBSET DBs : conns' = conns \cup Opened(c, up)
        BY <1>5 DEF OpenController
    <2>2. /\ c \in todo /\ todo' = todo \ {c}
          /\ stored' = stored /\ txn' = txn /\ issues' = issues /\ ts' = ts
        BY <1>5 DEF OpenController
    <2>3. \A k \in Opened(c, up) : k.ctl = c
        BY OpenedDiffer
    <2>4. ASSUME NEW x \in Controllers, (Unreachable(x) \/ HasSummary(x))'
          PROVE  (~Asking(x) /\ x \notin todo)'
        <3>1. Unreachable(x) \/ HasSummary(x)
            BY <2>2, <2>4 DEF Unreachable, HasSummary, Holds
        <3>2. ~Asking(x) /\ x \notin todo
            BY <3>1 DEF SettledInv
        <3>3. x # c
            BY <2>2, <3>2
        <3> QED BY <2>1, <2>2, <2>3, <3>2, <3>3 DEF Asking
    <2>5. OneConnectionIssue'
        BY <2>2 DEF SettledInv, OneConnectionIssue
    <2>6. \A r \in issues' : ConnectionIssue(r) => ~Holds(Summary, [time |-> r.time, ctl |-> r.ctl])'
        BY <2>2 DEF SettledInv, Holds
    <2> QED BY <2>4, <2>5, <2>6 DEF SettledInv
<1>6. CASE BatchFull \/ BatchDone \/ ScanDone \/ DrainDone \/ PublishCollection
    BY <1>6, SettledKept
    DEF BatchFull, BatchDone, ScanDone, DrainDone, PublishCollection, Asking, Holds
<1>7. CASE CommitNext
    <2>1. \A r : Holds(Summary, r)' <=> Holds(Summary, r)
        BY <1>0, <1>7, CommitHolds
    <2> QED BY <1>7, <2>1, SettledKept DEF CommitNext, Asking
<1>8. ASSUME NEW k \in conns, Event(k) PROVE SettledInv'
    <2>0. k \in Connection /\ k.ctl \in Controllers /\ k.ctl \notin todo
        BY <1>0 DEF TypeOK, Connection, ConnsInv
    <2>1. CASE Connected(k)
        <3> DEFINE q == [k EXCEPT !.stage = "queried"]
        <3>1. q.ctl = k.ctl /\ q.api = k.api
            BY <2>0 DEF Connection
        <3>2. conns' = (conns \ {k}) \cup {q}
            BY <2>1 DEF Connected
        <3> HIDE DEF q
        <3>3. \A c \in Controllers : Asking(c)' => Asking(c)
            BY <3>1, <3>2 DEF Asking
        <3> QED BY <2>1, <3>3, SettledKept DEF Connected, Holds
    <2>2. CASE Reply(k)
        <3>1. PICK o \in [rows : Nat, raises : BOOLEAN] :
                /\ o.rows # 0 => k.api = k.db
                /\ txn' = [txn EXCEPT ![k.db] = @ \o NewRows(k.ctl, o.rows)]
                /\ issues' = ReplyIssues(k, o.raises)
            BY <2>0, <2>2, ReplyStep
        <3>2. /\ stored' = stored /\ ts' = ts /\ todo' = todo /\ conns' = conns \ {k}
              /\ o.rows \in Nat
            BY <2>2 DEF Reply
        <3>3. \A r \in issues' : ConnectionIssue(r) => r \in issues
            BY <3>1 DEF ReplyIssues, Report, ConnectionIssue
        <3>4. \A r : Holds(Summary, r)' <=>
                 \/ Holds(Summary, r)
                 \/ (Summary = k.db /\ o.rows # 0 /\ r = [time |-> ts, ctl |-> k.ctl])
            BY <1>0, <3>1, <3>2, ReplyHolds
        <3>5. \A c \in Controllers : Asking(c)' => Asking(c)
            BY <3>2 DEF Asking
        <3>6. CASE ~(Summary = k.db /\ o.rows # 0)
            BY <3>2, <3>3, <3>4, <3>5, <3>6, SettledKept
        <3>7. CASE Summary = k.db /\ o.rows # 0
            <4>1. k.api = Summary
                BY <3>1, <3>7
            <4>2. ~Asking(k.ctl)' /\ Asking(k.ctl)
                BY <3>2, <4>1 DEF Asking, ConnsInv
            <4>3. ~Unreachable(k.ctl)
                BY <2>0, <4>2 DEF SettledInv
            <4>4. ASSUME NEW x \in Controllers, (Unreachable(x) \/ HasSummary(x))'
                  PROVE  (~Asking(x) /\ x \notin todo)'
                <5>1. CASE x = k.ctl
                    BY <2>0, <3>2, <4>2, <5>1
                <5>2. CASE x # k.ctl
                    <6>1. Unreachable(x) \/ HasSummary(x)
                        BY <3>2, <3>3, <3>4, <4>4, <5>2 DEF Unreachable, HasSummary
                    <6> QED BY <3>2, <3>5, <6>1 DEF SettledInv
                <5> QED BY <5>1, <5>2
            <4>5. OneConnectionIssue'
                BY <3>3 DEF SettledInv, OneConnectionIssue
            <4>6. ASSUME NEW r \in issues', ConnectionIssue(r)
                  PROVE  ~Holds(Summary, [time |-> r.time, ctl |-> r.ctl])'
                <5>1. r \in issues
                    BY <3>3, <4>6
                <5>2. ~(r.time = ts /\ r.ctl = k.ctl)
                    BY <4>3, <4>6, <5>1 DEF Unreachable
                <5>3. [time |-> r.time, ctl |-> r.ctl] # [time |-> ts, ctl |-> k.ctl]
                    BY <5>2
                <5> QED BY <3>4, <4>6, <5>1, <5>3 DEF SettledInv
            <4> QED BY <4>4, <4>5, <4>6 DEF SettledInv
        <3> QED BY <3>6, <3>7
    <2>3. ASSUME NEW kind \in {"ConnectionFailure", "ConnectionTimeout"}, Fails(k, kind)
          PROVE  SettledInv'
        <3>1. /\ stored' = stored /\ txn' = txn /\ ts' = ts /\ todo' = todo
              /\ conns' = conns \ {k}
              /\ issues' = IF k.api = Summary THEN Report(k, kind) ELSE issues
            BY <2>3 DEF Fails, Freed, ReportsFailure
        <3>2. \A r : Holds(Summary, r)' <=> Holds(Summary, r)
            BY <3>1 DEF Holds
        <3>3. \A c \in Controllers : Asking(c)' => Asking(c)
            BY <3>1 DEF Asking
        <3>4. CASE k.api # Summary
            BY <3>1, <3>2, <3>3, <3>4, SettledKept
        <3>5. CASE k.api = Summary
            <4>1. ~Asking(k.ctl)' /\ Asking(k.ctl)
                BY <3>1, <3>5 DEF Asking, ConnsInv
            <4>2. ~Unreachable(k.ctl) /\ ~HasSummary(k.ctl)
                BY <2>0, <4>1 DEF SettledInv
            <4>3. PICK q : q.time = ts /\ q.ctl = k.ctl /\ issues' = issues \cup {q}
                <5> DEFINE new == [time |-> ts, ctl |-> k.ctl, kind |-> kind, via |-> k.db]
                <5>1. new.time = ts /\ new.ctl = k.ctl
                    OBVIOUS
                <5>2. issues' = issues \cup {new}
                    BY <3>1, <3>5 DEF Report
                <5> HIDE DEF new
                <5> QED BY <5>1, <5>2
            <4>4. ASSUME NEW x \in Controllers, (Unreachable(x) \/ HasSummary(x))'
                  PROVE  (~Asking(x) /\ x \notin todo)'
                <5>1. CASE x = k.ctl
                    BY <2>0, <3>1, <4>1, <5>1
                <5>2. CASE x # k.ctl
                    <6>1. Unreachable(x) \/ HasSummary(x)
                        BY <3>1, <3>2, <4>3, <4>4, <5>2 DEF Unreachable, HasSummary
                    <6> QED BY <3>1, <3>3, <6>1 DEF SettledInv
                <5> QED BY <5>1, <5>2
            <4>5. OneConnectionIssue'
                BY <4>2, <4>3 DEF SettledInv, OneConnectionIssue, Unreachable
            <4>6. ASSUME NEW r \in issues', ConnectionIssue(r)
                  PROVE  ~Holds(Summary, [time |-> r.time, ctl |-> r.ctl])'
                <5>1. CASE r \in issues
                    BY <3>2, <4>6, <5>1 DEF SettledInv
                <5>2. CASE r = q
                    <6>1. ~Holds(Summary, [time |-> r.time, ctl |-> r.ctl])
                        BY <4>2, <4>3, <5>2 DEF HasSummary
                    <6> QED BY <3>2, <6>1
                <5> QED BY <4>3, <5>1, <5>2
            <4> QED BY <4>4, <4>5, <4>6 DEF SettledInv
        <3> QED BY <3>4, <3>5
    <2> QED BY <1>8, <2>1, <2>2, <2>3 DEF Event
<1> QED BY <1>1, <1>2, <1>3, <1>4, <1>5, <1>6, <1>7, <1>8 DEF Next, Thread, Deliver

\* Every controller that was set out for is still to visit, still being asked,
\* settled, or excused; so when the collection ends it is settled or excused.
LEMMA AccountedStep ==
    IInv /\ PastInv /\ AccountedInv /\ [Next]_vars => AccountedInv'
<1> SUFFICES ASSUME IInv, PastInv, AccountedInv, [Next]_vars PROVE AccountedInv'
    OBVIOUS
<1> USE DEF nvram
<1> DEFINE Known(c) == c \in todo \/ Asking(c) \/ HasSummary(c) \/ HasIssue(c)
<1>0. Summary \in DBs /\ TypeOK
    BY NumDBAssumption DEF DBs, Summary, IInv
<1>1. ASSUME UNCHANGED <<last, pc, ts, members, todo, conns, stored, txn, issues, excused>>
      PROVE  AccountedInv'
    BY <1>1 DEF AccountedInv, NoSilentLoss, Collecting, Asking, HasSummary, Holds, HasIssue
<1>2. CASE UNCHANGED vars \/ Tick \/ EditFarm
    BY <1>1, <1>2 DEF vars, Tick, EditFarm
<1>3. CASE Crash \/ Restart
    BY <1>3 DEF Crash, Restart, AccountedInv, NoSilentLoss, Collecting
<1>4. CASE Start
    BY <1>4 DEF Start, AccountedInv, NoSilentLoss
<1>5. ASSUME Collecting, Collecting', members' = members, excused \subseteq excused',
             \A c \in members \ excused' : Known(c) => Known(c)'
      PROVE  AccountedInv'
    <2>1. pc' # "idle"
        BY <1>5 DEF Collecting
    <2>2. \A c \in members' \ excused' : Known(c)'
        BY <1>5 DEF AccountedInv
    <2> QED BY <2>1, <2>2 DEF AccountedInv, NoSilentLoss
<1>6. ASSUME NEW c \in Controllers, OpenController(c) PROVE AccountedInv'
    <2>1. PICK up \in SUBSET DBs :
            /\ conns' = conns \cup Opened(c, up)
            /\ excused' = IF up = {} THEN excused \cup {c} ELSE excused
        BY <1>6 DEF OpenController
    <2>2. /\ todo' = todo \ {c} /\ members' = members
          /\ UNCHANGED <<stored, txn, issues, ts>>
          /\ Collecting /\ Collecting'
        BY <1>6 DEF OpenController, Collecting
    <2>3. ASSUME NEW x \in members \ excused', Known(x) PROVE Known(x)'
        <3>1. CASE x = c /\ x \in todo
            <4>1. up # {}
                BY <2>1, <2>3, <3>1
            <4>2. Asking(x)'
                BY <2>1, <3>1, <4>1, SummaryIsAsked DEF Asking
            <4> QED BY <4>2
        <3>2. CASE ~(x = c /\ x \in todo)
            BY <2>1, <2>2, <2>3, <3>2 DEF Asking, HasSummary, Holds, HasIssue
        <3> QED BY <3>1, <3>2
    <2> QED BY <1>5, <2>1, <2>2, <2>3
<1>7. CASE BatchFull \/ BatchDone \/ ScanDone \/ DrainDone
    <2>1. /\ UNCHANGED <<ts, members, todo, conns, stored, txn, issues, excused>>
          /\ Collecting /\ Collecting'
        BY <1>7 DEF BatchFull, BatchDone, ScanDone, DrainDone, Collecting
    <2>2. \A c : Known(c) => Known(c)'
        BY <2>1 DEF Asking, HasSummary, Holds, HasIssue
    <2> QED BY <1>5, <2>1, <2>2
<1>8. CASE CommitNext
    <2>1. /\ UNCHANGED <<ts, members, todo, conns, issues, excused>>
          /\ Collecting /\ Collecting'
        BY <1>8 DEF CommitNext, Collecting
    <2>2. \A r : Holds(Summary, r)' <=> Holds(Summary, r)
        BY <1>0, <1>8, CommitHolds
    <2>3. \A c : Known(c) => Known(c)'
        BY <2>1, <2>2 DEF Asking, HasSummary, HasIssue
    <2> QED BY <1>5, <2>1, <2>3
<1>9. CASE PublishCollection
    <2>1. /\ UNCHANGED <<ts, members, todo, conns, stored, issues, excused>>
          /\ last' = ts /\ pc' = "idle" /\ Collecting /\ todo = {} /\ conns = {}
        BY <1>9 DEF PublishCollection, PublishedStamp, Collecting, IInv, OpenInv, PastInv
    <2>2. txn[Summary] = <<>>
        BY <1>0, <1>9, NumDBAssumption DEF PublishCollection, AllCommitted, IInv, OpenInv, DBs
    <2>3. ASSUME NEW c \in members \ excused PROVE In([time |-> ts, ctl |-> c], stored[Summary]) \/ HasIssue(c)
        BY <2>1, <2>2, <2>3 DEF AccountedInv, Asking, HasSummary, Holds, In
    <2> QED BY <2>1, <2>3 DEF AccountedInv, NoSilentLoss, Collecting, In, HasIssue
<1>10. ASSUME NEW k \in conns, Event(k) PROVE AccountedInv'
    <2>0. k \in Connection /\ k.ctl \in Controllers
        BY <1>0 DEF TypeOK, Connection
    <2>1. CASE Connected(k)
        <3> DEFINE q == [k EXCEPT !.stage = "queried"]
        <3>1. q.ctl = k.ctl /\ q.api = k.api
            BY <2>0 DEF Connection
        <3>2. /\ conns' = (conns \ {k}) \cup {q}
              /\ UNCHANGED <<ts, members, todo, stored, txn, issues, excused>>
              /\ Collecting /\ Collecting'
            BY <2>1 DEF Connected, Dispatching, Collecting
        <3> HIDE DEF q
        <3>3. \A c : Known(c) => Known(c)'
            BY <3>1, <3>2 DEF Asking, HasSummary, Holds, HasIssue
        <3> QED BY <1>5, <3>2, <3>3
    <2>2. CASE Reply(k)
        <3>1. PICK o \in [rows : Nat, raises : BOOLEAN] :
                /\ o.rows # 0 => k.api = k.db
                /\ txn' = [txn EXCEPT ![k.db] = @ \o NewRows(k.ctl, o.rows)]
                /\ issues' = ReplyIssues(k, o.raises)
                /\ excused' = IF k.api = Summary /\ o.rows = 0 /\ ~o.raises
                              THEN excused \cup {k.ctl} ELSE excused
            BY <2>0, <2>2, ReplyStep
        <3>2. /\ UNCHANGED <<ts, members, todo, stored>> /\ conns' = conns \ {k}
              /\ Collecting /\ Collecting'
            BY <2>2 DEF Reply, Dispatching, Collecting
        <3>3. issues \subseteq issues' /\ (o.raises => HasIssue(k.ctl)')
            <4> DEFINE new == [time |-> ts, ctl |-> k.ctl, kind |-> "RawDataError", via |-> k.db]
            <4>1. issues' = IF o.raises THEN issues \cup {new} ELSE issues
                BY <3>1 DEF ReplyIssues, Report
            <4>2. new.time = ts /\ new.ctl = k.ctl
                OBVIOUS
            <4> HIDE DEF new
            <4> QED BY <3>2, <4>1, <4>2 DEF HasIssue
        <3>4. \A r : Holds(Summary, r)' <=>
                 \/ Holds(Summary, r)
                 \/ (Summary = k.db /\ o.rows # 0 /\ r = [time |-> ts, ctl |-> k.ctl])
            <4>1. o.rows \in Nat
                OBVIOUS
            <4> QED BY <1>0, <3>1, <3>2, <4>1, ReplyHolds
        <3>5. ASSUME NEW x \in members \ excused', Known(x) PROVE Known(x)'
            <4>1. CASE x = k.ctl /\ k.api = Summary
                <5>1. o.raises \/ o.rows # 0
                    BY <3>1, <3>5, <4>1
                <5>2. o.rows # 0 => HasSummary(x)'
                    BY <3>1, <3>2, <3>4, <4>1 DEF HasSummary
                <5> QED BY <3>3, <4>1, <5>1, <5>2
            <4>2. CASE ~(x = k.ctl /\ k.api = Summary)
                <5>1. Asking(x) => Asking(x)'
                    BY <3>2, <4>2 DEF Asking
                <5>2. HasSummary(x) => HasSummary(x)'
                    BY <3>2, <3>4 DEF HasSummary
                <5>3. HasIssue(x) => HasIssue(x)'
                    BY <3>2, <3>3 DEF HasIssue
                <5> QED BY <3>2, <3>5, <5>1, <5>2, <5>3
            <4> QED BY <4>1, <4>2
        <3>6. excused \subseteq excused'
            BY <3>1
        <3> QED BY <1>5, <3>2, <3>5, <3>6
    <2>3. ASSUME NEW kind, Fails(k, kind) PROVE AccountedInv'
        <3>1. /\ UNCHANGED <<ts, members, todo, stored, txn, excused>> /\ conns' = conns \ {k}
              /\ issues' = IF k.api = Summary THEN Report(k, kind) ELSE issues
              /\ Collecting /\ Collecting'
            BY <2>3 DEF Fails, Freed, ReportsFailure, Dispatching, Collecting
        <3>2. issues \subseteq issues' /\ (k.api = Summary => HasIssue(k.ctl)')
            <4> DEFINE new == [time |-> ts, ctl |-> k.ctl, kind |-> kind, via |-> k.db]
            <4>1. issues' = IF k.api = Summary THEN issues \cup {new} ELSE issues
                BY <3>1 DEF Report
            <4>2. new.time = ts /\ new.ctl = k.ctl
                OBVIOUS
            <4> HIDE DEF new
            <4> QED BY <3>1, <4>1, <4>2 DEF HasIssue
        <3>3. ASSUME NEW x \in members, Known(x) PROVE Known(x)'
            <4>1. Asking(x) => Asking(x)' \/ HasIssue(x)'
                BY <3>1, <3>2 DEF Asking
            <4>2. HasSummary(x) => HasSummary(x)'
                BY <3>1 DEF HasSummary, Holds
            <4>3. HasIssue(x) => HasIssue(x)'
                BY <3>1, <3>2 DEF HasIssue
            <4> QED BY <3>1, <3>3, <4>1, <4>2, <4>3
        <3> QED BY <1>5, <3>1, <3>3
    <2> QED BY <1>10, <2>1, <2>2, <2>3 DEF Event
<1> QED BY <1>2, <1>3, <1>4, <1>6, <1>7, <1>8, <1>9, <1>10 DEF Next, Thread, Deliver

\* What a reply adds to the module rows and to their extension rows.
LEMMA ReplyModules ==
    ASSUME TypeOK, NEW k \in conns, Reply(k)
    PROVE  \/ Modules' = Modules /\ ext' = ext
           \/ \E n \in Nat : /\ Modules' = Modules \o NewRows(k.ctl, n)
                             /\ ext' = ext \cup NewExtRows(k, n)
<1>0. EStats \in DBs /\ k \in Connection /\ k.ctl \in Controllers /\ k.db \in DBs
    BY NumDBAssumption DEF DBs, EStats, TypeOK, Connection
<1>1. PICK o \in [rows : Nat, raises : BOOLEAN] :
        /\ o.rows # 0 => k.api = k.db
        /\ txn' = [txn EXCEPT ![k.db] = @ \o NewRows(k.ctl, o.rows)]
        /\ ext' = IF k.api = EStats THEN ext \cup NewExtRows(k, o.rows) ELSE ext
    BY <1>0, ReplyStep
<1> DEFINE n == o.rows
           new == NewRows(k.ctl, n)
<1>2. n \in Nat /\ stored' = stored
    BY DEF Reply
<1>3. new \in Seq(Row) /\ Len(new) = n
    BY <1>0, <1>2, NewRowsType
<1>4. stored[EStats] \in Seq(Row) /\ txn[EStats] \in Seq(Row)
    BY <1>0 DEF TypeOK
<1>5. CASE n # 0 /\ k.api = EStats
    <2>1. k.db = EStats /\ txn'[EStats] = txn[EStats] \o new
        BY <1>0, <1>1, <1>5 DEF TypeOK
    <2>3. new \in Seq(Row)
        BY <1>3
    <2> HIDE DEF new
    <2>2. (stored[EStats] \o txn[EStats]) \o new = stored[EStats] \o (txn[EStats] \o new)
        <3> DEFINE s == stored[EStats]
                   t == txn[EStats]
        <3>1. s \in Seq(Row) /\ t \in Seq(Row)
            BY <1>4
        <3> HIDE DEF s, t
        <3>2. (s \o t) \o new = s \o (t \o new)
            BY <2>3, <3>1, ConcatAssociative
        <3> QED BY <3>2 DEF s, t
    <2>4. Modules' = Modules \o new
        BY <1>2, <2>1, <2>2 DEF Modules
    <2> QED BY <1>1, <1>2, <1>5, <2>4 DEF new
<1>6. CASE n # 0 /\ k.api # EStats
    <2>1. k.db # EStats /\ txn'[EStats] = txn[EStats]
        BY <1>0, <1>1, <1>6 DEF TypeOK
    <2> QED BY <1>1, <1>2, <1>6, <2>1 DEF Modules
<1>7. CASE n = 0
    <2>1. new = <<>>
        BY <1>3, <1>7
    <2>2. ext' = ext
        <3>1. 1 .. n = {}
            BY <1>7
        <3>2. NewExtRows(k, n) = {}
            BY <3>1 DEF NewExtRows
        <3> QED BY <1>1, <3>2
    <2>3. txn' = [txn EXCEPT ![k.db] = @ \o new] /\ txn[k.db] \in Seq(Row)
        BY <1>0, <1>1 DEF TypeOK
    <2> HIDE DEF new, n
    <2>4. txn[k.db] \o new = txn[k.db]
        BY <2>1, <2>3, ConcatEmptySeq
    <2>5. txn'[EStats] = txn[EStats]
        BY <1>0, <2>3, <2>4 DEF TypeOK
    <2> QED BY <1>2, <2>2, <2>5 DEF Modules
<1> QED BY <1>5, <1>6, <1>7

\* Extension rows keep to the rowids their module rows get, or will get.
LEMMA ExtStep == IInv /\ PastInv /\ ExtInv /\ [Next]_vars => ExtInv'
<1> SUFFICES ASSUME IInv, PastInv, ExtInv, [Next]_vars PROVE ExtInv'
    OBVIOUS
<1> USE DEF nvram
<1>0. EStats \in DBs /\ TypeOK /\ stored[EStats] \in Seq(Row) /\ txn[EStats] \in Seq(Row)
    BY NumDBAssumption DEF DBs, EStats, IInv, TypeOK
<1>a. /\ Modules \in Seq(Row) /\ DOMAIN Modules = 1 .. Len(Modules) /\ Len(Modules) \in Nat
      /\ Len(Modules) = Len(stored[EStats]) + Len(txn[EStats])
      /\ \A i \in DOMAIN stored[EStats] : i \in DOMAIN Modules /\ Modules[i] = stored[EStats][i]
    <2> DEFINE s == stored[EStats]
               t == txn[EStats]
    <2>1. s \in Seq(Row) /\ t \in Seq(Row)
        BY <1>0
    <2>2. Modules = s \o t
        BY DEF Modules
    <2> HIDE DEF s, t
    <2>3. /\ s \o t \in Seq(Row) /\ DOMAIN s = 1 .. Len(s)
          /\ Len(s) \in Nat /\ Len(t) \in Nat /\ Len(s \o t) = Len(s) + Len(t)
          /\ DOMAIN (s \o t) = 1 .. Len(s) + Len(t)
          /\ \A i \in 1 .. Len(s) : (s \o t)[i] = s[i]
        BY <2>1, ConcatPlaces, Zenon
    <2>4. \A i \in 1 .. Len(s) : i \in 1 .. Len(s) + Len(t)
        BY <2>3
    <2>5. Len(s \o t) \in Nat
        BY <2>3
    <2> QED BY <2>2, <2>3, <2>4, <2>5, Zenon DEF s, t
<1>1. ASSUME UNCHANGED <<last, ts, stored, txn, ext>>, Collecting' => Collecting PROVE ExtInv'
    BY <1>1 DEF ExtInv, ModuleHasExt, PublishedExtExact, Modules
<1>2. CASE UNCHANGED vars \/ Tick \/ EditFarm \/ Restart
    BY <1>1, <1>2 DEF vars, Tick, EditFarm, Restart, Collecting
<1>3. CASE BatchFull \/ BatchDone \/ ScanDone \/ DrainDone
    BY <1>1, <1>3 DEF BatchFull, BatchDone, ScanDone, DrainDone, Collecting
<1>4. CASE \E c \in Controllers : OpenController(c)
    BY <1>1, <1>4 DEF OpenController, Collecting
<1>5. CASE Crash
    <2>1. stored' = stored /\ ext' = ext /\ last' = last /\ txn'[EStats] = <<>> /\ ~Collecting'
        BY <1>0, <1>5 DEF Crash, NoRows, Collecting
    <2>2. Modules' = stored[EStats]
        BY <1>0, <2>1, ConcatEmptySeq DEF Modules
    <2>4. ModuleHasExt'
        BY <1>a, <2>1, <2>2 DEF ExtInv, ModuleHasExt, Modules
    <2> QED BY <2>1, <2>4 DEF ExtInv, PublishedExtExact
<1>6. CASE Start
    <2>1. ts \in Nat /\ ts' \in Nat /\ ts < ts'
        <3>1. CASE pc = "boot"
            BY <1>6, <3>1 DEF Start, IInv, TypeOK, ClockInv, PastInv
        <3>2. CASE pc = "idle" /\ clock >= ts + Interval
            BY <1>6, <3>2, ClockAssumption DEF Start, IInv, TypeOK
        <3> QED BY <1>6, <3>1, <3>2 DEF Start
    <2>2. UNCHANGED <<last, stored, txn, ext>>
        BY <1>6 DEF Start, IInv, OpenInv, Collecting
    <2>3. \A e \in ext' : e.time # ts'
        BY <2>1, <2>2 DEF PastInv, IInv, TypeOK, ExtRow
    <2> QED BY <2>2, <2>3 DEF ExtInv, ModuleHasExt, PublishedExtExact, Modules
<1>7. CASE CommitNext
    <2>1. Modules' = Modules /\ UNCHANGED <<last, ts, ext>> /\ Collecting
        BY <1>0, <1>7, CommitHolds DEF CommitNext, Collecting
    <2>2. ModuleHasExt'
        BY <2>1 DEF ExtInv, ModuleHasExt, Modules
    <2>3. stored'[EStats] = stored[EStats] \/ stored'[EStats] = stored[EStats] \o txn[EStats]
        BY <1>0, <1>7 DEF CommitNext, Committed, IInv, TypeOK
    <2>4. \A i \in DOMAIN stored[EStats] :
            i \in DOMAIN stored'[EStats] /\ stored'[EStats][i] = stored[EStats][i]
        BY <1>a, <2>3 DEF Modules
    <2>5. PublishedExtExact'
        BY <2>1, <2>4 DEF ExtInv, PublishedExtExact
    <2> QED BY <2>1, <2>2, <2>5 DEF ExtInv
<1>8. CASE PublishCollection
    <2>1. /\ UNCHANGED <<ts, stored, txn, ext>> /\ last' = ts
          /\ ~Collecting' /\ Collecting
        BY <1>8 DEF PublishCollection, PublishedStamp, PastInv, Collecting
    <2>2. txn[EStats] = <<>>
        BY <1>0, <1>8, NumDBAssumption DEF PublishCollection, AllCommitted, IInv, OpenInv, DBs
    <2>3. Modules = stored[EStats]
        BY <1>0, <2>2, ConcatEmptySeq DEF Modules
    <2>4. ModuleHasExt'
        BY <2>1 DEF ExtInv, ModuleHasExt
    <2>5. PublishedExtExact'
        BY <2>1, <2>3 DEF ExtInv, PublishedExtExact
    <2> QED BY <2>1, <2>4, <2>5 DEF ExtInv
<1>9. ASSUME NEW k \in conns, Event(k) PROVE ExtInv'
    <2>1. CASE Connected(k)
        BY <1>1, <2>1 DEF Connected, Collecting
    <2>2. CASE Reply(k)
        <3>1. /\ UNCHANGED <<last, ts, stored, pc>> /\ Collecting
            BY <2>2 DEF Reply, Dispatching, Collecting
        <3>2. last < ts /\ ts \in Nat /\ last \in Nat
            BY <3>1 DEF IInv, ClockInv, TypeOK
        <3>3. CASE Modules' = Modules /\ ext' = ext
            BY <3>1, <3>3 DEF ExtInv, ModuleHasExt, PublishedExtExact, Modules, Collecting
        <3>4. ASSUME NEW n \in Nat, Modules' = Modules \o NewRows(k.ctl, n),
                     ext' = ext \cup NewExtRows(k, n)
              PROVE  ExtInv'
            <4> DEFINE new == NewRows(k.ctl, n)
                       m == Len(Modules)
            <4>0. k.ctl \in Controllers
                BY <1>0 DEF TypeOK, Connection
            <4>1. new \in Seq(Row) /\ Len(new) = n
                  /\ \A i \in 1 .. n : new[i] = [time |-> ts, ctl |-> k.ctl]
                BY <1>0, <4>0, NewRowsType
            <4>2. /\ Modules \in Seq(Row) /\ m \in Nat /\ DOMAIN Modules = 1 .. m
                  /\ m = Len(stored[EStats]) + Len(txn[EStats])
                BY <1>a
            <4>a. m \in Nat /\ DOMAIN Modules = 1 .. m
                BY <4>2
            <4> HIDE DEF new, m
            <4>3. NewExtRows(k, n) = {[parent |-> m + i, time |-> ts, ctl |-> k.ctl] : i \in 1 .. n}
                BY <4>2 DEF NewExtRows
            <4>4. /\ DOMAIN Modules' = 1 .. m + n
                  /\ \A i \in 1 .. m : Modules'[i] = Modules[i]
                  /\ \A i \in 1 .. n : Modules'[m + i] = [time |-> ts, ctl |-> k.ctl]
                <5>1. Modules' = Modules \o new
                    BY <3>4 DEF new
                <5>2. Modules \in Seq(Row) /\ new \in Seq(Row)
                    BY <4>1, <4>2
                <5>3. /\ DOMAIN (Modules \o new) = 1 .. m + n
                      /\ \A i \in 1 .. m : (Modules \o new)[i] = Modules[i]
                      /\ \A i \in 1 .. n : (Modules \o new)[m + i] = new[i]
                    <6> DEFINE s == Modules
                    <6>1. s \in Seq(Row) /\ new \in Seq(Row)
                        BY <5>2
                    <6>3. Len(s) = m /\ Len(new) = n
                        BY <4>1 DEF m
                    <6> HIDE DEF s
                    <6>2. /\ DOMAIN (s \o new) = 1 .. Len(s) + Len(new)
                          /\ \A i \in 1 .. Len(s) : (s \o new)[i] = s[i]
                          /\ \A i \in 1 .. Len(new) : (s \o new)[Len(s) + i] = new[i]
                        BY <6>1, ConcatPlaces
                    <6> QED BY <6>2, <6>3 DEF s
                <5> QED BY <4>1, <5>1, <5>3
            <4>5. ASSUME NEW i \in DOMAIN Modules'
                  PROVE  [parent |-> i, time |-> Modules'[i].time, ctl |-> Modules'[i].ctl] \in ext'
                <5>1. CASE i \in 1 .. m
                    BY <3>4, <4>2, <4>4, <5>1 DEF ExtInv, ModuleHasExt, Modules
                <5>2. CASE i \notin 1 .. m
                    <6> DEFINE j == i - m
                    <6>1. j \in 1 .. n /\ i = m + j
                        <7>1. i \in 1 .. m + n /\ n \in Nat /\ m \in Nat
                            BY <4>2, <4>4
                        <7> QED BY <5>2, <7>1
                    <6> HIDE DEF j
                    <6>2. Modules'[i] = [time |-> ts, ctl |-> k.ctl]
                        BY <4>4, <6>1
                    <6>3. [parent |-> m + j, time |-> ts, ctl |-> k.ctl] \in ext'
                        BY <3>4, <4>3, <6>1
                    <6> QED BY <6>1, <6>2, <6>3
                <5> QED BY <5>1, <5>2
            <4>6. ModuleHasExt'
                BY <4>5 DEF ModuleHasExt, Modules
            <4>7. ASSUME NEW e \in NewExtRows(k, n)
                  PROVE  /\ e.time = ts /\ e.parent \in DOMAIN Modules'
                         /\ Modules'[e.parent] = [time |-> e.time, ctl |-> e.ctl]
                <5>1. PICK i \in 1 .. n : e = [parent |-> m + i, time |-> ts, ctl |-> k.ctl]
                    BY <4>3, <4>7
                <5>2. e.parent = m + i /\ e.time = ts /\ e.ctl = k.ctl
                    BY <5>1
                <5>3. m + i \in 1 .. m + n
                    BY <4>a
                <5> QED BY <4>4, <5>2, <5>3
            <4>8. PublishedExtExact'
                BY <3>1, <3>2, <3>4, <4>7 DEF ExtInv, PublishedExtExact
            <4>9. ASSUME NEW e \in ext, e.time = ts
                  PROVE  /\ e.parent \in DOMAIN Modules'
                         /\ Modules'[e.parent] = [time |-> e.time, ctl |-> e.ctl]
                <5>1. /\ e.parent \in DOMAIN Modules
                      /\ Modules[e.parent] = [time |-> e.time, ctl |-> e.ctl]
                    BY <3>1, <4>9 DEF ExtInv
                <5>2. \A i \in 1 .. m : i \in 1 .. m + n
                    BY <4>a
                <5>3. e.parent \in 1 .. m /\ e.parent \in 1 .. m + n
                    BY <4>a, <5>1, <5>2
                <5> QED BY <4>4, <5>1, <5>3
            <4> QED BY <3>1, <3>4, <4>6, <4>7, <4>8, <4>9 DEF ExtInv
        <3> QED BY <1>0, <2>2, <3>3, <3>4, ReplyModules
    <2>3. ASSUME NEW kind, Fails(k, kind) PROVE ExtInv'
        BY <1>1, <2>3 DEF Fails, Collecting
    <2> QED BY <1>9, <2>1, <2>2, <2>3 DEF Event
<1> QED BY <1>2, <1>3, <1>4, <1>5, <1>6, <1>7, <1>8, <1>9 DEF Next, Thread, Deliver

(***************************************************************************)
(* The theorems.                                                           *)
(***************************************************************************)
\* What the collection has written so far fits what it still has to do.
THEOREM RowsInvariance == Spec => [](IInv /\ RowsInv)
<1>1. Init => IInv /\ RowsInv
    BY InitIInv, InitRowsInv
<1>2. IInv /\ RowsInv /\ [Next]_vars => (IInv /\ RowsInv)'
    BY NextIInv, PastStep, ConnsStep, SettledStep, AccountedStep, ExtStep DEF RowsInv
<1> QED BY <1>1, <1>2, PTL DEF Spec

\* Of the connections to one controller at most one reports it (event_cb tests
\* Type == Summary), however many databases and failing connect calls there are.
THEOREM OneReport == Spec => []OneConnectionIssue
<1>1. RowsInv => OneConnectionIssue
    BY DEF RowsInv, SettledInv
<1> QED BY <1>1, RowsInvariance, PTL

\* No controller is both alive and unreachable in one collection.
THEOREM AliveOrUnreachable == Spec => []UnreachableHasNoSummary
<1>1. IInv /\ RowsInv => UnreachableHasNoSummary
    <2> SUFFICES ASSUME IInv, RowsInv, NEW r \in issues, ConnectionIssue(r),
                        NEW i \in DOMAIN (stored[Summary] \o txn[Summary])
                 PROVE  (stored[Summary] \o txn[Summary])[i] # [time |-> r.time, ctl |-> r.ctl]
        BY DEF UnreachableHasNoSummary
    <2> DEFINE row == [time |-> r.time, ctl |-> r.ctl]
    <2>1. stored[Summary] \in Seq(Row) /\ txn[Summary] \in Seq(Row)
        BY NumDBAssumption DEF IInv, TypeOK, DBs, Summary
    <2>2. ~Holds(Summary, row)
        BY DEF RowsInv, SettledInv
    <2> HIDE DEF row
    <2>3. ~In(row, stored[Summary] \o txn[Summary])
        BY <2>1, <2>2, InConcat DEF Holds
    <2> QED BY <2>3 DEF In, row
<1> QED BY <1>1, RowsInvariance, PTL

\* A controller of a published collection left a row, an issue or one of the
\* two excuses; nothing else makes it disappear.
THEOREM NothingIsLost == Spec => []NoSilentLoss
<1>1. RowsInv => NoSilentLoss
    BY DEF RowsInv, AccountedInv
<1> QED BY <1>1, RowsInvariance, PTL

\* Each module row has the extension row parsed with it.
THEOREM ModulesHaveExt == Spec => []ModuleHasExt
<1>1. RowsInv => ModuleHasExt
    BY DEF RowsInv, ExtInv
<1> QED BY <1>1, RowsInvariance, PTL

\* A published extension row refers to the module row it was parsed with.
THEOREM PublishedExtIsExact == Spec => []PublishedExtExact
<1>1. RowsInv => PublishedExtExact
    BY DEF RowsInv, ExtInv
<1> QED BY <1>1, RowsInvariance, PTL

(***************************************************************************)
(* What readers see: the collector implements CommitLog.                    *)
(***************************************************************************)
\* The rows of one table that a SELECT by timestamp t finds.
Slice(rows, t) ==
    {[id |-> i, ctl |-> rows[i].ctl] : i \in {j \in DOMAIN rows : rows[j].time = t}}

RowSet == SUBSET [id : Nat, ctl : Controllers]
Reached == IF Collecting THEN cursor ELSE 0

LEMMA ArchiveSlices ==
    Archive = [t \in 0 .. MaxTime |-> [d \in DBs |-> Slice(stored[d], t)]]
BY DEF Archive, Slice

LEMMA SliceType ==
    ASSUME NEW rows \in Seq(Row), NEW t
    PROVE  Slice(rows, t) \in RowSet
<1>1. ASSUME NEW i \in DOMAIN rows PROVE [id |-> i, ctl |-> rows[i].ctl] \in [id : Nat, ctl : Controllers]
    <2>1. rows[i] \in Row /\ i \in Nat
        OBVIOUS
    <2> QED BY <2>1 DEF Row
<1> QED BY <1>1 DEF Slice, RowSet

\* Rows of another time do not change the slice they are appended to.
LEMMA SliceAppend ==
    ASSUME NEW s \in Seq(Row), NEW u \in Seq(Row), NEW t,
           \A i \in DOMAIN u : u[i].time # t
    PROVE  Slice(s \o u, t) = Slice(s, t)
<1>1. /\ DOMAIN s = 1 .. Len(s) /\ DOMAIN (s \o u) = 1 .. Len(s) + Len(u)
      /\ Len(s) \in Nat /\ Len(u) \in Nat
      /\ \A i \in 1 .. Len(s) : (s \o u)[i] = s[i]
    BY ConcatPlaces
<1>2. \A i \in DOMAIN s : i \in DOMAIN (s \o u) /\ (s \o u)[i] = s[i]
    BY <1>1
<1>3. ASSUME NEW i \in DOMAIN (s \o u), (s \o u)[i].time = t
      PROVE  i \in DOMAIN s
    BY <1>3, ConcatElement
<1> QED BY <1>2, <1>3 DEF Slice

\* A step that commits nothing, publishes nothing and starts nothing is a
\* stutter to readers.
LEMMA QuietStutters ==
    ASSUME stored' = stored, last' = last, current' = current, Reached' = Reached
    PROVE  UNCHANGED Visible!logvars
BY DEF Visible!logvars, Archive, Reached

\* CommitNext is the COMMIT of the abstract collector: it makes rows visible
\* under the timestamp of the running collection only.
LEMMA CommitRefines == IInv /\ CommitNext => Visible!CommitTable
<1> SUFFICES ASSUME IInv, CommitNext PROVE Visible!CommitTable
    OBVIOUS
<1> DEFINE T == 0 .. MaxTime
           A == Archive
           R == Slice(stored'[cursor], current)
<1>1. /\ cursor \in DBs /\ cursor' = cursor + 1 /\ current' = current /\ last' = last
      /\ Collecting /\ Collecting' /\ ts = current /\ current \in T /\ ts \in Nat
    <2>1. cursor \in 1 .. NumDB + 1 /\ cursor <= NumDB
        BY DEF CommitNext, IInv, TypeOK
    <2>2. cursor \in DBs
        BY <2>1, NumDBAssumption DEF DBs
    <2>3. /\ cursor' = cursor + 1 /\ current' = current /\ last' = last
          /\ Collecting /\ Collecting'
        BY DEF CommitNext, Collecting, nvram
    <2>4. ts = current /\ current \in T /\ ts \in Nat
        BY <2>3, BoundsAssumption DEF IInv, TypeOK, ClockInv
    <2> QED BY <2>2, <2>3, <2>4
<1>2. stored \in [DBs -> Seq(Row)] /\ stored' \in [DBs -> Seq(Row)]
    <2>1. IInv'
        BY ThreadIInv DEF Thread
    <2> QED BY <2>1 DEF IInv, TypeOK
<1>3. ASSUME NEW t \in T, NEW d \in DBs, ~(t = current /\ d = cursor)
      PROVE  Slice(stored'[d], t) = Slice(stored[d], t)
    <2>1. CASE d # cursor
        BY <1>2, <2>1 DEF CommitNext
    <2>2. CASE d = cursor
        <3>1. t # ts
            BY <1>1, <1>3, <2>2
        <3>2. stored'[d] = stored[d] \o txn[d] /\ stored[d] \in Seq(Row) /\ txn[d] \in Seq(Row)
            BY <2>2 DEF CommitNext, Committed, IInv, TypeOK
        <3>3. \A i \in DOMAIN txn[d] : txn[d][i].time # t
            BY <3>1 DEF IInv, OpenInv
        <3> QED BY <3>2, <3>3, SliceAppend
    <2> QED BY <2>1, <2>2
<1>4. /\ A = [t \in T |-> [d \in DBs |-> Slice(stored[d], t)]]
      /\ A' = [t \in T |-> [d \in DBs |-> Slice(stored'[d], t)]]
    BY ArchiveSlices DEF Archive, Slice
<1>5. A'[current][cursor] = R /\ R \in RowSet
    BY <1>1, <1>2, <1>4, SliceType
<1>6. A' = [A EXCEPT ![current][cursor] = R]
    <2> DEFINE B == [A EXCEPT ![current][cursor] = R]
    <2> HIDE DEF A
    <2>2. ASSUME NEW t \in T, NEW d \in DBs PROVE B[t][d] = Slice(stored'[d], t)
        BY <1>1, <1>3, <1>4, <2>2
    <2>3. B = [t \in T |-> [d \in DBs |-> Slice(stored'[d], t)]]
        BY <1>1, <1>4, <2>2
    <2> QED BY <1>4, <2>3
<1> HIDE DEF R
<1>7. Visible!CommitRows(R)
    BY <1>1, <1>6 DEF Visible!CommitRows, Visible!DBs, DBs
<1> QED BY <1>1, <1>5, <1>7 DEF Visible!CommitTable, RowSet, Visible!DBs, DBs

LEMMA InitRefines == Init => Visible!LogInit
<1> SUFFICES ASSUME Init PROVE Visible!LogInit
    OBVIOUS
<1>1. \A d \in DBs : \A t : Slice(stored[d], t) = {}
    BY DEF Init, NoRows, Slice
<1>2. Archive = [t \in 0 .. MaxTime |-> [d \in DBs |-> {}]]
    BY <1>1, ArchiveSlices
<1> QED BY <1>2 DEF Init, Collecting, Visible!LogInit, Visible!Times, Visible!DBs, DBs

\* Every step of the collector is a step of the abstract one or a stutter.
LEMMA NextRefines == IInv /\ [Next]_vars => [Visible!LogNext]_(Visible!logvars)
<1> SUFFICES ASSUME IInv, [Next]_vars PROVE [Visible!LogNext]_(Visible!logvars)
    OBVIOUS
<1> USE DEF nvram
<1>1. CASE UNCHANGED vars \/ Tick \/ EditFarm \/ Restart
    BY <1>1, QuietStutters DEF vars, Tick, EditFarm, Restart, Reached, Collecting
<1>2. CASE Crash
    <2>1. stored' = stored /\ last' = last /\ current' = current /\ Reached' = 0
        BY <1>2 DEF Crash, Reached, Collecting
    <2>2. CASE Reached = 0
        BY <2>1, <2>2, QuietStutters
    <2>3. CASE Reached # 0
        <3>1. Visible!AbandonRound
            BY <2>1, <2>3 DEF Visible!AbandonRound, Archive, Reached
        <3> QED BY <3>1 DEF Visible!LogNext
    <2> QED BY <2>2, <2>3
<1>3. CASE Start
    <2>1. stored' = stored /\ last' = last /\ Reached = 0 /\ Reached' = 1
        BY <1>3 DEF Start, Reached, Collecting
    <2>2. current' \in current + 1 .. MaxTime
        BY <1>3, ClockAssumption, BoundsAssumption DEF Start, IInv, TypeOK, ClockInv
    <2>3. Visible!BeginRound
        BY <2>1, <2>2 DEF Visible!BeginRound, Visible!FreshStamps, Archive, Reached
    <2> QED BY <2>3 DEF Visible!LogNext
<1>4. CASE \E c \in Controllers : OpenController(c)
    BY <1>4, QuietStutters DEF OpenController, Reached, Collecting
<1>5. CASE BatchFull \/ BatchDone \/ ScanDone \/ DrainDone
    BY <1>5, QuietStutters DEF BatchFull, BatchDone, ScanDone, DrainDone, Reached, Collecting
<1>6. CASE CommitNext
    BY <1>6, CommitRefines DEF Visible!LogNext
<1>7. CASE PublishCollection
    <2>1. /\ stored' = stored /\ current' = current /\ last' = current
          /\ Reached = NumDB + 1 /\ Reached' = 0
        BY <1>7 DEF PublishCollection, AllCommitted, PublishedStamp, Reached, Collecting
    <2>2. Visible!PublishRound
        BY <2>1 DEF Visible!PublishRound, Visible!RoundStamp, Archive, Reached
    <2> QED BY <2>2 DEF Visible!LogNext
<1>8. ASSUME NEW k \in conns, Event(k) PROVE [Visible!LogNext]_(Visible!logvars)
    <2>1. CASE Connected(k)
        BY <2>1, QuietStutters DEF Connected, Reached, Collecting
    <2>2. CASE Reply(k)
        BY <2>2, QuietStutters DEF Reply, Reached, Collecting
    <2>3. ASSUME NEW kind, Fails(k, kind) PROVE [Visible!LogNext]_(Visible!logvars)
        BY <2>3, QuietStutters DEF Fails, Reached, Collecting
    <2> QED BY <1>8, <2>1, <2>2, <2>3 DEF Event
<1> QED BY <1>1, <1>2, <1>3, <1>4, <1>5, <1>6, <1>7, <1>8 DEF Next, Thread, Deliver

\* The collector implements the log its readers rely on.
THEOREM LogImplemented == Spec => ImplementsCommitLog
<1>1. Init => Visible!LogInit
    BY InitRefines
<1>2. IInv /\ [Next]_vars => [Visible!LogNext]_(Visible!logvars)
    BY NextRefines
<1> QED BY <1>1, <1>2, Invariance, PTL DEF Spec, ImplementsCommitLog, Visible!LogSpec

(***************************************************************************)
(* The promise to readers, end to end.                                      *)
(***************************************************************************)
LEMMA ArchiveType ==
    ASSUME TypeOK PROVE Archive \in [0 .. MaxTime -> [DBs -> RowSet]]
<1>1. \A d \in DBs : \A t : Slice(stored[d], t) \in RowSet
    BY SliceType DEF TypeOK
<1> QED BY <1>1, ArchiveSlices

\* Rows that are committed carry the time of the running collection, which is
\* later than what is published.
LEMMA CommitGathers == IInv /\ IInv' /\ CommitNext => Frozen!Gather
<1> SUFFICES ASSUME IInv, IInv', CommitNext PROVE Frozen!Gather
    OBVIOUS
<1>1. /\ last' = last /\ last \in Nat /\ current \in 0 .. MaxTime /\ last < current
      /\ current' = current /\ cursor \in DBs
    <2>1. last' = last /\ current' = current /\ pc = "commit" /\ cursor <= NumDB
        BY DEF CommitNext, nvram
    <2>2. ts = current /\ last < ts /\ current \in 0 .. MaxTime /\ last \in Nat
        BY <2>1, BoundsAssumption DEF IInv, TypeOK, ClockInv, Collecting
    <2>3. cursor \in 1 .. NumDB + 1
        BY DEF IInv, TypeOK
    <2>4. cursor \in DBs
        BY <2>1, <2>3, NumDBAssumption DEF DBs
    <2> QED BY <2>1, <2>2, <2>4
<1>2. Archive' \in [0 .. MaxTime -> [DBs -> RowSet]]
    <2>1. TypeOK'
        BY DEF IInv
    <2>2. \A d \in DBs : \A t : Slice(stored'[d], t) \in RowSet
        BY <2>1, SliceType DEF TypeOK
    <2>3. Archive' = [t \in 0 .. MaxTime |-> [d \in DBs |-> Slice(stored'[d], t)]]
        BY DEF Archive, Slice
    <2> QED BY <2>2, <2>3
<1>3. \A t \in 0 .. last : Archive'[t] = Archive[t]
    <2> SUFFICES ASSUME NEW t \in 0 .. last PROVE Archive'[t] = Archive[t]
        OBVIOUS
    <2>1. t \in 0 .. MaxTime /\ t # current
        BY <1>1, BoundsAssumption
    <2>2. Visible!CommitTable
        BY CommitRefines
    <2>3. Archive' = [Archive EXCEPT ![current][cursor] = Archive'[current][cursor]]
        <3>1. Collecting
            BY DEF CommitNext, Collecting
        <3> QED BY <2>2, <3>1 DEF Visible!CommitTable, Visible!CommitRows
    <2>4. Archive \in [0 .. MaxTime -> [DBs -> RowSet]]
        BY ArchiveType DEF IInv
    <2> QED BY <2>1, <2>3, <2>4
<1> QED BY <1>1, <1>2, <1>3 DEF Frozen!Gather, Frozen!Times, RowSet

\* Whatever the connections do and wherever the process dies, a reader who uses
\* a published timestamp finds the same rows for ever (DataCollector.cpp writes
\* LastDataCollection after the last COMMIT).
THEOREM PublishedStaysFrozen == Spec => PublishedIsFrozen
<1>1. Init => Frozen!ArchiveInit
    <2>1. Init => Visible!LogInit
        BY InitRefines
    <2> QED BY <2>1 DEF Visible!LogInit, Visible!Times, Visible!DBs, DBs,
                        Frozen!ArchiveInit, Frozen!Times
<1>2. IInv /\ IInv' /\ [Next]_vars => [Frozen!ArchiveNext]_(Frozen!avars)
    <2> SUFFICES ASSUME IInv, IInv', [Next]_vars
                 PROVE  Frozen!ArchiveNext \/ UNCHANGED <<last, Archive>>
        BY DEF Frozen!avars
    <2>1. CASE CommitNext
        BY <2>1, CommitGathers DEF Frozen!ArchiveNext
    <2>2. CASE PublishCollection
        <3>1. stored' = stored /\ last' = current /\ pc = "commit"
            BY <2>2 DEF PublishCollection, PublishedStamp
        <3>2. current \in last + 1 .. MaxTime
            <4>1. last < current /\ current <= clock /\ clock <= MaxTime
                BY <3>1 DEF IInv, ClockInv, Collecting
            <4>2. last \in Nat /\ current \in Nat /\ clock \in Nat
                BY DEF IInv, TypeOK
            <4> QED BY <4>1, <4>2, BoundsAssumption
        <3>3. Frozen!Publish
            BY <3>1, <3>2 DEF Frozen!Publish, Archive
        <3> QED BY <3>3 DEF Frozen!ArchiveNext
    <2>3. CASE ~CommitNext /\ ~PublishCollection
        <3>1. stored' = stored /\ last' = last
            BY <2>3 DEF Next, vars, nvram, Tick, EditFarm, Crash, Restart, Start, Thread,
                OpenController, BatchFull, BatchDone, ScanDone, DrainDone, Deliver, Event,
                Connected, Reply, Fails
        <3> QED BY <3>1 DEF Archive
    <2> QED BY <2>1, <2>2, <2>3
<1> QED BY <1>1, <1>2, Invariance, PTL DEF Spec, PublishedIsFrozen, Frozen!ArchiveSpec
=============================================================================
