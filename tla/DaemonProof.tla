----------------------------- MODULE DaemonProof -----------------------------
(***************************************************************************)
(* Proofs about Daemon: what holds for every number of connections and        *)
(* controllers and every set of operations, checked by TLAPS.                 *)
(***************************************************************************)
EXTENDS Daemon, FiniteSetTheorems, TLAPS

\* Between LockTable and UnlockTable.
Critical == {"begin", "entries", "unlock"}

\* A file without its table is the work of a process that is still creating
\* it, or died over it.
BootInv ==
    /\ boot = "up" /\ ~cut => schema = "ready"
    /\ boot \in {"off", "loaded"} /\ ~cut => schema # "empty"

\* GlobalLock is held where the code says, and only there.
LockInv == \A t \in Threads : glock = t <=> pc[t] \in Critical

\* Who writes has the lock; a transaction is lost only together with the lock.
WriterInv ==
    /\ \A t \in Threads : writer = t => pc[t] = "entries"
    /\ writer = Leaked => glock = Leaked

\* Which thread has which request.
OpInv == \A t \in Threads :
    /\ pc[t] \in {"idle", "read"} => req[t] = NoRequest
    /\ pc[t] \notin {"idle", "read", "send"} => req[t] \in Request
    /\ pc[t] \in {"version", "get", "lookup", "set", "resave"} =>
          req[t].op \notin {"add", "del"}
    /\ pc[t] = "entries" => req[t].op \in {"add", "del"}

\* What the loop is to go through, and which controllers it has done.
AllEntries(t) == req[t].named \cup (IF req[t].fault = "address" THEN {Bad} ELSE {})
Done(t) == req[t].named \ left[t]

\* The rows that the connection of t sees once these are done.
HalfWay(t) ==
    IF req[t].op = "add" THEN {table \cup Done(t)}
    ELSE {table \ Done(t)} \cup
         (IF req[t].fault = "address" /\ Bad \notin left[t]
          THEN {table \ (Done(t) \cup {c}) : c \in Endpoints} ELSE {})

\* The transaction holds the part of the request that the loop has done.
WorkInv == \A t \in Threads : pc[t] = "entries" =>
    /\ left[t] \subseteq AllEntries(t)
    /\ writer # t => left[t] = AllEntries(t)
    /\ writer = t => work \in HalfWay(t)

IInv == DaemonTypeOK /\ BootInv /\ LockInv /\ WriterInv /\ OpInv /\ WorkInv

(***************************************************************************)
(* Lemmas about requests.                                                  *)
(***************************************************************************)
\* The fields of a request.
LEMMA RequestFields ==
    ASSUME NEW r \in Request
    PROVE  /\ r.op \in {"add", "del", "list", "wipe", "get", "set", "version"}
           /\ r.named \subseteq Endpoints
           /\ r # NoRequest
           /\ r.op # "none"
BY DEF Request, AllRequests, NoRequest

(***************************************************************************)
(* The inductive invariant.                                                *)
(***************************************************************************)
LEMMA InitIInv == Init => IInv
<1> SUFFICES ASSUME Init PROVE IInv
    OBVIOUS
<1> USE DEF Init, ApiInit, ControllerInit, ConfigInit
<1>1. DaemonTypeOK
    BY DEF DaemonTypeOK, ApiTypeOK, ControllerTypeOK, ConfigTypeOK, Codes
<1>2. BootInv /\ WriterInv /\ OpInv /\ WorkInv
    BY NamesAssumption DEF BootInv, WriterInv, OpInv, WorkInv
<1>3. LockInv
    BY NamesAssumption DEF LockInv, Critical
<1> QED BY <1>1, <1>2, <1>3 DEF IInv

LEMMA StartupIInv == IInv /\ (Startup \/ Crash) => IInv'
<1> SUFFICES ASSUME IInv, Startup \/ Crash PROVE IInv'
    OBVIOUS
<1> USE DEF IInv
<1>1. CASE LoadConfig \/ FindFile
    <2>1. DaemonTypeOK' /\ BootInv'
        BY <1>1 DEF LoadConfig, FindFile, FindsFile, DaemonTypeOK, ApiTypeOK, ControllerTypeOK,
                    ConfigTypeOK, BootInv, apivars, tablevars, cfgvars
    <2>2. LockInv' /\ WriterInv' /\ OpInv' /\ WorkInv'
        BY <1>1 DEF LoadConfig, FindFile, LockInv, WriterInv, OpInv, WorkInv, AllEntries, Done,
                    HalfWay, apivars, tablevars
    <2> QED BY <2>1, <2>2
<1>2. CASE CreateFile \/ CreateTable
    <2>1. DaemonTypeOK' /\ BootInv'
        BY <1>2 DEF CreateFile, CreateTable, FindsFile, DaemonTypeOK, ApiTypeOK, ControllerTypeOK,
                    ConfigTypeOK, BootInv, apivars, cfgvars
    <2>2. LockInv' /\ WriterInv' /\ OpInv' /\ WorkInv'
        BY <1>2 DEF CreateFile, CreateTable, LockInv, WriterInv, OpInv, WorkInv, AllEntries, Done,
                    HalfWay, apivars
    <2> QED BY <2>1, <2>2
<1>3. CASE Crash
    <2>1. DaemonTypeOK'
        BY <1>3 DEF Crash, DaemonTypeOK, ApiTypeOK, ControllerTypeOK, ConfigTypeOK, Codes
    <2>2. BootInv'
        BY <1>3 DEF Crash, DaemonTypeOK, BootInv
    <2>3. LockInv' /\ WriterInv' /\ OpInv' /\ WorkInv'
        BY <1>3, NamesAssumption DEF Crash, LockInv, WriterInv, OpInv, WorkInv, Critical
    <2> QED BY <2>1, <2>2, <2>3
<1> QED BY <1>1, <1>2, <1>3 DEF Startup

\* A step of one thread outside of the lock.
LEMMA OutsideStep ==
    ASSUME IInv, NEW t \in Threads, NEW l,
           pc' = [pc EXCEPT ![t] = l], pc[t] \notin Critical, l \notin Critical,
           \A u \in Threads : u # t => req'[u] = req[u],
           UNCHANGED <<table, glock, writer, work, left>>
    PROVE  LockInv' /\ WriterInv' /\ WorkInv'
<1> USE DEF IInv, Critical
<1>0. /\ pc' \in [Threads -> {pc[u] : u \in Threads} \cup {l}]
      /\ \A u \in Threads : u # t => pc'[u] = pc[u]
      /\ pc'[t] = l
    BY DEF DaemonTypeOK, ApiTypeOK
<1>1. LockInv'
    BY <1>0 DEF LockInv
<1>2. WriterInv'
    BY <1>0 DEF WriterInv
<1>3. WorkInv'
    BY <1>0 DEF WorkInv, AllEntries, Done, HalfWay
<1> QED BY <1>1, <1>2, <1>3

LEMMA ConnectionIInv ==
    ASSUME IInv, NEW t \in Threads, (boot = "up" /\ Accept(t)) \/ Connection(t),
           UNCHANGED <<tablevars, cfgvars, boot, cut>>
    PROVE  IInv'
<1> USE DEF IInv
<1>1. CASE Accept(t)
    <2>1. DaemonTypeOK'
        BY <1>1 DEF Accept, Goto, DaemonTypeOK, ApiTypeOK, ControllerTypeOK, ConfigTypeOK,
                    tablevars, cfgvars
    <2>2. LockInv' /\ WriterInv' /\ WorkInv'
        BY <1>1, OutsideStep DEF Accept, Goto, Critical, tablevars
    <2>3. OpInv'
        BY <1>1 DEF Accept, Goto, OpInv, DaemonTypeOK, ApiTypeOK
    <2> QED BY <2>1, <2>2, <2>3 DEF BootInv, tablevars
<1>2. CASE Hangup(t) \/ Send(t)
    <2>1. DaemonTypeOK'
        BY <1>2 DEF Hangup, Send, Close, Goto, DaemonTypeOK, ApiTypeOK, ControllerTypeOK,
                    ConfigTypeOK, Codes, tablevars, cfgvars
    <2>2. LockInv' /\ WriterInv' /\ WorkInv'
        <3>1. \A u \in Threads : u # t => req'[u] = req[u]
            BY <1>2 DEF Hangup, Send, Close, DaemonTypeOK, ApiTypeOK
        <3> QED BY <1>2, <3>1, OutsideStep DEF Hangup, Send, Close, Goto, Critical, tablevars
    <2>3. OpInv'
        BY <1>2 DEF Hangup, Send, Close, Goto, OpInv, DaemonTypeOK, ApiTypeOK
    <2> QED BY <2>1, <2>2, <2>3 DEF BootInv, tablevars
<1>3. CASE Refuse(t) \/ Version(t)
    <2>1. DaemonTypeOK'
        BY <1>3 DEF Refuse, Version, Return, Goto, Refused, DaemonTypeOK, ApiTypeOK,
                    ControllerTypeOK, ConfigTypeOK, Codes, tablevars, cfgvars
    <2>2. LockInv' /\ WriterInv' /\ WorkInv'
        BY <1>3, OutsideStep DEF Refuse, Version, Return, Goto, Critical, tablevars
    <2>3. OpInv'
        BY <1>3 DEF Refuse, Version, Return, Goto, OpInv, DaemonTypeOK, ApiTypeOK
    <2> QED BY <2>1, <2>2, <2>3 DEF BootInv, tablevars
<1>4. CASE Dispatch(t)
    <2>1. PICK r \in Request : req' = [req EXCEPT ![t] = r] /\ Goto(t, EntryOf(r.op))
        BY <1>4 DEF Dispatch
    <2>2. /\ EntryOf(r.op) \in {"open", "get", "set", "version"}
          /\ EntryOf(r.op) # "open" => r.op \notin {"add", "del"}
        BY RequestFields DEF EntryOf, TableOp
    <2>3. DaemonTypeOK'
        BY <1>4, <2>1, <2>2 DEF Dispatch, Goto, DaemonTypeOK, ApiTypeOK,
                    ControllerTypeOK, ConfigTypeOK, tablevars, cfgvars
    <2>4. LockInv' /\ WriterInv' /\ WorkInv'
        <3>1. \A u \in Threads : u # t => req'[u] = req[u]
            BY <2>1 DEF DaemonTypeOK, ApiTypeOK
        <3> QED BY <1>4, <2>1, <2>2, <3>1, OutsideStep DEF Dispatch, Goto, Critical, tablevars
    <2>5. OpInv'
        BY <2>1, <2>2 DEF Goto, OpInv, DaemonTypeOK, ApiTypeOK
    <2> QED BY <2>3, <2>4, <2>5 DEF BootInv, tablevars
<1> QED BY <1>1, <1>2, <1>3, <1>4 DEF Connection

LEMMA ConfigIInv ==
    ASSUME IInv, NEW t \in Threads, ConfigOp(t), UNCHANGED <<tablevars, boot, cut>>
    PROVE  IInv'
<1> USE DEF IInv, ConfigOp, GetConfig, LookupConfig, SetConfig, Return, Goto
<1>1. DaemonTypeOK'
    BY DEF DaemonTypeOK, ApiTypeOK, ControllerTypeOK, ConfigTypeOK, Codes, tablevars
<1>2. LockInv' /\ WriterInv' /\ WorkInv'
    BY OutsideStep DEF Critical, tablevars
<1>3. OpInv'
    BY DEF OpInv, DaemonTypeOK, ApiTypeOK
<1> QED BY <1>1, <1>2, <1>3 DEF BootInv, tablevars

\* Only one thread is between LockTable and UnlockTable.
LEMMA OneEditor ==
    ASSUME IInv, NEW t \in Threads, pc[t] \in Critical
    PROVE  /\ glock = t
           /\ \A u \in Threads : u # t => pc[u] \notin Critical
           /\ writer \in {None, t}
<1>1. glock = t /\ \A u \in Threads : u # t => pc[u] \notin Critical
    BY DEF IInv, LockInv
<1>2. writer \in {None, t}
    BY <1>1, NamesAssumption DEF IInv, WriterInv, Critical, DaemonTypeOK, ControllerTypeOK
<1> QED BY <1>1, <1>2

\* An exception, wherever it comes from.
LEMMA RaiseIInv ==
    ASSUME IInv, NEW t \in Threads, Raise(t), pc[t] \in {"open", "begin", "entries"},
           UNCHANGED <<cfgvars, boot, cut>>
    PROVE  IInv'
<1> USE DEF IInv, Raise, Return, Goto
<1>1. DaemonTypeOK'
    BY DEF DaemonTypeOK, ApiTypeOK, ControllerTypeOK, ConfigTypeOK, Codes, cfgvars, LockAfterRaise
<1>2. LockInv'
    BY NamesAssumption DEF LockInv, Critical, DaemonTypeOK, ApiTypeOK, LockAfterRaise
<1>3. WriterInv'
    <2>1. \A u \in Threads : writer' = u => pc'[u] = "entries"
        BY NamesAssumption DEF WriterInv, DaemonTypeOK, ApiTypeOK
    <2>2. writer' = Leaked => glock' = Leaked
        <3>1. CASE writer = t
            BY <3>1, OneEditor DEF WriterInv, Critical, LockAfterRaise
        <3>2. CASE writer # t
            BY <3>2, NamesAssumption DEF WriterInv, LockAfterRaise
        <3> QED BY <3>1, <3>2
    <2> QED BY <2>1, <2>2 DEF WriterInv
<1>4. OpInv'
    BY DEF OpInv, DaemonTypeOK, ApiTypeOK
<1>5. WorkInv'
    <2> SUFFICES ASSUME NEW u \in Threads, pc'[u] = "entries"
                 PROVE  /\ (left[u] \subseteq AllEntries(u))'
                        /\ (writer # u => left[u] = AllEntries(u))'
                        /\ (writer = u => work \in HalfWay(u))'
        BY DEF WorkInv
    <2>1. u # t /\ pc[u] = "entries" /\ left'[u] = left[u]
        BY DEF DaemonTypeOK, ApiTypeOK, ControllerTypeOK
    <2>2. writer' = u <=> writer = u
        BY <2>1, NamesAssumption
    <2> QED BY <2>1, <2>2 DEF WorkInv, AllEntries, Done, HalfWay
<1> QED BY <1>1, <1>2, <1>3, <1>4, <1>5 DEF BootInv

LEMMA OpenIInv ==
    ASSUME IInv, NEW t \in Threads, OpenTable(t) \/ List(t), UNCHANGED <<cfgvars, boot, cut>>
    PROVE  IInv'
<1> USE DEF IInv, OpenTable, List, Return, Goto
<1>1. DaemonTypeOK'
    BY DEF DaemonTypeOK, ApiTypeOK, ControllerTypeOK, ConfigTypeOK, Codes, tablevars, cfgvars
<1>2. LockInv' /\ WriterInv' /\ WorkInv'
    <2>1. pc' = [pc EXCEPT ![t] = "send"] \/ pc' = [pc EXCEPT ![t] = "lock"]
        OBVIOUS
    <2> QED BY <2>1, OutsideStep DEF Critical, tablevars
<1>3. OpInv'
    BY DEF OpInv, DaemonTypeOK, ApiTypeOK
<1> QED BY <1>1, <1>2, <1>3 DEF BootInv, tablevars

LEMMA LockIInv ==
    ASSUME IInv, NEW t \in Threads, LockTable(t), UNCHANGED <<cfgvars, boot, cut>>
    PROVE  IInv'
<1> USE DEF IInv, LockTable, MayEdit, Goto
<1>1. DaemonTypeOK'
    BY DEF DaemonTypeOK, ApiTypeOK, ControllerTypeOK, ConfigTypeOK, cfgvars
<1>2. LockInv'
    BY NamesAssumption DEF LockInv, Critical, DaemonTypeOK, ApiTypeOK
<1>3. WriterInv' /\ OpInv'
    BY NamesAssumption DEF WriterInv, OpInv, DaemonTypeOK, ApiTypeOK
<1>4. WorkInv'
    BY DEF WorkInv, AllEntries, Done, HalfWay, DaemonTypeOK, ApiTypeOK
<1> QED BY <1>1, <1>2, <1>3, <1>4 DEF BootInv

LEMMA BeginIInv ==
    ASSUME IInv, NEW t \in Threads, Begin(t), UNCHANGED <<cfgvars, boot, cut>>
    PROVE  IInv'
<1> USE DEF IInv, Begin, Goto
<1>0. writer # t /\ req[t] \in Request /\ req[t].named \subseteq Endpoints
    BY RequestFields DEF WriterInv, OpInv
<1>1. DaemonTypeOK'
    BY <1>0 DEF DaemonTypeOK, ApiTypeOK, ControllerTypeOK, ConfigTypeOK, cfgvars
<1>2. LockInv'
    BY DEF LockInv, Critical, DaemonTypeOK, ApiTypeOK
<1>3. WriterInv' /\ OpInv'
    BY DEF WriterInv, OpInv, DaemonTypeOK, ApiTypeOK
<1>4. WorkInv'
    <2> SUFFICES ASSUME NEW u \in Threads, pc'[u] = "entries"
                 PROVE  /\ (left[u] \subseteq AllEntries(u))'
                        /\ (writer # u => left[u] = AllEntries(u))'
                        /\ (writer = u => work \in HalfWay(u))'
        BY DEF WorkInv
    <2>1. CASE u = t
        BY <1>0, <2>1 DEF AllEntries, DaemonTypeOK, ControllerTypeOK
    <2>2. CASE u # t
        <3>1. pc[u] = "entries" /\ left'[u] = left[u]
            BY <2>2 DEF DaemonTypeOK, ApiTypeOK, ControllerTypeOK
        <3> QED BY <3>1 DEF WorkInv, AllEntries, Done, HalfWay
    <2> QED BY <2>1, <2>2
<1> QED BY <1>1, <1>2, <1>3, <1>4 DEF BootInv

LEMMA EndEditIInv ==
    ASSUME IInv, NEW t \in Threads, Wipe(t) \/ Commit(t) \/ UnlockTable(t),
           UNCHANGED <<cfgvars, boot, cut>>
    PROVE  IInv'
<1> USE DEF IInv, Wipe, Commit, UnlockTable, Return, Goto, LockAfterCommit
<1>0. /\ glock = t /\ writer \in {None, t}
      /\ \A u \in Threads : u # t => pc[u] \notin Critical
    BY OneEditor DEF Critical
<1>1. DaemonTypeOK'
    BY DEF DaemonTypeOK, ApiTypeOK, ControllerTypeOK, ConfigTypeOK, Codes, Seen, tablevars,
           cfgvars
<1>2. LockInv'
    BY <1>0, NamesAssumption DEF LockInv, Critical, DaemonTypeOK, ApiTypeOK, tablevars
<1>3. WriterInv'
    BY <1>0, NamesAssumption DEF WriterInv, DaemonTypeOK, ApiTypeOK, tablevars
<1>4. OpInv'
    BY DEF OpInv, DaemonTypeOK, ApiTypeOK
<1>5. WorkInv'
    BY <1>0 DEF WorkInv, Critical, DaemonTypeOK, ApiTypeOK
<1> QED BY <1>1, <1>2, <1>3, <1>4, <1>5 DEF BootInv, tablevars

\* Of the rows done so far, one entry more.
LEMMA EntryWork ==
    ASSUME IInv, NEW t \in Threads, NEW c \in Endpoints \cup {Bad}, c \in left[t],
           pc[t] = "entries",
           left' = [left EXCEPT ![t] = left[t] \ {c}],
           \/ c # Bad /\ work' = Edited(t, Seen(t), c)
           \/ /\ c = Bad /\ req[t].op = "del"
              /\ work' \in {Seen(t)} \cup {Seen(t) \ {d} : d \in Endpoints},
           UNCHANGED <<req, table>>
    PROVE  work' \in HalfWay(t)'
<1> USE DEF IInv
<1>1. /\ left[t] \subseteq AllEntries(t)
      /\ writer # t => left[t] = AllEntries(t)
      /\ writer = t => work \in HalfWay(t)
      /\ req[t].op \in {"add", "del"}
      /\ req[t].named \subseteq Endpoints
      /\ left'[t] = left[t] \ {c}
    BY RequestFields DEF WorkInv, OpInv, DaemonTypeOK, ControllerTypeOK
<1>2. Seen(t) \in HalfWay(t)
    <2>1. CASE writer = t
        BY <1>1, <2>1 DEF Seen
    <2>2. CASE writer # t
        <3>1. Done(t) = {} /\ Seen(t) = table
            BY <1>1, <2>2 DEF Done, AllEntries, Seen
        <3> QED BY <3>1 DEF HalfWay
    <2> QED BY <2>1, <2>2
<1>3. CASE c # Bad
    <2>1. c \in req[t].named /\ Done(t)' = Done(t) \cup {c}
        BY <1>1, <1>3 DEF Done, AllEntries
    <2>2. (Bad \in left[t])' <=> Bad \in left[t]
        BY <1>1, <1>3
    <2>3. CASE req[t].op = "add"
        BY <1>2, <1>3, <2>1, <2>3 DEF HalfWay, Edited
    <2>4. CASE req[t].op = "del"
        <3>1. work' = Seen(t) \ {c}
            BY <1>3, <2>4 DEF Edited
        <3>2. CASE Seen(t) = table \ Done(t)
            BY <2>1, <2>4, <3>1, <3>2 DEF HalfWay
        <3>3. CASE Seen(t) # table \ Done(t)
            <4>1. /\ req[t].fault = "address" /\ Bad \notin left[t]
                  /\ \E d \in Endpoints : Seen(t) = table \ (Done(t) \cup {d})
                BY <1>2, <2>4, <3>3 DEF HalfWay
            <4>2. PICK d \in Endpoints : Seen(t) = table \ (Done(t) \cup {d})
                BY <4>1
            <4>3. work' = table \ (Done(t)' \cup {d})
                BY <2>1, <3>1, <4>2
            <4> QED BY <2>2, <2>4, <4>1, <4>3 DEF HalfWay
        <3> QED BY <3>2, <3>3
    <2> QED BY <1>1, <2>3, <2>4
<1>4. CASE c = Bad
    <2>1. req[t].fault = "address" /\ Bad \notin req[t].named
        BY <1>1, <1>4, NamesAssumption DEF AllEntries
    <2>2. Done(t)' = Done(t) /\ Bad \notin left'[t]
        BY <1>1, <1>4, <2>1 DEF Done
    <2>3. Seen(t) = table \ Done(t) /\ req[t].op = "del"
        BY <1>2, <1>4 DEF HalfWay
    <2>4. CASE work' = Seen(t)
        BY <2>2, <2>3, <2>4 DEF HalfWay
    <2>5. CASE work' # Seen(t)
        <3>1. PICK d \in Endpoints : work' = Seen(t) \ {d}
            BY <1>4, <2>5
        <3>2. work' = table \ (Done(t)' \cup {d})
            BY <2>2, <2>3, <3>1
        <3> QED BY <2>1, <2>2, <2>3, <3>2 DEF HalfWay
    <2> QED BY <2>4, <2>5
<1> QED BY <1>3, <1>4

LEMMA EntryIInv ==
    ASSUME IInv, NEW t \in Threads,
           (\E c \in ValidEntries(t) : Entry(t, c)) \/ BadEntry(t),
           UNCHANGED <<cfgvars, boot, cut>>
    PROVE  IInv'
<1> USE DEF IInv
<1>1. /\ pc[t] = "entries"
      /\ UNCHANGED <<pc, req, rc, table, schema, glock, cfgvars, boot, cut>>
    BY DEF Entry, BadEntry
<1>2. /\ glock = t /\ writer \in {None, t}
      /\ \A u \in Threads : u # t => pc[u] \notin Critical
    BY <1>1, OneEditor DEF Critical
<1>3. PICK c \in Endpoints \cup {Bad} :
        /\ c \in left[t] /\ left' = [left EXCEPT ![t] = left[t] \ {c}]
        /\ \/ c # Bad /\ work' = Edited(t, Seen(t), c)
           \/ /\ c = Bad /\ req[t].op = "del"
              /\ work' \in {Seen(t)} \cup {Seen(t) \ {d} : d \in Endpoints}
    BY <1>2 DEF Entry, BadEntry, ValidEntries, Remaining, DaemonTypeOK, ControllerTypeOK
<1>4. writer' = t
    BY <1>2 DEF Entry, BadEntry
<1>5. work' \in HalfWay(t)'
    BY <1>1, <1>3, EntryWork
<1>6. work' \subseteq Endpoints
    <2>1. Seen(t) \subseteq Endpoints
        BY DEF Seen, DaemonTypeOK, ControllerTypeOK
    <2> QED BY <1>3, <2>1 DEF Edited
<1>7. DaemonTypeOK'
    BY <1>1, <1>3, <1>4, <1>6 DEF DaemonTypeOK, ApiTypeOK, ControllerTypeOK, ConfigTypeOK, cfgvars
<1>8. LockInv' /\ WriterInv' /\ OpInv'
    BY <1>1, <1>2, <1>4, NamesAssumption DEF LockInv, WriterInv, OpInv
<1>9. WorkInv'
    BY <1>1, <1>2, <1>3, <1>4, <1>5
       DEF WorkInv, AllEntries, Critical, DaemonTypeOK, ControllerTypeOK
<1> QED BY <1>1, <1>7, <1>8, <1>9 DEF BootInv

LEMMA NextIInv == IInv /\ [Next]_vars => IInv'
<1> SUFFICES ASSUME IInv, [Next]_vars PROVE IInv'
    OBVIOUS
<1>1. CASE Startup \/ Crash
    BY <1>1, StartupIInv
<1>2. ASSUME NEW t \in Threads, Client(t)
      PROVE  IInv'
    BY <1>2, ConnectionIInv DEF Client
<1>3. ASSUME NEW t \in Threads, Serve(t)
      PROVE  IInv'
    <2>1. CASE Connection(t) /\ UNCHANGED <<tablevars, cfgvars, boot, cut>>
        BY <2>1, ConnectionIInv
    <2>2. CASE ConfigOp(t) /\ UNCHANGED <<tablevars, boot, cut>>
        BY <2>2, ConfigIInv
    <2>3. CASE ControllerOp(t) /\ UNCHANGED <<cfgvars, boot, cut>>
        <3>1. CASE OpenTable(t) \/ List(t)
            BY <2>3, <3>1, OpenIInv
        <3>2. CASE LockTable(t) \/ Begin(t)
            BY <2>3, <3>2, LockIInv, BeginIInv
        <3>3. CASE Wipe(t) \/ Commit(t) \/ UnlockTable(t)
            BY <2>3, <3>3, EndEditIInv
        <3>4. CASE (\E c \in ValidEntries(t) : Entry(t, c)) \/ BadEntry(t)
            BY <2>3, <3>4, EntryIInv
        <3>5. CASE NoTable(t) \/ BadAddress(t)
            <4>1. Raise(t) /\ pc[t] \in {"open", "begin", "entries"}
                BY <3>5 DEF NoTable, BadAddress
            <4> QED BY <2>3, <4>1, RaiseIInv
        <3> QED BY <2>3, <3>1, <3>2, <3>3, <3>4, <3>5 DEF ControllerOp
    <2> QED BY <1>3, <2>1, <2>2, <2>3 DEF Serve
<1>4. ASSUME NEW t \in Threads, Fault(t)
      PROVE  IInv'
    BY <1>4, RaiseIInv DEF Fault, SQLiteFails
<1>5. CASE UNCHANGED vars
    <2> USE <1>5 DEF IInv, vars, apivars, tablevars, cfgvars
    <2>1. DaemonTypeOK' /\ BootInv' /\ LockInv' /\ WriterInv' /\ OpInv'
        BY DEF DaemonTypeOK, ApiTypeOK, ControllerTypeOK, ConfigTypeOK, BootInv, LockInv,
               WriterInv, OpInv
    <2>2. WorkInv'
        BY DEF WorkInv, AllEntries, Done, HalfWay
    <2> QED BY <2>1, <2>2
<1> QED BY <1>1, <1>2, <1>3, <1>4, <1>5 DEF Next

(***************************************************************************)
(* The theorems.                                                           *)
(***************************************************************************)
\* Every state of the daemon has all of the above, whatever edits run at once,
\* raise or die.
THEOREM Invariance == Spec => []IInv
<1> QED BY InitIInv, NextIInv, PTL DEF Spec

\* The daemon keeps its types: no row of the controller table, no entry of an
\* open transaction is anything but a controller.
THEOREM TypeCorrect == Spec => []DaemonTypeOK
<1>1. IInv => DaemonTypeOK
    BY DEF IInv
<1> QED BY <1>1, Invariance, PTL

\* GlobalLock is with a request at work, or lost, and an editor never finds the
\* write lock of the database taken.
THEOREM NeverBusy == Spec => []EditorsNeverBusy
<1>1. IInv => EditorsNeverBusy
    <2> SUFFICES ASSUME IInv PROVE EditorsNeverBusy
        OBVIOUS
    <2>1. \A t \in Threads : glock = t => pc[t] \in {"begin", "entries", "unlock"}
        BY DEF IInv, LockInv, Critical
    <2>2. \A t \in Threads : pc[t] = "entries" => writer \in {None, t}
        BY OneEditor DEF Critical
    <2> QED BY <2>1, <2>2 DEF EditorsNeverBusy
<1> QED BY <1>1, Invariance, PTL

\* A server that is up has its controller table, but for a death while the
\* database was being created.
THEOREM TableServed == Spec => []ServesWithTable
<1>1. IInv => ServesWithTable
    BY DEF IInv, BootInv, ServesWithTable
<1> QED BY <1>1, Invariance, PTL

(***************************************************************************)
(* Every step of the daemon is a step of TableOps, or none.                   *)
(***************************************************************************)
LEMMA PhaseType ==
    ASSUME NEW t \in Threads
    PROVE  Phase[t] = IF req[t] = NoRequest THEN "idle"
                      ELSE IF pc[t] = "send" /\ rc[t] # 0 THEN "failed"
                      ELSE IF pc[t] \in {"unlock", "send"} THEN "applied"
                      ELSE "called"
BY DEF Phase

\* A step that changes one thread changes the phase of that thread only.
LEMMA OtherPhases ==
    ASSUME NEW t \in Threads, NEW p,
           \A u \in Threads : u # t =>
               req'[u] = req[u] /\ pc'[u] = pc[u] /\ rc'[u] = rc[u],
           Phase'[t] = p
    PROVE  Phase' = [Phase EXCEPT ![t] = p]
BY DEF Phase

LEMMA InitMaps == Init => Promised!OpsInit
BY DEF Init, ApiInit, ControllerInit, Promised!OpsInit, Phase

LEMMA StartupMaps ==
    IInv /\ (Startup \/ Crash) => [Promised!OpsNext]_(Promised!opsvars)
<1> SUFFICES ASSUME IInv, Startup \/ Crash
             PROVE  [Promised!OpsNext]_(Promised!opsvars)
    OBVIOUS
<1>1. CASE Startup
    BY <1>1 DEF Startup, LoadConfig, FindFile, CreateFile, CreateTable, apivars, tablevars,
                Promised!opsvars, Phase
<1>2. CASE Crash
    <2>1. Phase' = [t \in Threads |-> "idle"]
        BY <1>2 DEF Crash, Phase
    <2>2. Promised!Killed
        BY <1>2, <2>1 DEF Crash, Promised!Killed
    <2> QED BY <2>2 DEF Promised!OpsNext
<1> QED BY <1>1, <1>2

LEMMA ConnectionMaps ==
    ASSUME IInv, NEW t \in Threads, Accept(t) \/ Connection(t), UNCHANGED tablevars
    PROVE  [Promised!OpsNext]_(Promised!opsvars)
<1> USE DEF IInv, tablevars
<1>1. CASE Accept(t) \/ Hangup(t)
    <2>1. req' = req /\ req[t] = NoRequest
        BY <1>1 DEF Accept, Hangup, Close, OpInv, DaemonTypeOK, ApiTypeOK
    <2>2. Phase' = Phase
        BY <1>1, <2>1 DEF Phase, Accept, Hangup, Close, Goto, DaemonTypeOK, ApiTypeOK
    <2> QED BY <2>1, <2>2 DEF Promised!opsvars
<1>2. CASE Refuse(t)
    <2>1. req' = req /\ req[t] = NoRequest
        BY <1>2 DEF Refuse, OpInv
    <2>2. Phase' = Phase
        BY <1>2, <2>1 DEF Phase, Refuse, Return, Goto, DaemonTypeOK, ApiTypeOK
    <2> QED BY <2>1, <2>2 DEF Promised!opsvars
<1>3. CASE Dispatch(t)
    <2>1. PICK r \in Request : req' = [req EXCEPT ![t] = r] /\ Goto(t, EntryOf(r.op))
        BY <1>3 DEF Dispatch
    <2>2. r # NoRequest /\ EntryOf(r.op) \notin {"send", "unlock"}
        BY RequestFields DEF EntryOf, TableOp
    <2>3. Phase[t] = "idle"
        BY <1>3 DEF Dispatch, OpInv, Phase
    <2>4. Phase'[t] = "called"
        BY <2>1, <2>2 DEF Phase, Goto, DaemonTypeOK, ApiTypeOK
    <2>5. Phase' = [Phase EXCEPT ![t] = "called"]
        BY <1>3, <2>1, <2>4, OtherPhases DEF Dispatch, Goto, DaemonTypeOK, ApiTypeOK
    <2>6. Promised!Called(t)
        BY <2>1, <2>3, <2>5 DEF Promised!Called, Promised!To
    <2> QED BY <2>6 DEF Promised!OpsNext
<1>4. CASE Version(t)
    <2>1. req[t] \in Request /\ req[t] # NoRequest /\ req[t].op \notin {"add", "del"}
        BY <1>4, RequestFields DEF Version, OpInv
    <2>2. Phase[t] = "called" /\ Phase'[t] = "applied"
        BY <1>4, <2>1 DEF Version, Return, Goto, Phase, DaemonTypeOK, ApiTypeOK
    <2>3. Phase' = [Phase EXCEPT ![t] = "applied"]
        BY <1>4, <2>2, OtherPhases DEF Version, Return, Goto, DaemonTypeOK, ApiTypeOK
    <2>4. Promised!Applied(t)
        BY <1>4, <2>1, <2>2, <2>3
           DEF Version, Promised!Applied, Promised!Effects, Promised!To
    <2> QED BY <2>4 DEF Promised!OpsNext
<1>5. CASE Send(t)
    <2>1. req' = [req EXCEPT ![t] = NoRequest] /\ Phase'[t] = "idle"
        BY <1>5 DEF Send, Close, Phase, DaemonTypeOK, ApiTypeOK
    <2>2. Phase' = [Phase EXCEPT ![t] = "idle"]
        BY <1>5, <2>1, OtherPhases DEF Send, Close, Goto, DaemonTypeOK, ApiTypeOK
    <2>3. CASE req[t] = NoRequest
        <3>1. req' = req /\ Phase' = Phase
            BY <2>1, <2>2, <2>3 DEF Phase, DaemonTypeOK, ApiTypeOK
        <3> QED BY <3>1 DEF Promised!opsvars
    <2>4. CASE req[t] # NoRequest
        <3>1. Phase[t] \in {"applied", "failed"}
            BY <1>5, <2>4 DEF Send, Phase
        <3>2. Promised!Ended(t)
            BY <2>1, <2>2, <3>1 DEF Promised!Ended, Promised!To
        <3> QED BY <3>2 DEF Promised!OpsNext
    <2> QED BY <2>3, <2>4
<1> QED BY <1>1, <1>2, <1>3, <1>4, <1>5 DEF Connection

\* An exception or a rejected argument: the request has no effect.
LEMMA RaiseMaps ==
    ASSUME IInv, NEW t \in Threads, pc[t] \in {"open", "begin", "entries"},
           Return(t, -1) \/ Return(t, -2), UNCHANGED <<req, table>>
    PROVE  [Promised!OpsNext]_(Promised!opsvars)
<1>1. req[t] # NoRequest
    BY RequestFields DEF IInv, OpInv
<1>2. Phase[t] = "called" /\ Phase'[t] = "failed"
    BY <1>1 DEF Return, Goto, Phase, IInv, DaemonTypeOK, ApiTypeOK
<1>3. Phase' = [Phase EXCEPT ![t] = "failed"]
    BY <1>2, OtherPhases DEF Return, Goto, IInv, DaemonTypeOK, ApiTypeOK
<1>4. Promised!Failed(t)
    BY <1>2, <1>3 DEF Promised!Failed, Promised!To
<1> QED BY <1>4 DEF Promised!OpsNext

\* The step that makes the request take effect.
LEMMA EffectMaps ==
    ASSUME IInv, NEW t \in Threads,
           pc[t] \notin {"idle", "read", "send", "unlock"},
           Return(t, 0) \/ (Goto(t, "unlock") /\ rc' = rc), req' = req,
           table' \in Promised!Effects(req[t], table)
    PROVE  [Promised!OpsNext]_(Promised!opsvars)
<1>1. req[t] # NoRequest
    BY RequestFields DEF IInv, OpInv, DaemonTypeOK, ApiTypeOK
<1>2. Phase[t] = "called" /\ Phase'[t] = "applied"
    BY <1>1 DEF Return, Goto, Phase, IInv, DaemonTypeOK, ApiTypeOK
<1>3. Phase' = [Phase EXCEPT ![t] = "applied"]
    BY <1>2, OtherPhases DEF Return, Goto, IInv, DaemonTypeOK, ApiTypeOK
<1>4. Promised!Applied(t)
    BY <1>2, <1>3 DEF Promised!Applied, Promised!To
<1> QED BY <1>4 DEF Promised!OpsNext

\* A step inside an operation that nobody sees.
LEMMA InnerMaps ==
    ASSUME IInv, NEW t \in Threads, NEW l,
           pc[t] \notin {"send", "unlock"}, l \notin {"send", "unlock"},
           Goto(t, l), UNCHANGED <<req, rc, table>>
    PROVE  [Promised!OpsNext]_(Promised!opsvars)
<1>1. Phase' = Phase
    BY DEF Goto, Phase, IInv, DaemonTypeOK, ApiTypeOK
<1> QED BY <1>1 DEF Promised!opsvars

\* The transaction that is committed is all of the request.
LEMMA CommitMaps ==
    ASSUME IInv, NEW t \in Threads, Commit(t)
    PROVE  [Promised!OpsNext]_(Promised!opsvars)
<1> USE DEF IInv, Commit
<1>1. /\ req[t].op \in {"add", "del"}
      /\ left[t] \subseteq AllEntries(t)
      /\ writer # t => left[t] = AllEntries(t)
      /\ writer = t => work \in HalfWay(t)
    BY DEF WorkInv, OpInv
<1>2. table' \in Promised!Effects(req[t], table)
    <2>1. CASE writer = t
        <3>1. Done(t) = req[t].named /\ Bad \notin left[t]
            BY DEF Done
        <3>2. table' \in HalfWay(t)
            BY <1>1, <2>1 DEF Seen
        <3> QED BY <1>1, <3>1, <3>2 DEF HalfWay, Promised!Effects
    <2>2. CASE writer # t
        <3>1. table' = table /\ req[t].named = {} /\ req[t].fault # "address"
            BY <1>1, <2>2 DEF Seen, AllEntries
        <3> QED BY <1>1, <3>1 DEF Promised!Effects
    <2> QED BY <2>1, <2>2
<1> QED BY <1>2, EffectMaps

LEMMA ControllerMaps ==
    ASSUME IInv, NEW t \in Threads, ControllerOp(t) \/ SQLiteFails(t)
    PROVE  [Promised!OpsNext]_(Promised!opsvars)
<1>1. CASE OpenTable(t)
    <2>1. CASE Return(t, -1)
        BY <1>1, <2>1, RaiseMaps DEF OpenTable, tablevars
    <2>2. CASE ~Return(t, -1)
        BY <1>1, <2>2, InnerMaps DEF OpenTable, tablevars
    <2> QED BY <2>1, <2>2
<1>2. CASE List(t) \/ Wipe(t)
    <2>1. Promised!Effects(req[t], table) = {table}
        BY <1>2 DEF List, Wipe, Promised!Effects
    <2> QED BY <1>2, <2>1, EffectMaps DEF List, Wipe, tablevars
<1>3. CASE LockTable(t) \/ Begin(t)
    BY <1>3, InnerMaps DEF LockTable, Begin
<1>4. CASE (\E c \in ValidEntries(t) : Entry(t, c)) \/ BadEntry(t)
    BY <1>4 DEF Entry, BadEntry, Promised!opsvars, Phase
<1>5. CASE Commit(t)
    BY <1>5, CommitMaps
<1>6. CASE UnlockTable(t)
    <2>1. Phase' = Phase
        BY <1>6 DEF UnlockTable, Return, Goto, Phase, IInv, DaemonTypeOK, ApiTypeOK
    <2> QED BY <1>6, <2>1 DEF UnlockTable, Promised!opsvars
<1>7. CASE NoTable(t) \/ BadAddress(t) \/ SQLiteFails(t)
    BY <1>7, RaiseMaps DEF NoTable, BadAddress, SQLiteFails, Raise
<1> QED BY <1>1, <1>2, <1>3, <1>4, <1>5, <1>6, <1>7 DEF ControllerOp

LEMMA ConfigMaps ==
    ASSUME IInv, NEW t \in Threads, ConfigOp(t), UNCHANGED tablevars
    PROVE  [Promised!OpsNext]_(Promised!opsvars)
<1>1. CASE GetConfig(t) \/ SetConfig(t)
    BY <1>1, InnerMaps DEF GetConfig, SetConfig, tablevars
<1>2. CASE LookupConfig(t)
    <2>1. Promised!Effects(req[t], table) = {table}
        BY <1>2 DEF LookupConfig, IInv, OpInv, Promised!Effects
    <2> QED BY <1>2, <2>1, EffectMaps DEF LookupConfig, tablevars
<1> QED BY <1>1, <1>2 DEF ConfigOp

\* The daemon implements TableOps: each edit of the controller table is whole
\* and at one moment, or is not at all and answered by a failure.
THEOREM OpsImplemented == Spec => ImplementsTableOps
<1>1. Init => Promised!OpsInit
    BY InitMaps
<1>2. IInv /\ [Next]_vars => [Promised!OpsNext]_(Promised!opsvars)
    <2> SUFFICES ASSUME IInv, [Next]_vars PROVE [Promised!OpsNext]_(Promised!opsvars)
        OBVIOUS
    <2>1. CASE Startup \/ Crash
        BY <2>1, StartupMaps
    <2>2. ASSUME NEW t \in Threads, Client(t) \/ Serve(t) \/ Fault(t)
          PROVE  [Promised!OpsNext]_(Promised!opsvars)
        BY <2>2, ConnectionMaps, ControllerMaps, ConfigMaps DEF Client, Serve, Fault
    <2>3. CASE UNCHANGED vars
        BY <2>3 DEF vars, apivars, tablevars, Promised!opsvars, Phase
    <2> QED BY <2>1, <2>2, <2>3 DEF Next
<1> QED BY <1>1, <1>2, Invariance, PTL DEF Spec, ImplementsTableOps, Promised!OpsSpec

(***************************************************************************)
(* Locks that are lost stay lost.                                           *)
(***************************************************************************)
\* Lock_Config is shared among those that look up, or held by one that sets.
ConfigInv ==
    /\ \A t \in Threads : pc[t] = "lookup" => t \in cfgreaders
    /\ cfgowner # None => cfgreaders = {}

LEMMA ConfigStep == IInv /\ ConfigInv /\ [Next]_vars => ConfigInv'
<1> SUFFICES ASSUME IInv, ConfigInv, [Next]_vars PROVE ConfigInv'
    OBVIOUS
<1> USE DEF IInv, ConfigInv, DaemonTypeOK, ApiTypeOK, Goto, Return, Close
<1>1. CASE Startup \/ Crash
    BY <1>1 DEF Startup, LoadConfig, FindFile, CreateFile, CreateTable, Crash, apivars, cfgvars
<1>2. ASSUME NEW t \in Threads, Client(t)
      PROVE  ConfigInv'
    BY <1>2 DEF Client, Accept, cfgvars
<1>3. ASSUME NEW t \in Threads, Connection(t), UNCHANGED cfgvars
      PROVE  ConfigInv'
    <2>1. CASE Dispatch(t)
        <3>1. PICK r \in Request : pc' = [pc EXCEPT ![t] = EntryOf(r.op)]
            BY <2>1 DEF Dispatch
        <3>2. EntryOf(r.op) # "lookup"
            BY RequestFields DEF EntryOf, TableOp
        <3> QED BY <1>3, <3>1, <3>2 DEF cfgvars
    <2> QED BY <1>3, <2>1 DEF Connection, Hangup, Refuse, Version, Send, cfgvars
<1>4. ASSUME NEW t \in Threads, ControllerOp(t) \/ SQLiteFails(t), UNCHANGED cfgvars
      PROVE  ConfigInv'
    <2>1. pc' = pc \/ \E l \in {"send", "lock", "begin", "entries", "unlock"} :
                          pc' = [pc EXCEPT ![t] = l]
        BY <1>4 DEF ControllerOp, OpenTable, List, LockTable, Begin, Wipe, Entry, BadEntry,
            Commit, UnlockTable, NoTable, BadAddress, SQLiteFails, Raise
    <2> QED BY <1>4, <2>1 DEF cfgvars
<1>5. ASSUME NEW t \in Threads, ConfigOp(t)
      PROVE  ConfigInv'
    BY <1>5 DEF ConfigOp, GetConfig, LookupConfig, SetConfig
<1>6. CASE UNCHANGED vars
    BY <1>6 DEF vars, apivars, cfgvars
<1> QED BY <1>1, <1>2, <1>3, <1>4, <1>5, <1>6 DEF Next, Serve, Fault

\* While GlobalLock is lost nobody is at work on the table.
LEMMA LeakedStep ==
    ASSUME IInv, Next, glock = Leaked
    PROVE  boot' = "off" \/ (glock' = Leaked /\ table' = table)
<1>1. \A t \in Threads : pc[t] \notin Critical
    BY NamesAssumption DEF IInv, LockInv
<1>2. CASE Startup \/ Crash
    BY <1>2 DEF Startup, LoadConfig, FindFile, CreateFile, CreateTable, Crash, tablevars
<1>3. ASSUME NEW t \in Threads, ControllerOp(t) \/ SQLiteFails(t)
      PROVE  glock' = Leaked /\ table' = table
    BY <1>1, <1>3, NamesAssumption DEF Critical, ControllerOp, OpenTable, List, LockTable, MayEdit,
        Begin, Wipe, Entry, BadEntry, Commit, UnlockTable, NoTable, BadAddress, SQLiteFails,
        Raise, LockAfterRaise, tablevars
<1> QED BY <1>2, <1>3 DEF Next, Client, Serve, Fault, tablevars

\* While a thread holds Lock_Config nobody gets it, and nobody is there to return it.
LEMMA OwnedStep ==
    ASSUME ConfigInv, Next, cfgowner # None
    PROVE  boot' = "off" \/ (cfgowner' = cfgowner /\ cfgreaders' = cfgreaders)
BY DEF ConfigInv, Next, Startup, LoadConfig, FindFile, CreateFile, CreateTable, Crash, Client,
    Serve, Fault, ConfigOp, GetConfig, LookupConfig, SetConfig, cfgvars

\* A lock that an exception has lost, or that its owner waits for itself, is not to
\* be had again before the process ends, and as long the table is not edited
\* (controller.cpp, the catch block; Config.cpp, Save).
THEOREM LostForGood == Spec => LocksStayLost
<1>1. Init => ConfigInv
    BY DEF Init, ApiInit, ConfigInit, ConfigInv
<1>2. IInv /\ ConfigInv /\ [Next]_vars =>
          [/\ glock = Leaked => boot' = "off" \/ (glock' = Leaked /\ table' = table)
           /\ cfgowner # None =>
                  boot' = "off" \/ (cfgowner' = cfgowner /\ cfgreaders' = cfgreaders)]_vars
    BY LeakedStep, OwnedStep
<1> QED BY <1>1, <1>2, Invariance, ConfigStep, PTL DEF Spec, LocksStayLost

(***************************************************************************)
(* A request comes nearer its answer with each of its steps.                 *)
(***************************************************************************)
LEMMA FewEntries ==
    ASSUME NEW s \in SUBSET (Endpoints \cup {Bad})
    PROVE  /\ IsFiniteSet(s) /\ Cardinality(s) \in Nat
           /\ Cardinality(Endpoints) \in Nat
           /\ Cardinality(s) <= Cardinality(Endpoints) + 1
<1>1. /\ IsFiniteSet(Endpoints \cup {Bad})
      /\ Cardinality(Endpoints \cup {Bad}) = Cardinality(Endpoints) + 1
    BY EndpointsAssumption, NamesAssumption, FS_AddElement
<1> QED BY <1>1, EndpointsAssumption, FS_Subset, FS_CardinalityType

LEMMA StepsTyped == IInv => \A t \in Threads : StepsLeft(t) \in Nat
<1> SUFFICES ASSUME IInv, NEW t \in Threads PROVE StepsLeft(t) \in Nat
    OBVIOUS
<1> DEFINE e == Cardinality(Endpoints)
           n == Cardinality(left[t])
<1>1. e \in Nat /\ n \in Nat
    BY FewEntries DEF IInv, DaemonTypeOK, ControllerTypeOK
<1>2. StepsLeft(t) = StepsAfter[pc[t]]
          + IF pc[t] = "entries" THEN n
            ELSE IF pc[t] \in {"read", "open", "lock", "begin"} THEN e + 1 ELSE 0
    BY DEF StepsLeft
<1>3. StepsAfter[pc[t]] \in Nat
    BY DEF StepsAfter, IInv, DaemonTypeOK, ApiTypeOK
<1> HIDE DEF e, n
<1> QED BY <1>1, <1>2, <1>3

LEMMA StepsTypedNext == IInv' => (\A t \in Threads : StepsLeft(t) \in Nat)'
BY StepsTyped, PTL

\* A step that leaves a thread alone leaves it as far from its answer.
LEMMA SameSteps ==
    ASSUME NEW t \in Threads, pc'[t] = pc[t], left'[t] = left[t]
    PROVE  StepsLeft(t)' = StepsLeft(t)
BY DEF StepsLeft

\* The ways from one place to the next.
Onward(t) ==
    \/ pc[t] = "read" /\ pc'[t] \in {"idle", "send", "open", "get", "set", "version"}
    \/ pc[t] = "send" /\ pc'[t] = "idle"
    \/ pc[t] \in {"version", "open", "begin", "entries", "unlock", "lookup"} /\ pc'[t] = "send"
    \/ pc[t] = "open" /\ pc'[t] = "lock"
    \/ pc[t] = "lock" /\ pc'[t] = "begin"
    \/ pc[t] = "begin" /\ pc'[t] \in {"entries", "unlock"}
    \/ pc[t] = "entries" /\ pc'[t] = "unlock"
    \/ pc[t] = "get" /\ pc'[t] = "lookup"
    \/ pc[t] = "set" /\ pc'[t] = "resave"

LEMMA OnwardAdvances ==
    ASSUME IInv, IInv', NEW t \in Threads, Onward(t)
    PROVE  StepsLeft(t)' < StepsLeft(t)
<1> DEFINE e == Cardinality(Endpoints)
           n == Cardinality(left[t])
           m == Cardinality(left'[t])
<1>1. e \in Nat /\ n \in Nat /\ m \in Nat /\ m <= e + 1
    <2>1. e \in Nat /\ n \in Nat
        BY FewEntries DEF IInv, DaemonTypeOK, ControllerTypeOK
    <2>2. m \in Nat /\ m <= e + 1
        BY FewEntries DEF IInv, DaemonTypeOK, ControllerTypeOK
    <2> QED BY <2>1, <2>2
<1>2. StepsLeft(t) = StepsAfter[pc[t]]
          + IF pc[t] = "entries" THEN n
            ELSE IF pc[t] \in {"read", "open", "lock", "begin"} THEN e + 1 ELSE 0
    BY DEF StepsLeft
<1>3. StepsLeft(t)' = StepsAfter[pc'[t]]
          + IF pc'[t] = "entries" THEN m
            ELSE IF pc'[t] \in {"read", "open", "lock", "begin"} THEN e + 1 ELSE 0
    BY DEF StepsLeft, StepsAfter
<1> HIDE DEF e, n, m
<1> QED BY <1>1, <1>2, <1>3 DEF Onward, StepsAfter

LEMMA EntryAdvances ==
    ASSUME IInv, NEW t \in Threads, NEW c \in left[t], pc[t] = "entries", pc' = pc,
           left' = [left EXCEPT ![t] = left[t] \ {c}]
    PROVE  StepsLeft(t)' < StepsLeft(t)
<1> DEFINE n == Cardinality(left[t])
           m == Cardinality(left[t] \ {c})
<1>1. n \in Nat /\ m = n - 1
    <2>1. IsFiniteSet(left[t]) /\ n \in Nat
        BY FewEntries DEF IInv, DaemonTypeOK, ControllerTypeOK
    <2> QED BY <2>1, FS_RemoveElement
<1>2. StepsLeft(t) = 3 + n
    BY DEF StepsLeft, StepsAfter
<1>3. StepsLeft(t)' = 3 + m
    <2>1. left'[t] = left[t] \ {c} /\ pc'[t] = "entries"
        BY DEF IInv, DaemonTypeOK, ControllerTypeOK
    <2> QED BY <2>1 DEF StepsLeft, StepsAfter
<1> HIDE DEF n, m
<1> QED BY <1>1, <1>2, <1>3

LEMMA ServedAdvances ==
    ASSUME IInv, IInv', NEW t \in Threads, Serve(t) \/ Fault(t)
    PROVE  /\ StepsLeft(t)' < StepsLeft(t)
           /\ \A u \in Threads : u # t => pc'[u] = pc[u] /\ left'[u] = left[u]
<1> USE DEF IInv, DaemonTypeOK, ApiTypeOK, ControllerTypeOK
<1>1. CASE (\E c \in ValidEntries(t) : Entry(t, c)) \/ BadEntry(t)
    <2>1. PICK c \in left[t] : pc[t] = "entries" /\ pc' = pc
              /\ left' = [left EXCEPT ![t] = left[t] \ {c}]
        BY <1>1 DEF Entry, BadEntry, ValidEntries, Remaining
    <2>2. StepsLeft(t)' < StepsLeft(t)
        BY <2>1, EntryAdvances
    <2> QED BY <2>1, <2>2
<1>2. CASE Connection(t) /\ UNCHANGED tablevars
    <2>1. CASE Dispatch(t)
        <3>1. PICK r \in Request : pc' = [pc EXCEPT ![t] = EntryOf(r.op)] /\ pc[t] = "read"
            BY <2>1 DEF Dispatch, Goto
        <3>2. EntryOf(r.op) \in {"open", "get", "set", "version"}
            BY RequestFields DEF EntryOf, TableOp
        <3>3. Onward(t)
            BY <3>1, <3>2 DEF Onward
        <3> QED BY <1>2, <3>1, <3>3, OnwardAdvances DEF tablevars
    <2>2. CASE Hangup(t) \/ Refuse(t) \/ Version(t) \/ Send(t)
        <3>1. Onward(t)
            BY <2>2 DEF Onward, Hangup, Refuse, Version, Send, Close, Return, Goto
        <3> QED BY <1>2, <2>2, <3>1, OnwardAdvances
            DEF tablevars, Hangup, Refuse, Version, Send, Close, Return, Goto
    <2> QED BY <1>2, <2>1, <2>2 DEF Connection
<1>3. CASE ConfigOp(t) /\ UNCHANGED tablevars
    <2>1. Onward(t)
        BY <1>3 DEF Onward, ConfigOp, GetConfig, LookupConfig, SetConfig, Return, Goto
    <2> QED BY <1>3, <2>1, OnwardAdvances
        DEF tablevars, ConfigOp, GetConfig, LookupConfig, SetConfig, Return, Goto
<1>4. CASE \/ OpenTable(t) \/ List(t) \/ LockTable(t) \/ Begin(t) \/ Wipe(t) \/ Commit(t)
           \/ UnlockTable(t) \/ NoTable(t) \/ BadAddress(t) \/ SQLiteFails(t)
    <2>1. Onward(t)
        BY <1>4 DEF Onward, OpenTable, List, LockTable, Begin, Wipe, Commit, UnlockTable,
            NoTable, BadAddress, SQLiteFails, Raise, Return, Goto
    <2>2. \A u \in Threads : u # t => pc'[u] = pc[u] /\ left'[u] = left[u]
        BY <1>4 DEF OpenTable, List, LockTable, Begin, Wipe, Commit, UnlockTable,
            NoTable, BadAddress, SQLiteFails, Raise, Return, Goto, tablevars
    <2> QED BY <2>1, <2>2, OnwardAdvances
<1> QED BY <1>1, <1>2, <1>3, <1>4 DEF Serve, Fault, ControllerOp

\* What is left to do for every request, over any step of the daemon.
LEMMA RequestStep ==
    ASSUME IInv, IInv', Next, NEW t \in Threads
    PROVE  /\ Serve(t) \/ Fault(t) => StepsLeft(t)' < StepsLeft(t)
           /\ pc[t] # "idle" => StepsLeft(t)' <= StepsLeft(t)
<1>1. StepsLeft(t) \in Nat
    BY StepsTyped
<1>2. Serve(t) \/ Fault(t) => StepsLeft(t)' < StepsLeft(t)
    BY ServedAdvances
<1>3. CASE Startup
    <2>1. pc' = pc /\ left' = left
        BY <1>3 DEF Startup, LoadConfig, FindFile, CreateFile, CreateTable, apivars, tablevars
    <2>2. StepsLeft(t)' = StepsLeft(t)
        BY <2>1, SameSteps
    <2> QED BY <1>1, <1>2, <2>2
<1>4. CASE Crash
    <2>1. pc'[t] = "idle"
        BY <1>4 DEF Crash
    <2>2. StepsLeft(t)' = 0
        BY <2>1 DEF StepsLeft, StepsAfter
    <2> QED BY <1>1, <1>2, <2>2
<1>5. ASSUME NEW u \in Threads, Client(u)
      PROVE  pc[t] # "idle" => StepsLeft(t)' <= StepsLeft(t)
    <2> SUFFICES ASSUME pc[t] # "idle" PROVE StepsLeft(t)' <= StepsLeft(t)
        OBVIOUS
    <2>1. pc'[t] = pc[t] /\ left'[t] = left[t]
        BY <1>5 DEF Client, Accept, Goto, tablevars, IInv, DaemonTypeOK, ApiTypeOK
    <2>2. StepsLeft(t)' = StepsLeft(t)
        BY <2>1, SameSteps
    <2> QED BY <1>1, <2>2
<1>6. ASSUME NEW u \in Threads, Serve(u) \/ Fault(u)
      PROVE  StepsLeft(t)' <= StepsLeft(t)
    <2>1. CASE u = t
        <3>1. StepsLeft(t)' \in Nat
            BY StepsTypedNext
        <3>2. StepsLeft(t)' < StepsLeft(t)
            BY <1>6, <2>1, <1>2
        <3> QED BY <1>1, <3>1, <3>2
    <2>2. CASE u # t
        <3>1. StepsLeft(t)' = StepsLeft(t)
            BY <1>6, <2>2, ServedAdvances, SameSteps
        <3> QED BY <1>1, <3>1
    <2> QED BY <2>1, <2>2
<1> QED BY <1>2, <1>3, <1>4, <1>5, <1>6 DEF Next

\* A request that names n entries is answered after at most n + 7 steps of its own: no
\* entry is gone through twice, and no exception sends it back (controller.cpp, the
\* loops of add and del; API_UnixSocket.cpp, the thread of a connection).
THEOREM AdvancesAlways == Spec => RequestsAdvance
<1>1. IInv /\ IInv' /\ [Next]_vars =>
          [\A t \in Threads :
               /\ Serve(t) \/ Fault(t) => StepsLeft(t)' < StepsLeft(t)
               /\ pc[t] # "idle" => StepsLeft(t)' <= StepsLeft(t)]_vars
    BY RequestStep
<1> QED BY <1>1, Invariance, PTL DEF Spec, RequestsAdvance
=============================================================================
