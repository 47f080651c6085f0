------------------------------- MODULE Daemon -------------------------------
(***************************************************************************)
(* The daemon around its connection threads: main() (amsd.cpp) loads the       *)
(* configuration, creates the databases that are missing (Runtime/DataBase.cpp)*)
(* and starts the server; connection threads run operations "controller",      *)
(* "config" and "version"; the process may die at any moment, when what is      *)
(* committed and the files stay.                                            *)
(***************************************************************************)
EXTENDS ControllerTable, ConfigStore, FiniteSets

\* An endpoint is an address and a port.
ASSUME EndpointsAssumption == IsFiniteSet(Endpoints)

VARIABLES
    boot,       \* how far main() is: "off", "loaded" (Config::Load is through),
                \* "creating" (the database file is new), "up"
    cut         \* history: a process died while it was creating the database

vars == <<apivars, tablevars, cfgvars, boot, cut>>

DaemonTypeOK ==
    /\ ApiTypeOK /\ ControllerTypeOK /\ ConfigTypeOK
    /\ boot \in {"off", "loaded", "creating", "up"}
    /\ cut \in BOOLEAN

Init ==
    /\ ApiInit /\ ControllerInit /\ ConfigInit
    /\ boot = "off"
    /\ cut = FALSE

(***************************************************************************)
(* main()                                                                  *)
(***************************************************************************)
\* Config::Load(): the file is there, or the process ends.
LoadConfig ==
    /\ boot = "off"
    /\ boot' = "loaded"
    /\ UNCHANGED <<apivars, tablevars, cfgvars, cut>>

\* Bug: a file that is there is created anew.
BugFindsFile == schema = "absent"

FindsFile == schema # "absent"

\* Database::Init() opens the file; it does not look for the table in it.
FindFile ==
    /\ boot = "loaded"
    /\ FindsFile
    /\ boot' = "up"
    /\ UNCHANGED <<apivars, tablevars, cfgvars, cut>>

\* There is no file: SQLite makes one, with the first pragma.
CreateFile ==
    /\ boot = "loaded"
    /\ ~FindsFile
    /\ schema' = "empty"
    /\ boot' = "creating"
    /\ UNCHANGED <<apivars, table, glock, writer, work, left, cfgvars, cut>>

\* CREATE TABLE; then the services start.
CreateTable ==
    /\ boot = "creating"
    /\ schema' = "ready"
    /\ boot' = "up"
    /\ UNCHANGED <<apivars, table, glock, writer, work, left, cfgvars, cut>>

\* The process dies: transactions roll back, connections and locks are gone,
\* ConfigList is read anew. One way to die is Config::Save(), whose second
\* lock() may throw where nobody catches.
Crash ==
    /\ boot # "off"
    /\ boot' = "off"
    /\ cut' = (cut \/ boot = "creating")
    /\ pc' = [t \in Threads |-> "idle"]
    /\ req' = [t \in Threads |-> NoRequest]
    /\ rc' = [t \in Threads |-> 0]
    /\ glock' = None /\ writer' = None /\ work' = {}
    /\ left' = [t \in Threads |-> {}]
    /\ cfgowner' = None /\ cfgreaders' = {} /\ emptykey' = FALSE
    /\ UNCHANGED <<table, schema>>

(***************************************************************************)
(* The specification.                                                      *)
(***************************************************************************)
Startup == LoadConfig \/ FindFile \/ CreateFile \/ CreateTable

Client(t) ==
    /\ boot = "up"
    /\ Accept(t)
    /\ UNCHANGED <<tablevars, cfgvars, boot, cut>>

Serve(t) ==
    \/ Connection(t) /\ UNCHANGED <<tablevars, cfgvars, boot, cut>>
    \/ ControllerOp(t) /\ UNCHANGED <<cfgvars, boot, cut>>
    \/ ConfigOp(t) /\ UNCHANGED <<tablevars, boot, cut>>

Fault(t) == SQLiteFails(t) /\ UNCHANGED <<cfgvars, boot, cut>>

Next ==
    \/ Startup
    \/ Crash
    \/ \E t \in Threads : Client(t) \/ Serve(t) \/ Fault(t)

Spec == Init /\ [][Next]_vars

\* The threads are scheduled, clients send their requests, SQLite comes back.
\* That it fails is never relied on.
FairSpec == Spec /\ \A t \in Threads : WF_vars(Serve(t))

(***************************************************************************)
(* Properties.                                                             *)
(***************************************************************************)
\* GlobalLock is with a request that is at work, or lost; and whoever edits the
\* table finds the write lock of the database free, or has it. SQLITE_BUSY would
\* lose the entry, as op controller does not look at what Step() returns. A
\* request that raised keeps its transaction open for good; it is because
\* GlobalLock stays locked too that nobody ever comes upon it.
EditorsNeverBusy ==
    /\ \A t \in Threads : glock = t => pc[t] \in {"begin", "entries", "unlock"}
    /\ \A t \in Threads : pc[t] = "entries" => writer \in {None, t}

\* Each edit of the controller table takes effect as a whole, at one moment
\* between its call and its answer, or not at all; it is answered 0 exactly if
\* it did. Edits run at once, entry by entry, some raise, and the process dies
\* at any step.
Phase == [t \in Threads |->
    IF req[t] = NoRequest THEN "idle"
    ELSE IF pc[t] = "send" /\ rc[t] # 0 THEN "failed"
    ELSE IF pc[t] \in {"unlock", "send"} THEN "applied"
    ELSE "called"]

Promised == INSTANCE TableOps WITH call <- req, phase <- Phase

ImplementsTableOps == Promised!OpsSpec

\* A server that is up has the controller table, whatever deaths and restarts
\* came before, unless one fell between the making of the file and of the table:
\* that table never comes, as Database::Init only looks for the file.
ServesWithTable == boot = "up" /\ ~cut => schema = "ready"

\* A lock that is lost is lost until the process ends. As long, nobody edits the
\* table: what a request that raised has left behind, a transaction half done, is
\* never committed by another. Nor does anybody read or set the configuration.
LocksStayLost ==
    [][/\ glock = Leaked => boot' = "off" \/ (glock' = Leaked /\ table' = table)
       /\ cfgowner # None =>
              boot' = "off" \/ (cfgowner' = cfgowner /\ cfgreaders' = cfgreaders)]_vars

\* What thread t has still to do for its request: one step per entry, which are all
\* controllers and one that does not parse at most, and at most 7 besides.
StepsAfter ==
    [idle |-> 0, send |-> 1, version |-> 2, unlock |-> 2, entries |-> 3, begin |-> 4,
     lock |-> 5, open |-> 6, read |-> 7, get |-> 3, lookup |-> 2, set |-> 2, resave |-> 1]

StepsLeft(t) ==
    StepsAfter[pc[t]]
        + IF pc[t] = "entries" THEN Cardinality(left[t])
          ELSE IF pc[t] \in {"read", "open", "lock", "begin"} THEN Cardinality(Endpoints) + 1
          ELSE 0

\* A request never goes back: each of its own steps brings it nearer its answer,
\* whatever raises, and no step of another thread or of the process takes it away
\* from there.
RequestsAdvance ==
    [][\A t \in Threads :
           /\ Serve(t) \/ Fault(t) => StepsLeft(t)' < StepsLeft(t)
           /\ pc[t] # "idle" => StepsLeft(t)' <= StepsLeft(t)]_vars

\* Every request is answered or closed, or waits for one of the two locks:
\* GlobalLock, which its owner, being one of these requests, gives back or loses
\* by an exception, or Lock_Config, for which op set waits while it holds it.
WaitsForLock(t) ==
    \/ pc[t] = "lock" /\ glock # None
    \/ pc[t] \in {"get", "set", "resave"} /\ (cfgowner # None \/ cfgreaders # {})

AnsweredOrWaits ==
    \A t \in Threads : (pc[t] # "idle") ~> (pc[t] = "idle" \/ WaitsForLock(t))

\* Every request is answered (API_UnixSocket.cpp: one thread per connection,
\* "without letting the client wait for a long time").
RequestsAnswered == \A t \in Threads : (pc[t] # "idle") ~> (pc[t] = "idle")
=============================================================================
