----------------------------- MODULE ApiServer -----------------------------
(***************************************************************************)
(* The API server (Services/API_UnixSocket.cpp, API_Common.cpp) and the       *)
(* dispatch of operations (Operations/Operations.cpp): a listener hands each   *)
(* connection to a thread of its own, which reads one request, finds its       *)
(* operation, checks the token if the operation wants one, runs the operation  *)
(* and sends what it returned.                                              *)
(*                                                                         *)
(* Modules ControllerTable and ConfigStore hold two of the operations; module  *)
(* Daemon puts all of it together.                                          *)
(***************************************************************************)
EXTENDS Integers

CONSTANTS
    Threads,        \* connection threads
    Endpoints,      \* address and port of a controller
    Ops,            \* the operations that are asked for
    Bad,            \* an entry whose address does not parse
    None,           \* no thread
    Leaked          \* in place of the owner of a lock nobody can give back

ASSUME NamesAssumption ==
    /\ None \notin Threads /\ Leaked \notin Threads /\ None # Leaked
    /\ Bad \notin Endpoints

VARIABLES
    pc,     \* pc[t]: where connection thread t is
    req,    \* req[t]: the request it serves
    rc      \* rc[t]: the code it answers

apivars == <<pc, req, rc>>

\* Op and arguments: the controllers an edit names, and what is wrong with them.
AllRequests ==
    [op : {"add", "del"}, named : SUBSET Endpoints, fault : {"none", "address"}]
    \cup [op : {"add", "del"}, named : {{}}, fault : {"array"}]
    \cup [op : {"list", "wipe", "get", "set", "version"}, named : {{}}, fault : {"none"}]

Request == {r \in AllRequests : r.op \in Ops}

NoRequest == [op |-> "none", named |-> {}, fault |-> "none"]

TableOp(op) == op \in {"list", "add", "del", "wipe"}

\* Where an operation begins.
EntryOf(op) ==
    CASE TableOp(op) -> "open"
      [] op = "get" -> "get"
      [] op = "set" -> "set"
      [] op = "version" -> "version"

\* Any of the codes of ParseRequest for what it does not run: 65535 for no JSON,
\* 65534 for no operation of that name, 65533 for a token that User::Auth refuses.
Refused == 65533

Codes == {0, -1, -2, Refused}

ApiTypeOK ==
    /\ pc \in [Threads -> {"idle", "read", "send", "version", "open", "lock", "begin",
                           "entries", "unlock", "get", "lookup", "set", "resave"}]
    /\ req \in [Threads -> Request \cup {NoRequest}]
    /\ rc \in [Threads -> Codes]

ApiInit ==
    /\ pc = [t \in Threads |-> "idle"]
    /\ req = [t \in Threads |-> NoRequest]
    /\ rc = [t \in Threads |-> 0]

Goto(t, l) == pc' = [pc EXCEPT ![t] = l]

\* The operation returns code c.
Return(t, c) ==
    /\ rc' = [rc EXCEPT ![t] = c]
    /\ Goto(t, "send")

\* accept() and pthread_create()
Accept(t) ==
    /\ pc[t] = "idle"
    /\ Goto(t, "read")
    /\ UNCHANGED <<req, rc>>

\* close(): the thread ends, and with it what it knows of the request.
Close(t) ==
    /\ req' = [req EXCEPT ![t] = NoRequest]
    /\ rc' = [rc EXCEPT ![t] = 0]
    /\ Goto(t, "idle")

\* read() fails: the connection is closed without an answer.
Hangup(t) ==
    /\ pc[t] = "read"
    /\ Close(t)

\* What was read is not run.
Refuse(t) ==
    /\ pc[t] = "read"
    /\ Return(t, Refused)
    /\ UNCHANGED req

\* What was read is a request whose operation is called.
Dispatch(t) ==
    /\ pc[t] = "read"
    /\ \E r \in Request :
          /\ req' = [req EXCEPT ![t] = r]
          /\ Goto(t, EntryOf(r.op))
    /\ UNCHANGED rc

\* An operation that touches no state of the daemon.
Version(t) ==
    /\ pc[t] = "version"
    /\ Return(t, 0)
    /\ UNCHANGED req

\* send() and close(); a client that is gone is not noticed.
Send(t) ==
    /\ pc[t] = "send"
    /\ Close(t)

Connection(t) ==
    \/ Hangup(t) \/ Refuse(t) \/ Dispatch(t) \/ Version(t) \/ Send(t)
=============================================================================
