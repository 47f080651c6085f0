------------------------------ MODULE TableOps ------------------------------
(***************************************************************************)
(* What operation "controller" promises to its clients: each request has     *)
(* its whole effect on the controller table at one moment between its call    *)
(* and its answer, or none; the answer is 0 exactly if it had; and a process  *)
(* that dies takes requests with it, never part of a request.               *)
(* Module Daemon implements this one.                                       *)
(***************************************************************************)
CONSTANTS
    Threads,        \* connection threads
    Endpoints,      \* address and port of a controller
    Request,        \* what a client may ask for
    NoRequest       \* in its place between two requests

VARIABLES
    table,      \* the rows of table controller
    call,       \* call[t]: the request of thread t
    phase       \* phase[t]: how far it is

opsvars == <<table, call, phase>>

Phases == {"idle", "called", "applied", "failed"}

\* What a request may make of table T. A deletion whose address does not parse
\* deletes whatever its uninitialised buffer names. "TRUNCATE controller" is no
\* statement of SQLite: wipe leaves the table as it is.
Effects(r, T) ==
    CASE r.op = "add" -> {T \cup r.named}
      [] r.op = "del" ->
            IF r.fault = "address"
            THEN {T \ r.named} \cup {T \ (r.named \cup {c}) : c \in Endpoints}
            ELSE {T \ r.named}
      [] OTHER -> {T}

OpsInit ==
    /\ table = {}
    /\ call = [t \in Threads |-> NoRequest]
    /\ phase = [t \in Threads |-> "idle"]

To(t, p) == phase' = [phase EXCEPT ![t] = p]

Called(t) ==
    /\ phase[t] = "idle"
    /\ \E r \in Request : call' = [call EXCEPT ![t] = r]
    /\ To(t, "called")
    /\ UNCHANGED table

Applied(t) ==
    /\ phase[t] = "called"
    /\ table' \in Effects(call[t], table)
    /\ To(t, "applied")
    /\ UNCHANGED call

Failed(t) ==
    /\ phase[t] = "called"
    /\ To(t, "failed")
    /\ UNCHANGED <<table, call>>

\* The answer is sent.
Ended(t) ==
    /\ phase[t] \in {"applied", "failed"}
    /\ call' = [call EXCEPT ![t] = NoRequest]
    /\ To(t, "idle")
    /\ UNCHANGED table

Killed ==
    /\ phase' = [t \in Threads |-> "idle"]
    /\ call' = [t \in Threads |-> NoRequest]
    /\ UNCHANGED table

OpsNext ==
    \/ \E t \in Threads :
          Called(t) \/ Applied(t) \/ Failed(t) \/ Ended(t)
    \/ Killed

OpsSpec == OpsInit /\ [][OpsNext]_opsvars
=============================================================================
