--------------------------- MODULE ControllerTable ---------------------------
(***************************************************************************)
(* Operation "controller" (Operations/controller.cpp) on the table the        *)
(* collector visits. Edits run under GlobalLock and in one transaction; an     *)
(* exception on the way is answered with -2 and leaves both as they are.      *)
(*                                                                         *)
(* Of SQLite (in WAL mode) this much is used: a connection that changes rows    *)
(* holds the write lock of the file until it commits, its changes are its own  *)
(* until then, and a step that finds the lock taken changes nothing.           *)
(***************************************************************************)
EXTENDS ApiServer

VARIABLES
    table,      \* the committed rows of table controller
    schema,     \* the database file: "absent", "empty" (no table yet), "ready"
    glock,      \* who holds GlobalLock
    writer,     \* whose connection holds the write lock of the file
    work,       \* the rows as that connection sees them
    left        \* left[t]: entries of the request the loop has still to come to

tablevars == <<table, schema, glock, writer, work, left>>

ControllerTypeOK ==
    /\ table \subseteq Endpoints /\ work \subseteq Endpoints
    /\ schema \in {"absent", "empty", "ready"}
    /\ glock \in Threads \cup {None, Leaked}
    /\ writer \in Threads \cup {None, Leaked}
    /\ left \in [Threads -> SUBSET (Endpoints \cup {Bad})]

ControllerInit ==
    /\ table = {} /\ work = {}
    /\ schema = "absent"
    /\ glock = None /\ writer = None
    /\ left = [t \in Threads |-> {}]

\* Bug: the catch block unlocks, but does not delete the connection.
BugLockAfterRaise(t) == IF glock = t THEN None ELSE glock

LockAfterRaise(t) == IF glock = t THEN Leaked ELSE glock

\* catch (Reimu::Exception): the connection is not deleted.
Raise(t) ==
    /\ Return(t, -2)
    /\ glock' = LockAfterRaise(t)
    /\ writer' = IF writer = t THEN Leaked ELSE writer
    /\ left' = [left EXCEPT ![t] = {}]
    /\ UNCHANGED <<req, table, schema, work>>

\* OpenSQLite3(), which may raise, and the check of the arguments.
OpenTable(t) ==
    /\ pc[t] = "open"
    /\ req[t].op # "list"
    /\ \/ /\ req[t].fault = "array"
          /\ Return(t, -1)
       \/ /\ req[t].fault # "array"
          /\ Goto(t, "lock")
          /\ UNCHANGED rc
    /\ UNCHANGED <<req, tablevars>>

\* list: one SELECT, without GlobalLock
List(t) ==
    /\ pc[t] = "open"
    /\ req[t].op = "list"
    /\ schema = "ready"
    /\ Return(t, 0)
    /\ UNCHANGED <<req, tablevars>>

\* Bug: no lock() in the operation.
BugMayEdit == TRUE

MayEdit == glock = None

LockTable(t) ==
    /\ pc[t] = "lock"
    /\ MayEdit
    /\ glock' = t
    /\ Goto(t, "begin")
    /\ UNCHANGED <<req, rc, table, schema, writer, work, left>>

\* add and del: BEGIN and the statement, for a table that has to be there
Begin(t) ==
    /\ pc[t] = "begin"
    /\ req[t].op \in {"add", "del"}
    /\ schema = "ready"
    /\ left' = [left EXCEPT ![t] =
                   req[t].named \cup (IF req[t].fault = "address" THEN {Bad} ELSE {})]
    /\ Goto(t, "entries")
    /\ UNCHANGED <<req, rc, table, schema, glock, writer, work>>

\* wipe, if SQLite3::Exec does not raise for a statement that does not parse
Wipe(t) ==
    /\ pc[t] = "begin"
    /\ req[t].op = "wipe"
    /\ Goto(t, "unlock")
    /\ UNCHANGED <<req, rc, tablevars>>

\* Bug: add inserts an address that does not parse.
BugValidEntries(t) == left[t]

ValidEntries(t) == left[t] \ {Bad}

Edited(t, T, c) == IF req[t].op = "add" THEN T \cup {c} ELSE T \ {c}

\* What the connection of t sees, if it may write.
Seen(t) == IF writer = t THEN work ELSE table

\* Bug: the loop does not advance.
BugRemaining(t, c) == left[t]

Remaining(t, c) == left[t] \ {c}

\* Bind, Step and Reset for one entry; what Step returns is not looked at.
Entry(t, c) ==
    /\ pc[t] = "entries"
    /\ left' = [left EXCEPT ![t] = Remaining(t, c)]
    /\ IF writer \in {None, t}
       THEN /\ writer' = t
            /\ work' = Edited(t, Seen(t), c)
       ELSE UNCHANGED <<writer, work>>
    /\ UNCHANGED <<pc, req, rc, table, schema, glock>>

\* del does not look at what inet_pton returns: it deletes what the buffer on
\* the stack happens to hold. (add raises, in the constructor of IPEndPoint.)
BadEntry(t) ==
    /\ pc[t] = "entries"
    /\ Bad \in left[t]
    /\ req[t].op = "del"
    /\ left' = [left EXCEPT ![t] = Remaining(t, Bad)]
    /\ IF writer \in {None, t}
       THEN /\ writer' = t
            /\ work' \in {Seen(t)} \cup {Seen(t) \ {c} : c \in Endpoints}
       ELSE UNCHANGED <<writer, work>>
    /\ UNCHANGED <<pc, req, rc, table, schema, glock>>

Commit(t) ==
    /\ pc[t] = "entries"
    /\ left[t] = {}
    /\ table' = Seen(t)
    /\ writer' = IF writer = t THEN None ELSE writer
    /\ work' = {}
    /\ Goto(t, "unlock")
    /\ UNCHANGED <<req, rc, schema, glock, left>>

\* Bug: no unlock() after the COMMIT.
BugLockAfterCommit == glock

LockAfterCommit == None

UnlockTable(t) ==
    /\ pc[t] = "unlock"
    /\ glock' = LockAfterCommit
    /\ Return(t, 0)
    /\ UNCHANGED <<req, table, schema, writer, work, left>>

\* The statement names a table that is not there: Prepare() raises.
NoTable(t) ==
    /\ \/ pc[t] = "open" /\ req[t].op = "list"
       \/ pc[t] = "begin" /\ req[t].op \in {"add", "del"}
    /\ schema # "ready"
    /\ Raise(t)

\* The constructor of IPEndPoint raises.
BadAddress(t) ==
    /\ pc[t] = "entries"
    /\ Bad \in left[t]
    /\ req[t].op = "add"
    /\ Raise(t)

\* A call of SQLite up to the COMMIT raises: no file descriptor left, a full
\* disk. Exec("TRUNCATE controller") is one that does so by itself.
SQLiteFails(t) ==
    /\ pc[t] \in {"open", "begin", "entries"}
    /\ Raise(t)

ControllerOp(t) ==
    \/ OpenTable(t) \/ List(t) \/ LockTable(t) \/ Begin(t) \/ Wipe(t)
    \/ \E c \in ValidEntries(t) : Entry(t, c)
    \/ BadEntry(t) \/ Commit(t) \/ UnlockTable(t)
    \/ NoTable(t) \/ BadAddress(t)
=============================================================================
