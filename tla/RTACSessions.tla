----------------------------- MODULE RTACSessions -----------------------------
(***************************************************************************)
(* Super RTAC at work: the list of sessions that exec_script and "modify" of *)
(* poool create, tasks reports on and clear_tasks empties                    *)
(* (Operations/supertac.cpp, Operations/poool.cpp), and the two threads       *)
(* behind each session (ssh.cpp): one builds the command and starts the       *)
(* other, which connects to the node, runs the command and collects its       *)
(* output.                                                                 *)
(*                                                                         *)
(* The list is under a shared_timed_mutex; a session's status and output are  *)
(* written by its thread at any time. The node runs the command in a shell:   *)
(* it writes the script to a file and then runs that file.                  *)
(***************************************************************************)
EXTENDS Integers, FiniteSets

CONSTANTS
    Threads,        \* connection threads
    Sessions,       \* SuperRTACSession objects; an address is not used twice
    Nodes,          \* addresses of nodes
    Scripts,        \* script contents
    MaxChunks,      \* bound: reads that bring output, per session
    CountModulus,   \* 2^64 in the code: the range of taskscount
    None

ASSUME MaxChunksAssumption == MaxChunks \in Nat
ASSUME CountAssumption == CountModulus \in Nat /\ CountModulus >= 1

VARIABLES
    pc,         \* pc[t]: where connection thread t is
    script,     \* script[t]: the script that thread t hands out
    todo,       \* todo[t]: the listed sessions the loop of t has still to visit
    report,     \* report[t]: what tasks has of the session it is at
    list,       \* SuperRTACTasksList
    deleted,    \* sessions that clear_tasks deleted
    count,      \* taskscount
    job,        \* job[s]: the node and the script of session s
    exec,       \* exec[s]: where the thread of ExecThread is
    ssh,        \* ssh[s]: where the thread of NonblockingThread is
    status,     \* status[s]: RTACSession.Status
    output,     \* output[s]: chunks in ReadBuffer
    shell,      \* shell[s]: what the node still has to do for session s
    disk,       \* disk[n]: the script in /tmp/.ams.supertac.<UUID>.sh on node n
    ran         \* ran[s]: the script that ran for session s

opVars == <<pc, script, todo, report, list, deleted, count, job>>
nodeVars == <<shell, disk, ran>>
vars == <<opVars, exec, ssh, status, output, nodeVars>>

\* enum GeneralStatus, in its order.
Going == {"Uninitialized", "Connecting", "Connected", "ExecInProgress"}
Over == {"ConnectionFailure", "AuthFailure", "SSHSessionFailure", "Finished"}

NoReport == [of |-> None, msg |-> None, out |-> -1]

RTACTypeOK ==
    /\ pc \in [Threads -> {"idle", "creating", "listing", "clearing"}]
    /\ script \in [Threads -> Scripts \cup {None}]
    /\ todo \in [Threads -> SUBSET Sessions]
    /\ report \in [Threads ->
          [of : Sessions \cup {None}, msg : Going \cup Over \cup {None}, out : -1 .. MaxChunks]]
    /\ list \subseteq Sessions /\ deleted \subseteq Sessions
    /\ count \in 0 .. CountModulus - 1
    /\ job \in [Sessions -> [node : Nodes, script : Scripts] \cup {None}]
    /\ exec \in [Sessions -> {"none", "build", "detach", "done"}]
    /\ ssh \in [Sessions -> {"none", "start", "connect", "errno", "session", "auth",
                             "open", "channel", "reading", "closing", "done"}]
    /\ status \in [Sessions -> Going \cup Over]
    /\ output \in [Sessions -> 0 .. MaxChunks]
    /\ shell \in [Sessions -> {"none", "cat", "sh", "over"}]
    /\ disk \in [Nodes -> Scripts \cup {None}]
    /\ ran \in [Sessions -> Scripts \cup {None}]

Init ==
    /\ pc = [t \in Threads |-> "idle"]
    /\ script = [t \in Threads |-> None]
    /\ todo = [t \in Threads |-> {}]
    /\ report = [t \in Threads |-> NoReport]
    /\ list = {} /\ deleted = {}
    /\ count = 0
    /\ job = [s \in Sessions |-> None]
    /\ exec = [s \in Sessions |-> "none"]
    /\ ssh = [s \in Sessions |-> "none"]
    /\ status = [s \in Sessions |-> "Uninitialized"]
    /\ output = [s \in Sessions |-> 0]
    /\ shell = [s \in Sessions |-> "none"]
    /\ disk = [n \in Nodes |-> None]
    /\ ran = [s \in Sessions |-> None]

(***************************************************************************)
(* Lock_SuperRTACTasksList is held shared by a thread that is listing and     *)
(* exclusive by one that is creating or clearing.                           *)
(***************************************************************************)
Holding(locs) == {t \in Threads : pc[t] \in locs}

MayShare == Holding({"creating", "clearing"}) = {}

\* Bug: clear_tasks is content with lock_shared().
BugMayClear == MayShare

MayClear == Holding({"creating", "clearing", "listing"}) = {}

MayCreate == Holding({"creating", "clearing", "listing"}) = {}

(***************************************************************************)
(* exec_script and "modify": one session per address in the request.        *)
(***************************************************************************)
CreateBegin(t, c) ==
    /\ pc[t] = "idle"
    /\ MayCreate
    /\ pc' = [pc EXCEPT ![t] = "creating"]
    /\ script' = [script EXCEPT ![t] = c]
    /\ UNCHANGED <<todo, report, list, deleted, count, job, exec, ssh, status,
                   output, nodeVars>>

\* new SuperRTACSession, Exec(), insert
CreateSession(t, s, n) ==
    /\ pc[t] = "creating"
    /\ exec[s] = "none"
    /\ job' = [job EXCEPT ![s] = [node |-> n, script |-> script[t]]]
    /\ exec' = [exec EXCEPT ![s] = "build"]
    /\ list' = list \cup {s}
    /\ UNCHANGED <<pc, script, todo, report, deleted, count, ssh, status, output,
                   nodeVars>>

CreateEnd(t) ==
    /\ pc[t] = "creating"
    /\ pc' = [pc EXCEPT ![t] = "idle"]
    /\ script' = [script EXCEPT ![t] = None]
    /\ UNCHANGED <<todo, report, list, deleted, count, job, exec, ssh, status,
                   output, nodeVars>>

(***************************************************************************)
(* tasks: of each listed session first the message, then the output.         *)
(***************************************************************************)
ListBegin(t) ==
    /\ pc[t] = "idle"
    /\ MayShare
    /\ pc' = [pc EXCEPT ![t] = "listing"]
    /\ todo' = [todo EXCEPT ![t] = list]
    /\ UNCHANGED <<script, report, list, deleted, count, job, exec, ssh, status,
                   output, nodeVars>>

ListMessage(t, s) ==
    /\ pc[t] = "listing"
    /\ s \in todo[t]
    /\ report[t].of = None \/ report[t].out >= 0
    /\ report' = [report EXCEPT ![t] = [of |-> s, msg |-> status[s], out |-> -1]]
    /\ UNCHANGED <<pc, script, todo, list, deleted, count, job, exec, ssh, status,
                   output, nodeVars>>

ListOutput(t) ==
    /\ pc[t] = "listing"
    /\ report[t].of # None /\ report[t].out < 0
    /\ report' = [report EXCEPT ![t].out = output[report[t].of]]
    /\ todo' = [todo EXCEPT ![t] = @ \ {report[t].of}]
    /\ count' = (count + 1) % CountModulus
    /\ UNCHANGED <<pc, script, list, deleted, job, exec, ssh, status, output,
                   nodeVars>>

ListEnd(t) ==
    /\ pc[t] = "listing"
    /\ todo[t] = {}
    /\ pc' = [pc EXCEPT ![t] = "idle"]
    /\ report' = [report EXCEPT ![t] = NoReport]
    /\ UNCHANGED <<script, todo, list, deleted, count, job, exec, ssh, status,
                   output, nodeVars>>

(***************************************************************************)
(* clear_tasks                                                             *)
(***************************************************************************)
ClearBegin(t) ==
    /\ pc[t] = "idle"
    /\ MayClear
    /\ pc' = [pc EXCEPT ![t] = "clearing"]
    /\ todo' = [todo EXCEPT ![t] = list]
    /\ UNCHANGED <<script, report, list, deleted, count, job, exec, ssh, status,
                   output, nodeVars>>

\* Bug: a session that is executing counts as over.
BugClearable(s) == status[s] \in Over \cup {"ExecInProgress"}

\* Bug: the counter is an int.
BugCountDown == count - 1

CountDown == (count - 1) % CountModulus

\* Status() >= 0x80
Clearable(s) == status[s] \in Over

ClearSession(t, s) ==
    /\ pc[t] = "clearing"
    /\ s \in todo[t]
    /\ todo' = [todo EXCEPT ![t] = @ \ {s}]
    /\ IF Clearable(s)
       THEN /\ list' = list \ {s}
            /\ deleted' = deleted \cup {s}
            /\ count' = CountDown
       ELSE UNCHANGED <<list, deleted, count>>
    /\ UNCHANGED <<pc, script, report, job, exec, ssh, status, output, nodeVars>>

ClearEnd(t) ==
    /\ pc[t] = "clearing"
    /\ todo[t] = {}
    /\ pc' = [pc EXCEPT ![t] = "idle"]
    /\ UNCHANGED <<script, todo, report, list, deleted, count, job, exec, ssh,
                   status, output, nodeVars>>

(***************************************************************************)
(* The threads of a session.                                               *)
(***************************************************************************)
\* ExecInstance: the command is built, pthread_create.
ExecStart(s) ==
    /\ exec[s] = "build"
    /\ exec' = [exec EXCEPT ![s] = "detach"]
    /\ ssh' = [ssh EXCEPT ![s] = "start"]
    /\ UNCHANGED <<opVars, status, output, nodeVars>>

\* pthread_detach(ThreadId), a member of the session.
ExecDetach(s) ==
    /\ exec[s] = "detach"
    /\ exec' = [exec EXCEPT ![s] = "done"]
    /\ UNCHANGED <<opVars, ssh, status, output, nodeVars>>

\* A step of Connector and Executor that may set the status.
Step(s, from, to, st) ==
    /\ ssh[s] = from
    /\ ssh' = [ssh EXCEPT ![s] = to]
    /\ status' = [status EXCEPT ![s] = st]
    /\ UNCHANGED <<opVars, exec, output>>

\* Bug: an authentication that fails returns without a word.
BugAuthStatus == "Connecting"

AuthStatus == "AuthFailure"

Connector(s) ==
    /\ \/ Step(s, "start", "connect", "Connecting")
       \/ Step(s, "connect", "errno", "ConnectionFailure")
       \/ Step(s, "errno", "done", status[s])
       \/ Step(s, "connect", "session", status[s])
       \/ Step(s, "session", "done", "SSHSessionFailure")
       \/ Step(s, "session", "auth", status[s])
       \/ Step(s, "auth", "done", AuthStatus)
       \/ Step(s, "auth", "open", "Connected")
    /\ UNCHANGED nodeVars

\* Bug: the command counts as finished as soon as it is under way.
BugExecStatus == "Finished"

ExecStatus == "ExecInProgress"

\* The command is handed to the node. When that fails the status says so, and
\* the function goes on as if it had not.
ExecCommand(s) ==
    \/ /\ Step(s, "channel", "reading", ExecStatus)
       /\ shell' = [shell EXCEPT ![s] = "cat"]
       /\ UNCHANGED <<disk, ran>>
    \/ /\ Step(s, "channel", "reading", "SSHSessionFailure")
       /\ UNCHANGED nodeVars

Executor(s) ==
    \/ /\ \/ Step(s, "open", "channel", "ExecInProgress")
          \/ Step(s, "channel", "done", "SSHSessionFailure")
          \/ Step(s, "reading", "closing", status[s])
          \/ Step(s, "closing", "done", "Finished")
       /\ UNCHANGED nodeVars
    \/ ExecCommand(s)

\* An assumption on the node, not a test in the code: there is only output of a
\* command that was accepted.
NodeSends(s) == shell[s] # "none"

ReadChunk(s) ==
    /\ ssh[s] = "reading"
    /\ NodeSends(s)
    /\ output[s] < MaxChunks
    /\ output' = [output EXCEPT ![s] = @ + 1]
    /\ UNCHANGED <<opVars, exec, ssh, status, nodeVars>>

(***************************************************************************)
(* The shell on the node. The name of the file holds the UUID, which          *)
(* amsd_random_string() makes the same for every session.                   *)
(***************************************************************************)
NodeCat(s) ==
    /\ shell[s] = "cat"
    /\ shell' = [shell EXCEPT ![s] = "sh"]
    /\ disk' = [disk EXCEPT ![job[s].node] = job[s].script]
    /\ UNCHANGED <<opVars, exec, ssh, status, output, ran>>

NodeRun(s) ==
    /\ shell[s] = "sh"
    /\ shell' = [shell EXCEPT ![s] = "over"]
    /\ ran' = [ran EXCEPT ![s] = disk[job[s].node]]
    /\ UNCHANGED <<opVars, exec, ssh, status, output, disk>>

(***************************************************************************)
(* The specification.                                                      *)
(***************************************************************************)
Operation(t) ==
    \/ \E c \in Scripts : CreateBegin(t, c)
    \/ \E s \in Sessions, n \in Nodes : CreateSession(t, s, n)
    \/ CreateEnd(t)
    \/ ListBegin(t) \/ ListOutput(t) \/ ListEnd(t)
    \/ \E s \in Sessions : ListMessage(t, s) \/ ClearSession(t, s)
    \/ ClearBegin(t) \/ ClearEnd(t)

SessionStep(s) == ExecStart(s) \/ Connector(s) \/ Executor(s)

Session(s) == SessionStep(s) \/ ExecDetach(s) \/ ReadChunk(s) \/ NodeCat(s) \/ NodeRun(s)

Next ==
    \/ \E t \in Threads : Operation(t)
    \/ \E s \in Sessions : Session(s)

Spec == Init /\ [][Next]_vars

\* The calls of libssh2 that return only when the node answers: the handshake,
\* the authentication, opening the channel and the exec request, reading until the
\* command ends, closing. No timeout and no keepalive is set for them. (The
\* kernel gives up a connect() that is not answered.)
WaitsForNode(s) == ssh[s] \in {"session", "auth", "channel", "reading", "closing"}

\* A session's threads are scheduled; nothing is assumed of its node.
FairSpec == Spec /\ \A s \in Sessions : WF_vars(~WaitsForNode(s) /\ SessionStep(s))

(***************************************************************************)
(* Properties.                                                             *)
(***************************************************************************)
\* The sessions a loop has still to visit are all listed, none is deleted
\* under it: tasks reads through the pointers with the list locked.
LoopsSeeListed ==
    \A t \in Threads :
        /\ todo[t] \subseteq list
        /\ report[t].of # None => report[t].of \notin deleted

\* clear_tasks deletes a session only when its threads are through, or in one of
\* the three places where they are not: between the status of a failed connect
\* and its errno, after an exec request that failed, and before the thread that
\* started the connection has detached it.
ClearedIsOver ==
    \A s \in deleted :
        /\ exec[s] \in {"detach", "done"}
        /\ \/ ssh[s] \in {"done", "errno"}
           \/ ssh[s] \in {"reading", "closing"} /\ status[s] = "SSHSessionFailure"

\* What tasks reports as finished it reports with all of its output: the
\* message is read before the output, and Finished is set after the last read.
FinishedIsComplete ==
    \A t \in Threads :
        report[t].msg = "Finished" /\ report[t].out >= 0 =>
            report[t].out = output[report[t].of]

\* A session runs the script it was made for ("Execute scripts on remote
\* machines in parallel").
RunsOwnScript == \A s \in Sessions : ran[s] # None => ran[s] = job[s].script

\* What tasks shows of a session, by where it is listed and what its status says.
LifeOf(s) ==
    IF s \in deleted THEN "cleared"
    ELSE IF s \notin list THEN "none"
    ELSE IF status[s] \in Over THEN "over" ELSE "going"

Tasks == INSTANCE TaskList
    WITH life <- [s \in Sessions |-> LifeOf(s)], out <- output

\* The list is the one of TaskList: a session that is over is never again shown as
\* going on, although one whose exec request failed goes on reading; no output is
\* added to what was shown as over, and nothing is cleared that is not over.
ImplementsTaskList == Tasks!TaskSpec

\* Every session comes to an end that tasks shows and clear_tasks accepts, unless
\* its node leaves it waiting for ever: no other way through the two threads
\* leaves a status behind that looks like a session still at work.
SessionEnds ==
    \A s \in Sessions : (s \in list) ~> (status[s] \in Over \/ []WaitsForNode(s))
=============================================================================
