------------------------------ MODULE RTACProof ------------------------------
(***************************************************************************)
(* Proofs about RTACSessions, checked by TLAPS: what holds for every number   *)
(* of connection threads, sessions and nodes.                               *)
(***************************************************************************)
EXTENDS RTACSessions, TLAPS

\* Who creates or clears has the list alone.
LockInv ==
    \A t, u \in Threads :
        t # u /\ pc[t] \in {"creating", "clearing"} => pc[u] = "idle"

\* What a loop still has to visit, and what it is at, is on the list; outside a
\* loop there is nothing to visit. What was deleted does not come back.
LoopInv ==
    /\ \A t \in Threads :
          /\ pc[t] \notin {"listing", "clearing"} => todo[t] = {}
          /\ pc[t] # "listing" => report[t] = NoReport
          /\ todo[t] \subseteq list
          /\ report[t].of # None => report[t].of \in list
    /\ \A s \in list : s \notin deleted
    /\ \A s \in list \cup deleted : exec[s] # "none"

\* How the status of a session relates to where its threads are; a final status
\* stays final.
Settled(s) ==
    \/ ssh[s] \in {"done", "errno"}
    \/ ssh[s] \in {"reading", "closing"} /\ status[s] = "SSHSessionFailure"

OverInv ==
    /\ \A s \in Sessions :
          /\ ssh[s] # "none" => exec[s] \in {"detach", "done"}
          /\ exec[s] \in {"none", "build"} => ssh[s] = "none"
          /\ status[s] \in Over => Settled(s)
          /\ status[s] = "Finished" => ssh[s] = "done"
    /\ \A s \in deleted : status[s] \in Over

\* What tasks has read is still so when it says that the session has finished.
ReportInv ==
    \A t \in Threads :
        /\ report[t].out >= 0 => report[t].of # None
        /\ report[t].of # None /\ report[t].msg = "Finished" =>
              /\ status[report[t].of] = "Finished"
              /\ report[t].out >= 0 => report[t].out = output[report[t].of]

\* A session that was made has a job.
JobInv ==
    /\ \A t \in Threads : pc[t] = "creating" => script[t] \in Scripts
    /\ \A s \in Sessions :
          /\ exec[s] # "none" => job[s] \in [node : Nodes, script : Scripts]
          /\ shell[s] # "none" => exec[s] # "none"

IInv == RTACTypeOK /\ LockInv /\ LoopInv /\ OverInv /\ ReportInv /\ JobInv

LEMMA InitIInv == Init => IInv
<1> SUFFICES ASSUME Init PROVE IInv
    OBVIOUS
<1>1. RTACTypeOK
    BY MaxChunksAssumption, CountAssumption
    DEF Init, RTACTypeOK, NoReport, Going, Over
<1>2. LockInv /\ LoopInv /\ OverInv /\ ReportInv /\ JobInv
    BY DEF Init, LockInv, LoopInv, OverInv, Settled, ReportInv, JobInv, NoReport, Over
<1> QED BY <1>1, <1>2 DEF IInv

(***************************************************************************)
(* exec_script, tasks and clear_tasks.                                     *)
(***************************************************************************)
\* Adding to the list, with the list alone: nobody is in a loop.
LEMMA CreateStep ==
    ASSUME IInv, NEW t \in Threads,
           \/ \E c \in Scripts : CreateBegin(t, c)
           \/ \E s \in Sessions, n \in Nodes : CreateSession(t, s, n)
           \/ CreateEnd(t)
    PROVE  IInv'
<1> USE DEF IInv, opVars, nodeVars
<1>1. CASE \E c \in Scripts : CreateBegin(t, c)
    <2>1. RTACTypeOK'
        BY <1>1 DEF CreateBegin, RTACTypeOK
    <2>2. LockInv'
        BY <1>1 DEF CreateBegin, MayCreate, Holding, RTACTypeOK, LockInv
    <2>3. LoopInv' /\ OverInv' /\ ReportInv' /\ JobInv'
        BY <1>1 DEF CreateBegin, RTACTypeOK, LoopInv, OverInv, Settled, ReportInv, JobInv
    <2> QED BY <2>1, <2>2, <2>3
<1>2. CASE \E s \in Sessions, n \in Nodes : CreateSession(t, s, n)
    <2>1. PICK s \in Sessions, n \in Nodes : CreateSession(t, s, n)
        BY <1>2
    <2>2. script[t] \in Scripts
        BY <2>1 DEF CreateSession, JobInv
    <2>3. RTACTypeOK'
        BY <2>1, <2>2 DEF CreateSession, RTACTypeOK
    <2>4. LockInv' /\ LoopInv' /\ OverInv' /\ ReportInv'
        BY <2>1 DEF CreateSession, RTACTypeOK, LockInv, LoopInv, OverInv, Settled, ReportInv
    <2>5. JobInv'
        BY <2>1, <2>2 DEF CreateSession, RTACTypeOK, JobInv
    <2> QED BY <2>3, <2>4, <2>5
<1>3. CASE CreateEnd(t)
    <2>1. RTACTypeOK'
        BY <1>3 DEF CreateEnd, RTACTypeOK
    <2>2. LockInv' /\ LoopInv' /\ OverInv' /\ ReportInv' /\ JobInv'
        BY <1>3 DEF CreateEnd, RTACTypeOK, LockInv, LoopInv, OverInv, Settled, ReportInv,
            JobInv
    <2> QED BY <2>1, <2>2
<1> QED BY <1>1, <1>2, <1>3

LEMMA ListStep ==
    ASSUME IInv, NEW t \in Threads,
           \/ ListBegin(t) \/ ListOutput(t) \/ ListEnd(t)
           \/ \E s \in Sessions : ListMessage(t, s)
    PROVE  IInv'
<1> USE DEF IInv, opVars, nodeVars
<1>1. CASE ListBegin(t)
    <2>1. RTACTypeOK'
        BY <1>1 DEF ListBegin, RTACTypeOK
    <2>2. LockInv'
        BY <1>1 DEF ListBegin, MayShare, Holding, RTACTypeOK, LockInv
    <2>3. LoopInv' /\ OverInv' /\ ReportInv' /\ JobInv'
        BY <1>1 DEF ListBegin, RTACTypeOK, LoopInv, OverInv, Settled, ReportInv, JobInv
    <2> QED BY <2>1, <2>2, <2>3
<1>2. CASE ListOutput(t)
    <2>1. (count + 1) % CountModulus \in 0 .. CountModulus - 1
        BY CountAssumption DEF RTACTypeOK
    <2>2. RTACTypeOK'
        <3>1. output[report[t].of] \in 0 .. MaxChunks
            BY <1>2 DEF ListOutput, RTACTypeOK
        <3> QED BY <1>2, <2>1, <3>1, MaxChunksAssumption DEF ListOutput, RTACTypeOK
    <2>3. LockInv' /\ LoopInv' /\ OverInv' /\ JobInv'
        BY <1>2 DEF ListOutput, RTACTypeOK, LockInv, LoopInv, OverInv, Settled, JobInv
    <2>4. ReportInv'
        BY <1>2 DEF ListOutput, RTACTypeOK, ReportInv
    <2> QED BY <2>2, <2>3, <2>4
<1>3. CASE ListEnd(t)
    <2>1. RTACTypeOK'
        BY <1>3, MaxChunksAssumption DEF ListEnd, RTACTypeOK, NoReport
    <2>2. LockInv' /\ LoopInv' /\ OverInv' /\ ReportInv' /\ JobInv'
        BY <1>3 DEF ListEnd, RTACTypeOK, LockInv, LoopInv, OverInv, Settled, ReportInv,
            JobInv, NoReport
    <2> QED BY <2>1, <2>2
<1>4. CASE \E s \in Sessions : ListMessage(t, s)
    <2>1. PICK s \in Sessions : ListMessage(t, s)
        BY <1>4
    <2>2. RTACTypeOK'
        BY <2>1, MaxChunksAssumption DEF ListMessage, RTACTypeOK
    <2>3. LockInv' /\ LoopInv' /\ OverInv' /\ JobInv'
        BY <2>1 DEF ListMessage, RTACTypeOK, LockInv, LoopInv, OverInv, Settled, JobInv
    <2>4. ReportInv'
        BY <2>1 DEF ListMessage, RTACTypeOK, ReportInv
    <2> QED BY <2>2, <2>3, <2>4
<1> QED BY <1>1, <1>2, <1>3, <1>4

\* Deleting, with the list alone: no other loop has the session still to visit.
LEMMA ClearStep ==
    ASSUME IInv, NEW t \in Threads,
           \/ ClearBegin(t) \/ ClearEnd(t)
           \/ \E s \in Sessions : ClearSession(t, s)
    PROVE  IInv'
<1> USE DEF IInv, opVars, nodeVars
<1>1. CASE ClearBegin(t)
    <2>1. RTACTypeOK'
        BY <1>1 DEF ClearBegin, RTACTypeOK
    <2>2. LockInv'
        BY <1>1 DEF ClearBegin, MayClear, Holding, RTACTypeOK, LockInv
    <2>3. LoopInv' /\ OverInv' /\ ReportInv' /\ JobInv'
        BY <1>1 DEF ClearBegin, RTACTypeOK, LoopInv, OverInv, Settled, ReportInv, JobInv
    <2> QED BY <2>1, <2>2, <2>3
<1>2. CASE ClearEnd(t)
    <2>1. RTACTypeOK'
        BY <1>2 DEF ClearEnd, RTACTypeOK
    <2>2. LockInv' /\ LoopInv' /\ OverInv' /\ ReportInv' /\ JobInv'
        BY <1>2 DEF ClearEnd, RTACTypeOK, LockInv, LoopInv, OverInv, Settled, ReportInv,
            JobInv
    <2> QED BY <2>1, <2>2
<1>3. CASE \E s \in Sessions : ClearSession(t, s)
    <2>1. PICK s \in Sessions : ClearSession(t, s)
        BY <1>3
    <2>2. (count - 1) % CountModulus \in 0 .. CountModulus - 1
        BY CountAssumption DEF RTACTypeOK
    <2>3. RTACTypeOK'
        BY <2>1, <2>2 DEF ClearSession, CountDown, RTACTypeOK
    <2>4. LockInv' /\ ReportInv' /\ JobInv'
        BY <2>1 DEF ClearSession, RTACTypeOK, LockInv, ReportInv, JobInv
    <2>5. \A u \in Threads \ {t} : pc[u] = "idle" /\ todo[u] = {} /\ report[u] = NoReport
        BY <2>1 DEF ClearSession, LockInv, LoopInv
    <2>6. report[t] = NoReport
        BY <2>1 DEF ClearSession, LoopInv
    <2>7. LoopInv'
        BY <2>1, <2>5, <2>6 DEF ClearSession, RTACTypeOK, LoopInv, NoReport
    <2>8. OverInv'
        BY <2>1 DEF ClearSession, Clearable, RTACTypeOK, OverInv, Settled
    <2> QED BY <2>3, <2>4, <2>7, <2>8
<1> QED BY <1>1, <1>2, <1>3

(***************************************************************************)
(* The threads of a session and the node.                                  *)
(***************************************************************************)
LEMMA ExecStep ==
    ASSUME IInv, NEW s \in Sessions, ExecStart(s) \/ ExecDetach(s)
    PROVE  IInv'
<1> USE DEF IInv, opVars, nodeVars
<1>1. RTACTypeOK'
    BY DEF ExecStart, ExecDetach, RTACTypeOK
<1>2. LockInv' /\ LoopInv' /\ ReportInv' /\ JobInv'
    BY DEF ExecStart, ExecDetach, RTACTypeOK, LockInv, LoopInv, ReportInv, JobInv
<1>3. OverInv'
    BY DEF ExecStart, ExecDetach, RTACTypeOK, OverInv, Settled, Over
<1> QED BY <1>1, <1>2, <1>3

\* A step of the connection. A final status is followed by a final one, and
\* Finished by nothing.
LEMMA ConnectionStep ==
    ASSUME IInv, NEW s \in Sessions, NEW from, NEW to, NEW st,
           Step(s, from, to, st),
           from \in {"start", "connect", "errno", "session", "auth", "open", "channel",
                     "reading", "closing"},
           to \in {"connect", "errno", "session", "auth", "open", "channel", "reading",
                   "closing", "done"},
           st \in Going \cup Over,
           status[s] \in Over => st \in Over,
           st \in Over => \/ to \in {"done", "errno"}
                          \/ to \in {"reading", "closing"} /\ st = "SSHSessionFailure",
           st = "Finished" => to = "done",
           UNCHANGED <<disk, ran>>,
           shell' \in [Sessions -> {"none", "cat", "sh", "over"}],
           \A u \in Sessions : shell'[u] # "none" => u = s \/ shell[u] # "none"
    PROVE  IInv'
<1> USE DEF IInv, opVars, nodeVars
<1>1. /\ ssh[s] = from /\ ssh' = [ssh EXCEPT ![s] = to]
      /\ status' = [status EXCEPT ![s] = st]
      /\ UNCHANGED <<pc, script, todo, report, list, deleted, count, job, exec, output>>
    BY DEF Step
<1>2. status[s] # "Finished"
    BY <1>1 DEF OverInv
<1>3. RTACTypeOK'
    BY <1>1 DEF RTACTypeOK
<1>4. LockInv' /\ LoopInv'
    BY <1>1 DEF LockInv, LoopInv
<1>5. OverInv'
    BY <1>1 DEF RTACTypeOK, OverInv, Settled
<1>6. ReportInv'
    BY <1>1, <1>2 DEF RTACTypeOK, ReportInv
<1>7. JobInv'
    <2>1. exec[s] # "none"
        BY <1>1 DEF OverInv
    <2> QED BY <1>1, <2>1 DEF JobInv
<1> QED BY <1>3, <1>4, <1>5, <1>6, <1>7

LEMMA ConnectorStep ==
    ASSUME IInv, NEW s \in Sessions, Connector(s)
    PROVE  IInv'
<1>1. /\ UNCHANGED <<disk, ran>> /\ shell' = shell
      /\ shell \in [Sessions -> {"none", "cat", "sh", "over"}]
      /\ status[s] \in Going \cup Over
    BY DEF Connector, nodeVars, IInv, RTACTypeOK
<1>2. status[s] \in Over => ssh[s] \in {"done", "errno", "reading", "closing"}
    BY DEF IInv, OverInv, Settled
<1>3. CASE Step(s, "start", "connect", "Connecting")
    BY <1>1, <1>2, <1>3, ConnectionStep DEF Going, Over, Step
<1>4. CASE Step(s, "connect", "errno", "ConnectionFailure")
    BY <1>1, <1>2, <1>4, ConnectionStep DEF Going, Over, Step
<1>5. CASE Step(s, "errno", "done", status[s])
    <2>1. status[s] # "Finished"
        BY <1>5 DEF Step, IInv, OverInv
    <2> QED BY <1>1, <1>5, <2>1, ConnectionStep
<1>6. CASE Step(s, "connect", "session", status[s])
    BY <1>1, <1>2, <1>6, ConnectionStep DEF Over, Step
<1>7. CASE Step(s, "session", "done", "SSHSessionFailure")
    BY <1>1, <1>7, ConnectionStep DEF Going, Over
<1>8. CASE Step(s, "session", "auth", status[s])
    BY <1>1, <1>2, <1>8, ConnectionStep DEF Over, Step
<1>9. CASE Step(s, "auth", "done", AuthStatus)
    BY <1>1, <1>9, ConnectionStep DEF Going, Over, AuthStatus
<1>10. CASE Step(s, "auth", "open", "Connected")
    BY <1>1, <1>2, <1>10, ConnectionStep DEF Going, Over, Step
<1> QED BY <1>3, <1>4, <1>5, <1>6, <1>7, <1>8, <1>9, <1>10 DEF Connector

LEMMA ExecutorStep ==
    ASSUME IInv, NEW s \in Sessions, Executor(s)
    PROVE  IInv'
<1>1. /\ shell \in [Sessions -> {"none", "cat", "sh", "over"}]
      /\ status[s] \in Going \cup Over
    BY DEF IInv, RTACTypeOK
<1>2. status[s] \in Over =>
          \/ ssh[s] \in {"done", "errno"}
          \/ ssh[s] \in {"reading", "closing"} /\ status[s] = "SSHSessionFailure"
    BY DEF IInv, OverInv, Settled
<1>3. /\ UNCHANGED <<disk, ran>>
      /\ \/ shell' = shell
         \/ shell' = [shell EXCEPT ![s] = "cat"]
    BY DEF Executor, ExecCommand, nodeVars
<1>4. /\ shell' \in [Sessions -> {"none", "cat", "sh", "over"}]
      /\ \A u \in Sessions : shell'[u] # "none" => u = s \/ shell[u] # "none"
    BY <1>1, <1>3
<1>5. CASE Step(s, "open", "channel", "ExecInProgress")
    BY <1>2, <1>3, <1>4, <1>5, ConnectionStep DEF Going, Over, Step
<1>6. CASE Step(s, "channel", "done", "SSHSessionFailure")
    BY <1>3, <1>4, <1>6, ConnectionStep DEF Going, Over
<1>7. CASE Step(s, "reading", "closing", status[s])
    <2>1. status[s] # "Finished"
        BY <1>7 DEF Step, IInv, OverInv
    <2>2. status[s] \in Over => status[s] = "SSHSessionFailure"
        BY <1>2, <1>7 DEF Step
    <2> QED BY <1>1, <1>3, <1>4, <1>7, <2>1, <2>2, ConnectionStep
<1>8. CASE Step(s, "closing", "done", "Finished")
    BY <1>3, <1>4, <1>8, ConnectionStep DEF Going, Over
<1>9. CASE Step(s, "channel", "reading", ExecStatus)
    BY <1>2, <1>3, <1>4, <1>9, ConnectionStep DEF Going, Over, Step, ExecStatus
<1>10. CASE Step(s, "channel", "reading", "SSHSessionFailure")
    BY <1>3, <1>4, <1>10, ConnectionStep DEF Going, Over
<1> QED BY <1>5, <1>6, <1>7, <1>8, <1>9, <1>10 DEF Executor, ExecCommand

\* Output arrives, and the node works.
LEMMA NodeStep ==
    ASSUME IInv, NEW s \in Sessions, ReadChunk(s) \/ NodeCat(s) \/ NodeRun(s)
    PROVE  IInv'
<1> USE DEF IInv, opVars, nodeVars
<1>1. CASE ReadChunk(s)
    <2>1. RTACTypeOK'
        BY <1>1, MaxChunksAssumption DEF ReadChunk, RTACTypeOK
    <2>2. LockInv' /\ LoopInv' /\ OverInv' /\ JobInv'
        BY <1>1 DEF ReadChunk, LockInv, LoopInv, OverInv, Settled, JobInv
    <2>3. status[s] # "Finished"
        BY <1>1 DEF ReadChunk, OverInv
    <2>4. ReportInv'
        BY <1>1, <2>3 DEF ReadChunk, RTACTypeOK, ReportInv
    <2> QED BY <2>1, <2>2, <2>4
<1>2. CASE NodeCat(s) \/ NodeRun(s)
    <2>1. job[s] \in [node : Nodes, script : Scripts] /\ exec[s] # "none"
        BY <1>2 DEF NodeCat, NodeRun, JobInv
    <2>2. RTACTypeOK'
        BY <1>2, <2>1 DEF NodeCat, NodeRun, RTACTypeOK
    <2>3. LockInv' /\ LoopInv' /\ OverInv' /\ ReportInv'
        BY <1>2 DEF NodeCat, NodeRun, LockInv, LoopInv, OverInv, Settled, ReportInv
    <2>4. JobInv'
        BY <1>2, <2>1 DEF NodeCat, NodeRun, RTACTypeOK, JobInv
    <2> QED BY <2>2, <2>3, <2>4
<1> QED BY <1>1, <1>2

LEMMA NextKeepsIInv == IInv /\ [Next]_vars => IInv'
<1> SUFFICES ASSUME IInv, [Next]_vars PROVE IInv'
    OBVIOUS
<1>1. CASE UNCHANGED vars
    BY <1>1 DEF IInv, vars, opVars, nodeVars, RTACTypeOK, LockInv, LoopInv, OverInv,
        Settled, ReportInv, JobInv
<1>2. ASSUME NEW t \in Threads, Operation(t)
      PROVE  IInv'
    BY <1>2, CreateStep, ListStep, ClearStep DEF Operation
<1>3. ASSUME NEW s \in Sessions, Session(s)
      PROVE  IInv'
    BY <1>3, ExecStep, ConnectorStep, ExecutorStep, NodeStep DEF Session, SessionStep
<1> QED BY <1>1, <1>2, <1>3 DEF Next

(***************************************************************************)
(* Theorems.                                                               *)
(***************************************************************************)
LEMMA Invariance == Spec => []IInv
BY InitIInv, NextKeepsIInv, PTL DEF Spec

\* taskscount wraps, and every session's fields stay in their range
\* (supertac.cpp:294, ssh.cpp).
THEOREM TypeCorrect == Spec => []RTACTypeOK
<1>1. IInv => RTACTypeOK
    BY DEF IInv
<1> QED BY <1>1, Invariance, PTL

\* tasks and clear_tasks never follow a pointer to a deleted session
\* (supertac.cpp:290).
THEOREM LoopsAreSafe == Spec => []LoopsSeeListed
<1>1. IInv => LoopsSeeListed
    BY DEF IInv, LoopInv, LoopsSeeListed
<1> QED BY <1>1, Invariance, PTL

\* A session that clear_tasks deleted was over, with the three loose ends that
\* the property names (ssh.cpp:65, 102, 214).
THEOREM ClearsWhatIsOver == Spec => []ClearedIsOver
<1>1. IInv => ClearedIsOver
    BY DEF IInv, RTACTypeOK, OverInv, Settled, ClearedIsOver
<1> QED BY <1>1, Invariance, PTL

\* A task reported finished is reported with all of its output (ssh.cpp:256).
THEOREM ReportsAllOutput == Spec => []FinishedIsComplete
<1>1. IInv => FinishedIsComplete
    BY DEF IInv, ReportInv, FinishedIsComplete
<1> QED BY <1>1, Invariance, PTL

(***************************************************************************)
(* What clients see: the list implements TaskList.                          *)
(***************************************************************************)
\* A session that was made stays in reach of tasks until it is cleared, and only a
\* command that the node was given, and that is not yet over, has output to read.
TaskInv ==
    \A s \in Sessions :
        /\ exec[s] # "none" => s \in list \cup deleted
        /\ shell[s] # "none" => ssh[s] \in {"reading", "closing", "done"}
        /\ shell[s] # "none" /\ ssh[s] \in {"reading", "closing"} =>
               status[s] = "ExecInProgress"

LEMMA TaskInvStep == IInv /\ TaskInv /\ [Next]_vars => TaskInv'
<1> SUFFICES ASSUME IInv, TaskInv, [Next]_vars PROVE TaskInv'
    OBVIOUS
<1> USE DEF TaskInv, opVars, nodeVars
<1>1. CASE UNCHANGED vars
    BY <1>1 DEF vars
<1>2. ASSUME NEW t \in Threads, Operation(t) PROVE TaskInv'
    <2>1. UNCHANGED <<ssh, shell, status>>
        BY <1>2 DEF Operation, CreateBegin, CreateSession, CreateEnd, ListBegin,
            ListMessage, ListOutput, ListEnd, ClearBegin, ClearSession, ClearEnd
    <2>2. \A s \in Sessions : exec'[s] # "none" => s \in list' \cup deleted'
        BY <1>2 DEF IInv, RTACTypeOK, Operation, CreateBegin, CreateSession, CreateEnd,
            ListBegin, ListMessage, ListOutput, ListEnd, ClearBegin, ClearSession, ClearEnd
    <2> QED BY <2>1, <2>2
<1>3. ASSUME NEW s \in Sessions, Session(s) PROVE TaskInv'
    <2>1. UNCHANGED <<list, deleted>>
        BY <1>3 DEF Session, SessionStep, ExecStart, ExecDetach, Connector, Executor,
            ExecCommand, Step, ReadChunk, NodeCat, NodeRun
    <2>2. /\ exec \in [Sessions -> {"none", "build", "detach", "done"}]
          /\ shell \in [Sessions -> {"none", "cat", "sh", "over"}]
          /\ ssh \in [Sessions -> {"none", "start", "connect", "errno", "session", "auth",
                                   "open", "channel", "reading", "closing", "done"}]
          /\ status \in [Sessions -> Going \cup Over]
        BY DEF IInv, RTACTypeOK
    <2>3. CASE ExecStart(s) \/ ExecDetach(s)
        BY <2>1, <2>2, <2>3 DEF ExecStart, ExecDetach, IInv, OverInv
    <2>4. CASE Connector(s)
        BY <2>1, <2>2, <2>4 DEF Connector, Step
    <2>5. CASE Executor(s)
        BY <2>1, <2>2, <2>5 DEF Executor, ExecCommand, ExecStatus, Step
    <2>6. CASE ReadChunk(s) \/ NodeCat(s) \/ NodeRun(s)
        BY <2>1, <2>2, <2>6 DEF ReadChunk, NodeCat, NodeRun
    <2> QED BY <1>3, <2>3, <2>4, <2>5, <2>6 DEF Session, SessionStep
<1> QED BY <1>1, <1>2, <1>3 DEF Next

Life == [s \in Sessions |-> LifeOf(s)]

\* Steps that leave every session where it was, or take one of them further.
LEMMA TaskStutters ==
    ASSUME \A s \in Sessions : LifeOf(s)' = LifeOf(s), output' = output
    PROVE  UNCHANGED Tasks!taskvars
BY DEF Tasks!taskvars

LEMMA TaskTurns ==
    ASSUME NEW s \in Sessions, NEW to, \A u \in Sessions \ {s} : LifeOf(u)' = LifeOf(u),
           LifeOf(s)' = to, output' = output
    PROVE  Tasks!Turn(s, LifeOf(s), to)
<1>1. Life' = [Life EXCEPT ![s] = to] /\ Life[s] = LifeOf(s)
    BY DEF Life
<1> QED BY <1>1 DEF Tasks!Turn, Life

\* exec_script and modify make sessions, clear_tasks clears them, tasks only looks.
LEMMA OperationRefines ==
    ASSUME IInv, TaskInv, NEW t \in Threads, Operation(t)
    PROVE  Tasks!TaskNext \/ UNCHANGED Tasks!taskvars
<1> USE DEF opVars, nodeVars
<1>1. output' = output /\ status' = status
    BY DEF Operation, CreateBegin, CreateSession, CreateEnd, ListBegin, ListMessage,
        ListOutput, ListEnd, ClearBegin, ClearSession, ClearEnd
<1>2. CASE UNCHANGED <<list, deleted>>
    BY <1>1, <1>2, TaskStutters DEF LifeOf
<1>3. ASSUME NEW s \in Sessions, NEW n \in Nodes, CreateSession(t, s, n)
      PROVE  Tasks!TaskNext
    <2>1. exec[s] = "none" /\ list' = list \cup {s} /\ deleted' = deleted
        BY <1>3 DEF CreateSession
    <2>2. s \notin list /\ s \notin deleted
        BY <2>1 DEF IInv, LoopInv
    <2>3. status[s] \notin Over
        BY <2>1 DEF IInv, OverInv, Settled
    <2>4. /\ LifeOf(s) = "none" /\ LifeOf(s)' = "going"
          /\ \A u \in Sessions \ {s} : LifeOf(u)' = LifeOf(u)
        BY <1>1, <2>1, <2>2, <2>3 DEF LifeOf
    <2>5. Tasks!Turn(s, "none", "going")
        BY <1>1, <2>4, TaskTurns
    <2> QED BY <2>5 DEF Tasks!TaskNext
<1>4. ASSUME NEW s \in Sessions, ClearSession(t, s), Clearable(s)
      PROVE  Tasks!TaskNext
    <2>1. s \in todo[t] /\ list' = list \ {s} /\ deleted' = deleted \cup {s}
        BY <1>4 DEF ClearSession
    <2>2. s \in list /\ s \notin deleted
        BY <2>1 DEF IInv, LoopInv
    <2>3. /\ LifeOf(s) = "over" /\ LifeOf(s)' = "cleared"
          /\ \A u \in Sessions \ {s} : LifeOf(u)' = LifeOf(u)
        BY <1>1, <1>4, <2>1, <2>2 DEF LifeOf, Clearable
    <2>4. Tasks!Turn(s, "over", "cleared")
        BY <1>1, <2>3, TaskTurns
    <2> QED BY <2>4 DEF Tasks!TaskNext
<1>5. CASE \A s \in Sessions : ~(\E n \in Nodes : CreateSession(t, s, n))
              /\ ~(ClearSession(t, s) /\ Clearable(s))
    BY <1>2, <1>5 DEF Operation, CreateBegin, CreateEnd, ListBegin, ListMessage,
        ListOutput, ListEnd, ClearBegin, ClearSession, ClearEnd
<1> QED BY <1>3, <1>4, <1>5

\* A session goes on, gathers output, and is over once and for all.
LEMMA SessionRefines ==
    ASSUME IInv, TaskInv, NEW s \in Sessions, Session(s)
    PROVE  Tasks!TaskNext \/ UNCHANGED Tasks!taskvars
<1> USE DEF opVars, nodeVars
<1>1. /\ list' = list /\ deleted' = deleted
      /\ status \in [Sessions -> Going \cup Over] /\ output \in [Sessions -> 0 .. MaxChunks]
    BY DEF IInv, RTACTypeOK, Session, SessionStep, ExecStart, ExecDetach, Connector, Executor,
        ExecCommand, Step, ReadChunk, NodeCat, NodeRun
<1>2. CASE ReadChunk(s)
    <2>1. /\ ssh[s] = "reading" /\ shell[s] # "none" /\ status' = status
          /\ output' = [output EXCEPT ![s] = @ + 1]
        BY <1>2 DEF ReadChunk, NodeSends
    <2>2. status[s] = "ExecInProgress" /\ exec[s] # "none"
        BY <2>1 DEF TaskInv, IInv, OverInv
    <2>3. s \in list /\ s \notin deleted
        BY <2>2 DEF TaskInv, IInv, OverInv, Over
    <2>4. LifeOf(s) = "going" /\ \A u \in Sessions : LifeOf(u)' = LifeOf(u)
        BY <1>1, <2>1, <2>2, <2>3 DEF LifeOf, Over
    <2>5. Life[s] = "going" /\ Life' = Life
        BY <2>4 DEF Life
    <2>6. Tasks!Gather(s)
        BY <2>1, <2>5 DEF Tasks!Gather, Life
    <2> QED BY <2>6 DEF Tasks!TaskNext
<1>3. CASE ExecStart(s) \/ ExecDetach(s) \/ NodeCat(s) \/ NodeRun(s)
    <2>1. status' = status /\ output' = output
        BY <1>3 DEF ExecStart, ExecDetach, NodeCat, NodeRun
    <2> QED BY <1>1, <2>1, TaskStutters DEF LifeOf
<1>4. CASE Connector(s) \/ Executor(s)
    <2>1. /\ output' = output /\ ssh[s] # "none" /\ ssh[s] # "done"
          /\ \A u \in Sessions \ {s} : status'[u] = status[u]
        BY <1>1, <1>4 DEF Connector, Executor, ExecCommand, Step
    <2>2. \A u \in Sessions \ {s} : LifeOf(u)' = LifeOf(u)
        BY <1>1, <2>1 DEF LifeOf
    <2>3. status[s] \in Over => status'[s] \in Over
        BY <1>1, <1>4 DEF IInv, OverInv, Settled, Connector, Executor, ExecCommand, Step,
            Over, AuthStatus
    <2>4. CASE s \in deleted \/ s \notin list \/ (status[s] \in Over <=> status'[s] \in Over)
        <3>1. LifeOf(s)' = LifeOf(s)
            BY <1>1, <2>4 DEF LifeOf
        <3> QED BY <2>1, <2>2, <3>1, TaskStutters
    <2>5. CASE s \in list /\ s \notin deleted /\ status[s] \notin Over /\ status'[s] \in Over
        <3>1. LifeOf(s) = "going" /\ LifeOf(s)' = "over"
            BY <1>1, <2>5 DEF LifeOf
        <3>2. Tasks!Turn(s, "going", "over")
            BY <2>1, <2>2, <3>1, TaskTurns
        <3> QED BY <3>2 DEF Tasks!TaskNext
    <2> QED BY <2>3, <2>4, <2>5
<1> QED BY <1>2, <1>3, <1>4 DEF Session, SessionStep

LEMMA StepRefines ==
    IInv /\ TaskInv /\ [Next]_vars => [Tasks!TaskNext]_(Tasks!taskvars)
<1> SUFFICES ASSUME IInv, TaskInv, [Next]_vars
             PROVE  Tasks!TaskNext \/ UNCHANGED Tasks!taskvars
    OBVIOUS
<1>1. CASE UNCHANGED vars
    <2>1. UNCHANGED <<list, deleted, status, output>>
        BY <1>1 DEF vars, opVars
    <2> QED BY <2>1, TaskStutters DEF LifeOf
<1> QED BY <1>1, OperationRefines, SessionRefines DEF Next

LEMMA InitRefines == Init => Tasks!TaskInit
<1> SUFFICES ASSUME Init PROVE Tasks!TaskInit
    OBVIOUS
<1>1. \A s \in Sessions : LifeOf(s) = "none"
    BY DEF Init, LifeOf
<1> QED BY <1>1 DEF Init, Tasks!TaskInit

\* What tasks lists of a session that is over stays as it is until clear_tasks, which
\* takes nothing else from the list (ssh.cpp:65-256, supertac.cpp:287-297).
THEOREM TaskListImplemented == Spec => ImplementsTaskList
<1>1. Init => TaskInv
    BY DEF Init, TaskInv
<1> QED BY <1>1, InitRefines, TaskInvStep, StepRefines, Invariance, PTL
        DEF Spec, ImplementsTaskList, Tasks!TaskSpec
=============================================================================
