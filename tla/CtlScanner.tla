------------------------------ MODULE CtlScanner ------------------------------
(***************************************************************************)
(* The controller scanner (Operations/ctl_scanner.cpp).  Op scan takes        *)
(* GlobalLock with try_lock, fills in the globals and starts a detached        *)
(* thread, which probes the addresses of the range in batches, counts as       *)
(* libevent tells it how each attempt ended, and gives the lock back.          *)
(* Requests that are rejected after try_lock keep the lock.                  *)
(*                                                                         *)
(* Ops status and result read the globals without a lock; a result is torn     *)
(* when the thread appends to foundlist at that moment, which is not modelled.  *)
(* Neither is a pthread_create that fails, whose result the code ignores.      *)
(***************************************************************************)
EXTENDS Integers, Sequences, FiniteSets, Functions

CONSTANTS
    Callers,        \* connection threads that call op scan, and their scanners
    MaxAddr,        \* bound: addresses are 0 .. MaxAddr
    BatchLimit,     \* 48 in the code: addresses opened before a dispatch
    MaxScans        \* bound: scans accepted

ASSUME ScannerAssumption ==
    MaxAddr \in Nat /\ BatchLimit \in Nat /\ MaxScans \in Nat

VARIABLES
    locked,     \* GlobalLock is taken
    rejected,   \* history: a request was rejected with the lock held
    scans,      \* history: scans accepted
    pc,         \* pc[t]: where caller t is in op scan, or the scanner it started
    ipst, iped, curnode,            \* the range and the address to try next
    ccnt, cuccnt, valid_cnt,        \* addresses to try, tried, found
    left,       \* turns the loop still has to make: ccnt - i
    batch,      \* sb_libev_workaround
    conns,      \* attempts that libevent has still to report
    foundlist,
    scan_status, scan_rc

counters == <<ccnt, cuccnt, valid_cnt, foundlist>>
range == <<ipst, iped>>
vars == <<locked, rejected, scans, pc, range, curnode, counters, left, batch,
          conns, scan_status, scan_rc>>

Addresses == 0 .. MaxAddr

ScannerTypeOK ==
    /\ locked \in BOOLEAN /\ rejected \in BOOLEAN /\ scans \in 0 .. MaxScans
    /\ pc \in [Callers -> {"idle", "check", "init", "loop", "batch", "drain", "status", "unlock"}]
    /\ ipst \in Addresses /\ iped \in Addresses /\ curnode \in Addresses
    /\ ccnt \in Addresses /\ cuccnt \in Addresses /\ valid_cnt \in Addresses
    /\ left \in Addresses /\ batch \in 0 .. BatchLimit + 1
    /\ conns \subseteq Addresses
    /\ foundlist \in Seq(Addresses)
    /\ scan_status \in {0, 1} /\ scan_rc \in {-1, 0, 2}

Init ==
    /\ locked = FALSE /\ rejected = FALSE /\ scans = 0
    /\ pc = [t \in Callers |-> "idle"]
    /\ ipst = 0 /\ iped = 0 /\ curnode = 0
    /\ ccnt = 0 /\ cuccnt = 0 /\ valid_cnt = 0
    /\ left = 0 /\ batch = 0
    /\ conns = {}
    /\ foundlist = <<>>
    /\ scan_status = 0 /\ scan_rc = -1

Goto(t, l) == pc' = [pc EXCEPT ![t] = l]

(***************************************************************************)
(* Op scan.                                                                *)
(***************************************************************************)
\* Bug: the lock is not tried.
BugMayScan == TRUE

MayScan == ~locked

\* try_lock(); a request that fails here answers 666 and changes nothing.
TryLock(t) ==
    /\ pc[t] = "idle"
    /\ MayScan
    /\ scans < MaxScans
    /\ locked' = TRUE
    /\ Goto(t, "check")
    /\ UNCHANGED <<rejected, scans, range, curnode, counters, left, batch, conns,
                   scan_status, scan_rc>>

\* An address is missing: return -1, with the lock.
RejectArguments(t) ==
    /\ pc[t] = "check"
    /\ rejected' = TRUE
    /\ Goto(t, "idle")
    /\ UNCHANGED <<locked, scans, range, curnode, counters, left, batch, conns,
                   scan_status, scan_rc>>

\* The range is empty: return 233, with the lock.
RejectRange(t, a, b) ==
    /\ pc[t] = "check"
    /\ a >= b
    /\ ipst' = a /\ iped' = b
    /\ rejected' = TRUE
    /\ Goto(t, "idle")
    /\ UNCHANGED <<locked, scans, curnode, counters, left, batch, conns,
                   scan_status, scan_rc>>

Accept(t, a, b) ==
    /\ pc[t] = "check"
    /\ a < b
    /\ ipst' = a /\ iped' = b
    /\ scans' = scans + 1
    /\ scan_status' = 1
    /\ Goto(t, "init")
    /\ UNCHANGED <<locked, rejected, curnode, counters, left, batch, conns, scan_rc>>

(***************************************************************************)
(* The scanner thread.                                                     *)
(***************************************************************************)
\* Bug: the results of the last scan are kept.
BugCleared == foundlist

Cleared == <<>>

\* The range is not empty, so the branch for ccnt < 1 is never taken.
ScanInit(t) ==
    /\ pc[t] = "init"
    /\ cuccnt' = 0 /\ valid_cnt' = 0
    /\ foundlist' = Cleared
    /\ ccnt' = iped - ipst
    /\ left' = iped - ipst
    /\ curnode' = ipst
    /\ batch' = 0
    /\ Goto(t, "loop")
    /\ UNCHANGED <<locked, rejected, scans, range, conns, scan_status, scan_rc>>

\* event_base_new fails: the thread gives up, the range is not scanned.
NoEventBase(t) ==
    /\ pc[t] = "init"
    /\ cuccnt' = 0 /\ valid_cnt' = 0
    /\ foundlist' = Cleared
    /\ ccnt' = iped - ipst
    /\ scan_rc' = 2
    /\ Goto(t, "status")
    /\ UNCHANGED <<locked, rejected, scans, range, curnode, left, batch, conns,
                   scan_status>>

\* Bug: an attempt that fails at once is not counted.
BugFailedAtOnce == cuccnt

FailedAtOnce == cuccnt + 1

\* Bug: the loop makes one turn too many.
BugMoreToTry == left >= 0

MoreToTry == left > 0

\* One turn of the loop: the attempt is under way or has failed at once.
Probe(t) ==
    /\ pc[t] = "loop"
    /\ MoreToTry
    /\ batch <= BatchLimit
    /\ \/ conns' = conns \cup {curnode} /\ UNCHANGED cuccnt
       \/ cuccnt' = FailedAtOnce /\ UNCHANGED conns
    /\ curnode' = curnode + 1
    /\ left' = left - 1
    /\ batch' = batch + 1
    /\ UNCHANGED <<locked, rejected, scans, pc, range, ccnt, valid_cnt, foundlist,
                   scan_status, scan_rc>>

BatchFull(t) ==
    /\ pc[t] = "loop"
    /\ MoreToTry
    /\ batch > BatchLimit
    /\ Goto(t, "batch")
    /\ UNCHANGED <<locked, rejected, scans, range, curnode, counters, left, batch,
                   conns, scan_status, scan_rc>>

\* Bug: the batch counter is not reset.
BugNewBatch == batch

NewBatch == 0

BatchDone(t) ==
    /\ pc[t] = "batch"
    /\ conns = {}
    /\ batch' = NewBatch
    /\ Goto(t, "loop")
    /\ UNCHANGED <<locked, rejected, scans, range, curnode, counters, left, conns,
                   scan_status, scan_rc>>

LoopDone(t) ==
    /\ pc[t] = "loop"
    /\ ~MoreToTry
    /\ Goto(t, "drain")
    /\ UNCHANGED <<locked, rejected, scans, range, curnode, counters, left, batch,
                   conns, scan_status, scan_rc>>

\* event_cb: connected or closed by the peer; anything else.
Found(a) ==
    /\ foundlist' = Append(foundlist, a)
    /\ valid_cnt' = valid_cnt + 1

Event(t, a) ==
    /\ pc[t] \in {"batch", "drain"}
    /\ a \in conns
    /\ Found(a) \/ UNCHANGED <<foundlist, valid_cnt>>
    /\ cuccnt' = cuccnt + 1
    /\ conns' = conns \ {a}
    /\ UNCHANGED <<locked, rejected, scans, pc, range, curnode, ccnt, left, batch,
                   scan_status, scan_rc>>

DrainDone(t) ==
    /\ pc[t] = "drain"
    /\ conns = {}
    /\ scan_rc' = 0
    /\ Goto(t, "status")
    /\ UNCHANGED <<locked, rejected, scans, range, curnode, counters, left, batch,
                   conns, scan_status>>

SetStatus(t) ==
    /\ pc[t] = "status"
    /\ scan_status' = 0
    /\ Goto(t, "unlock")
    /\ UNCHANGED <<locked, rejected, scans, range, curnode, counters, left, batch,
                   conns, scan_rc>>

\* Bug: the thread ends without giving the lock back.
BugReleased == TRUE

Released == FALSE

Unlock(t) ==
    /\ pc[t] = "unlock"
    /\ locked' = Released
    /\ Goto(t, "idle")
    /\ UNCHANGED <<rejected, scans, range, curnode, counters, left, batch, conns,
                   scan_status, scan_rc>>

Scanner(t) ==
    \/ ScanInit(t) \/ NoEventBase(t) \/ Probe(t) \/ BatchFull(t) \/ BatchDone(t)
    \/ LoopDone(t)
    \/ \E a \in conns : Event(t, a)
    \/ DrainDone(t) \/ SetStatus(t) \/ Unlock(t)

Next ==
    \E t \in Callers :
        \/ TryLock(t) \/ RejectArguments(t)
        \/ \E a, b \in Addresses : RejectRange(t, a, b) \/ Accept(t, a, b)
        \/ Scanner(t)

Spec == Init /\ [][Next]_vars

\* The scanner thread is scheduled; every attempt ends after 7 seconds.
FairSpec == Spec /\ \A t \in Callers : WF_vars(Scanner(t))

(***************************************************************************)
(* Properties.                                                             *)
(***************************************************************************)
Scanning(t) == pc[t] \in {"init", "loop", "batch", "drain", "status", "unlock"}

\* The globals belong to one scan at a time, whatever is requested meanwhile:
\* while a scanner runs no other request gets past try_lock, although the lock
\* was taken by the thread that answered the request long ago.
OneScan ==
    \A t \in Callers : Scanning(t) => \A u \in Callers \ {t} : pc[u] = "idle"

\* Every address is accounted for once: tried, under way or still to come; so
\* cuccnt comes to ccnt, which is what clients take for the end of the scan.
AllCounted ==
    \A t \in Callers : pc[t] \in {"loop", "batch", "drain"} =>
        ccnt = cuccnt + Cardinality(conns) + left

\* What is found is in the range asked for, once, and as many as valid_cnt
\* says, also when an earlier scan found something else.
FoundInRange ==
    \A t \in Callers : pc[t] \in {"loop", "batch", "drain", "status", "unlock"} =>
        /\ valid_cnt = Len(foundlist)
        /\ IsInjective(foundlist)
        /\ \A i \in DOMAIN foundlist : foundlist[i] \in ipst .. iped - 1

\* The lock is taken only by a request under way or a scanner, unless an earlier
\* request was rejected with it.
LockHasOwner == locked => rejected \/ \E t \in Callers : pc[t] # "idle"

In(places) == \E t \in Callers : pc[t] \in places

Working == {"loop", "batch", "drain"}

Job == INSTANCE ScanJob
    WITH phase <- IF In({"init"}) THEN "accepted"
                  ELSE IF In(Working) THEN "running"
                  ELSE IF In({"status", "unlock"}) THEN "over" ELSE "none",
         asked <- IF In({"init", "status", "unlock"} \cup Working) THEN ipst .. iped - 1 ELSE {},
         untried <- IF In(Working) THEN conns \cup (curnode .. curnode + left - 1) ELSE {},
         found <- Range(foundlist), total <- ccnt, tried <- cuccnt

\* To its clients a scan is the one of ScanJob: whatever the batches, the attempts
\* that fail at once and the order of events, no address of the range is left out
\* or tried twice, and one that was found stays found until the next scan begins.
ImplementsScanJob == Job!JobSpec

\* What the scanner thread of t has still to do: each address is 5 steps at most,
\* one to try it, one for its event, and 2 around the dispatch of a full batch.
StepsAfter ==
    [idle |-> 0, check |-> 0, unlock |-> 1, status |-> 2, drain |-> 3, loop |-> 4,
     batch |-> 5, init |-> 5]

StepsLeft(t) ==
    StepsAfter[pc[t]]
        + (IF pc[t] = "init" THEN 5 * (iped - ipst) ELSE 0)
        + (IF pc[t] \in Working THEN 5 * left + Cardinality(conns) ELSE 0)
        + (IF pc[t] = "loop" /\ batch > BatchLimit THEN 2 ELSE 0)

\* While a scan runs every step of the program brings it nearer its end: it takes
\* at most 5 steps per address and 5 more, however often a batch is full.
ScanAdvances ==
    [][\A t \in Callers : Scanning(t) => StepsLeft(t)' < StepsLeft(t)]_vars

\* A scan that was accepted ends and says so: every address was tried, or scan_rc
\* tells that none was.
ScanEnds ==
    \A t \in Callers : (pc[t] = "init") ~> (pc[t] = "idle" /\ scan_status = 0
        /\ IF scan_rc = 2 THEN cuccnt = 0 ELSE cuccnt = ccnt)
=============================================================================
