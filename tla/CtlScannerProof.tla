--------------------------- MODULE CtlScannerProof ---------------------------
(***************************************************************************)
(* Proofs about CtlScanner: what holds for every number of callers, every    *)
(* range and every batch size, checked by TLAPS.                            *)
(***************************************************************************)
EXTENDS CtlScanner, FiniteSetTheorems, TLAPS

\* Who is past try_lock has the lock, alone.
LockInv ==
    \A t \in Callers : pc[t] # "idle" =>
        locked /\ \A u \in Callers \ {t} : pc[u] = "idle"

\* A range that was accepted is not empty.
RangeInv == \A t \in Callers : Scanning(t) => ipst < iped

\* Attempts are under way only while a scanner probes.
QuietInv == (\A t \in Callers : pc[t] \notin Working) => conns = {}

\* The loop goes through the range in order, and no address is at once under way
\* and found.
WorkInv ==
    \A t \in Callers : pc[t] \in Working =>
        /\ ccnt = iped - ipst
        /\ curnode + left = iped
        /\ conns \subseteq ipst .. curnode - 1
        /\ ccnt = cuccnt + Cardinality(conns) + left
        /\ valid_cnt <= cuccnt
        /\ \A i \in DOMAIN foundlist :
               foundlist[i] \in ipst .. curnode - 1 /\ foundlist[i] \notin conns

\* A request under way may still be accepted: the bound on scans is met early.
BoundInv == \A t \in Callers : pc[t] = "check" => scans < MaxScans

IInv ==
    ScannerTypeOK /\ LockInv /\ RangeInv /\ QuietInv /\ WorkInv /\ FoundInRange
    /\ LockHasOwner /\ BoundInv

(***************************************************************************)
(* Lemmas.                                                                 *)
(***************************************************************************)
LEMMA AddressIs ==
    MaxAddr \in Nat /\ \A n : n \in Addresses <=> n \in Nat /\ n <= MaxAddr
BY ScannerAssumption DEF Addresses

LEMMA Numbers ==
    ASSUME ScannerTypeOK
    PROVE  /\ ipst \in Nat /\ iped \in Nat /\ curnode \in Nat /\ ccnt \in Nat
           /\ cuccnt \in Nat /\ valid_cnt \in Nat /\ left \in Nat /\ MaxAddr \in Nat
           /\ iped <= MaxAddr
BY AddressIs DEF ScannerTypeOK

\* Attempts under way are finitely many.
LEMMA FiniteConns ==
    ASSUME ScannerTypeOK
    PROVE  IsFiniteSet(conns) /\ Cardinality(conns) \in Nat
<1>1. IsFiniteSet(Addresses)
    BY ScannerAssumption, FS_Interval DEF Addresses
<1>2. IsFiniteSet(conns)
    BY <1>1, FS_Subset DEF ScannerTypeOK
<1>3. Cardinality(conns) \in Nat
    BY <1>2, FS_CardinalityType
<1> QED BY <1>2, <1>3

\* Appending what was not found before keeps a list without repetitions.
LEMMA AppendInjective ==
    ASSUME NEW S, NEW s \in Seq(S), NEW a \in S, IsInjective(s),
           \A i \in DOMAIN s : s[i] # a
    PROVE  IsInjective(Append(s, a))
BY DEF IsInjective

LEMMA InitIInv == Init => IInv
<1> SUFFICES ASSUME Init PROVE IInv
    OBVIOUS
<1>1. ScannerTypeOK
    <2>1. foundlist \in Seq(Addresses) /\ 0 \in Addresses
        BY AddressIs DEF Init
    <2>2. batch \in 0 .. BatchLimit + 1 /\ scans \in 0 .. MaxScans
        BY ScannerAssumption DEF Init
    <2> QED BY <2>1, <2>2 DEF Init, ScannerTypeOK
<1>2. LockInv /\ RangeInv /\ QuietInv /\ WorkInv /\ FoundInRange /\ LockHasOwner /\ BoundInv
    BY DEF Init, LockInv, RangeInv, QuietInv, WorkInv, FoundInRange, LockHasOwner,
        BoundInv, Scanning, Working
<1> QED BY <1>1, <1>2 DEF IInv

(***************************************************************************)
(* Op scan.                                                                *)
(***************************************************************************)
\* Nobody is past try_lock when it succeeds, and a request that is not yet
\* accepted leaves the results of the last scan alone.
LEMMA RequestStep ==
    ASSUME IInv, NEW t \in Callers,
           \/ TryLock(t) \/ RejectArguments(t)
           \/ \E a, b \in Addresses : RejectRange(t, a, b) \/ Accept(t, a, b)
    PROVE  IInv'
<1> USE DEF IInv, BoundInv, vars, counters, range, Goto
<1>1. conns = {} /\ \A u \in Callers \ {t} : pc[u] = "idle"
    BY DEF LockInv, QuietInv, Working, TryLock, MayScan, RejectArguments, RejectRange,
        Accept
<1>2. CASE TryLock(t)
    BY <1>1, <1>2 DEF TryLock, ScannerTypeOK, LockInv, RangeInv, QuietInv, WorkInv,
        FoundInRange, LockHasOwner, Scanning, Working
<1>3. CASE RejectArguments(t)
    BY <1>1, <1>3 DEF RejectArguments, ScannerTypeOK, LockInv, RangeInv, QuietInv,
        WorkInv, FoundInRange, LockHasOwner, Scanning, Working
<1>4. CASE \E a, b \in Addresses : RejectRange(t, a, b)
    BY <1>1, <1>4 DEF RejectRange, ScannerTypeOK, LockInv, RangeInv, QuietInv,
        WorkInv, FoundInRange, LockHasOwner, Scanning, Working
<1>5. CASE \E a, b \in Addresses : Accept(t, a, b)
    <2>1. PICK a, b \in Addresses : Accept(t, a, b)
        BY <1>5
    <2>2. ScannerTypeOK'
        BY <2>1, ScannerAssumption DEF Accept, ScannerTypeOK
    <2> QED
        BY <1>1, <2>1, <2>2 DEF Accept, ScannerTypeOK, LockInv, RangeInv, QuietInv,
            WorkInv, FoundInRange, LockHasOwner, Scanning, Working
<1> QED BY <1>2, <1>3, <1>4, <1>5
(***************************************************************************)
(* The scanner thread.                                                     *)
(***************************************************************************)
\* Starting a scan.
LEMMA StartStep ==
    ASSUME IInv, NEW t \in Callers, ScanInit(t) \/ NoEventBase(t)
    PROVE  IInv'
<1> USE DEF IInv, BoundInv, vars, counters, range, Goto
<1>1. conns = {} /\ ipst < iped /\ \A u \in Callers \ {t} : pc[u] = "idle"
    BY DEF LockInv, QuietInv, RangeInv, Scanning, Working, ScanInit, NoEventBase
<1>2. ScannerTypeOK'
    <2>1. iped - ipst \in Addresses
        <3>1. iped - ipst \in Nat /\ iped - ipst <= MaxAddr
            BY <1>1, Numbers
        <3> QED BY <3>1, AddressIs
    <2> 0 \in Addresses
        BY AddressIs
    <2>2. CASE ScanInit(t)
        BY <2>1, <2>2, ScannerAssumption DEF ScanInit, Cleared, ScannerTypeOK
    <2>3. CASE NoEventBase(t)
        BY <2>1, <2>3 DEF NoEventBase, Cleared, ScannerTypeOK
    <2> QED BY <2>2, <2>3
<1>3. LockInv' /\ RangeInv' /\ QuietInv' /\ LockHasOwner' /\ BoundInv'
    BY <1>1 DEF ScanInit, NoEventBase, ScannerTypeOK, LockInv, RangeInv, QuietInv,
        LockHasOwner, Scanning, Working
<1>4. FoundInRange'
    BY <1>1 DEF ScanInit, NoEventBase, Cleared, ScannerTypeOK, FoundInRange, IsInjective
<1>5. WorkInv'
    <2>1. CASE ScanInit(t)
        <3>1. Cardinality({}) = 0 /\ conns' = {} /\ foundlist' = <<>>
            BY <1>1, <2>1, FS_EmptySet DEF ScanInit, Cleared
        <3>2. /\ ccnt' = iped' - ipst' /\ curnode' + left' = iped'
              /\ ccnt' = cuccnt' + 0 + left' /\ valid_cnt' <= cuccnt'
            BY <1>1, <2>1, Numbers DEF ScanInit
        <3> QED BY <3>1, <3>2 DEF WorkInv
    <2>2. CASE NoEventBase(t)
        BY <1>1, <2>2 DEF NoEventBase, ScannerTypeOK, WorkInv, Working
    <2> QED BY <2>1, <2>2
<1> QED BY <1>2, <1>3, <1>4, <1>5

\* A turn of the loop: the address is new, so the attempts under way and the list
\* of what was found stay disjoint.
LEMMA ProbeStep ==
    ASSUME IInv, NEW t \in Callers, Probe(t)
    PROVE  IInv'
<1> USE DEF IInv, BoundInv, vars, counters, range, Goto
<1>1. /\ pc[t] = "loop" /\ pc' = pc /\ left > 0
      /\ \A u \in Callers \ {t} : pc[u] = "idle"
    BY DEF LockInv, Probe, MoreToTry
<1>2. /\ ccnt = iped - ipst /\ curnode + left = iped
      /\ conns \subseteq ipst .. curnode - 1
      /\ ccnt = cuccnt + Cardinality(conns) + left
      /\ valid_cnt <= cuccnt
      /\ \A i \in DOMAIN foundlist :
             foundlist[i] \in ipst .. curnode - 1 /\ foundlist[i] \notin conns
    BY <1>1 DEF WorkInv, Working
<1>3. /\ Cardinality(conns \cup {curnode}) = Cardinality(conns) + 1
      /\ Cardinality(conns) \in Nat
    <2>1. curnode \notin conns
        BY <1>2 DEF ScannerTypeOK, Addresses
    <2> QED BY <2>1, FiniteConns, FS_AddElement
<1>4. ScannerTypeOK'
    <2>1. /\ curnode + 1 \in Nat /\ curnode + 1 <= MaxAddr
          /\ left - 1 \in Nat /\ left - 1 <= MaxAddr
          /\ cuccnt + 1 \in Nat /\ cuccnt + 1 <= MaxAddr
        BY <1>1, <1>2, <1>3, Numbers
    <2>2. curnode + 1 \in Addresses /\ left - 1 \in Addresses /\ cuccnt + 1 \in Addresses
        BY <2>1, AddressIs
    <2>3. batch' \in 0 .. BatchLimit + 1
        BY ScannerAssumption DEF Probe, ScannerTypeOK
    <2>4. conns' \subseteq Addresses
        BY DEF Probe, ScannerTypeOK
    <2> QED BY <1>1, <2>2, <2>3, <2>4 DEF Probe, FailedAtOnce, ScannerTypeOK
<1>5. LockInv' /\ RangeInv' /\ QuietInv' /\ LockHasOwner' /\ BoundInv'
    BY <1>1 DEF Probe, LockInv, RangeInv, QuietInv, LockHasOwner, Scanning, Working
<1>6. FoundInRange'
    BY DEF Probe, FoundInRange
<1>7. WorkInv'
    <2>1. /\ curnode' = curnode + 1 /\ left' = left - 1 /\ ccnt' = ccnt /\ iped' = iped
          /\ ipst' = ipst /\ valid_cnt' = valid_cnt /\ foundlist' = foundlist
        BY DEF Probe
    <2>2. \/ cuccnt' = cuccnt /\ conns' = conns \cup {curnode}
          \/ cuccnt' = cuccnt + 1 /\ conns' = conns
        BY DEF Probe, FailedAtOnce
    <2>3. /\ conns' \subseteq ipst .. curnode
          /\ \A i \in DOMAIN foundlist :
                 foundlist[i] \in ipst .. curnode /\ foundlist[i] \notin conns'
        <3>1. ipst <= curnode
            BY <1>2, <1>3, Numbers
        <3>2. curnode \in ipst .. curnode /\ \A n \in ipst .. curnode - 1 :
                n \in ipst .. curnode /\ n # curnode
            BY <3>1, Numbers
        <3> QED BY <1>2, <2>2, <3>2
    <2>4. ccnt' = cuccnt' + Cardinality(conns') + left' /\ valid_cnt' <= cuccnt'
        <3>1. CASE cuccnt' = cuccnt /\ conns' = conns \cup {curnode}
            <4>1. Cardinality(conns') = Cardinality(conns) + 1
                BY <1>3, <3>1
            <4> QED BY <1>2, <1>3, <2>1, <3>1, <4>1, Numbers
        <3>2. CASE cuccnt' = cuccnt + 1 /\ conns' = conns
            <4>1. Cardinality(conns') = Cardinality(conns)
                BY <3>2
            <4> QED BY <1>2, <1>3, <2>1, <3>2, <4>1, Numbers
        <3> QED BY <2>2, <3>1, <3>2
    <2>5. curnode' - 1 = curnode /\ curnode' + left' = iped'
        BY <1>2, <2>1, Numbers
    <2> QED BY <1>2, <2>1, <2>3, <2>4, <2>5 DEF WorkInv
<1> QED BY <1>4, <1>5, <1>6, <1>7

\* libevent reports an attempt: it was under way, so it was not found before.
LEMMA EventStep ==
    ASSUME IInv, NEW t \in Callers, NEW a \in conns, Event(t, a)
    PROVE  IInv'
<1> USE DEF IInv, BoundInv, vars, counters, range, Goto
<1>1. /\ pc[t] \in {"batch", "drain"} /\ pc' = pc /\ a \in Addresses
      /\ \A u \in Callers \ {t} : pc[u] = "idle"
    BY DEF LockInv, Event, ScannerTypeOK
<1>2. /\ ccnt = iped - ipst /\ curnode + left = iped
      /\ conns \subseteq ipst .. curnode - 1
      /\ ccnt = cuccnt + Cardinality(conns) + left
      /\ valid_cnt <= cuccnt
      /\ \A i \in DOMAIN foundlist :
             foundlist[i] \in ipst .. curnode - 1 /\ foundlist[i] \notin conns
    BY <1>1 DEF WorkInv, Working
<1>3. /\ Cardinality(conns \ {a}) = Cardinality(conns) - 1
      /\ Cardinality(conns) \in Nat /\ Cardinality(conns \ {a}) \in Nat
    <2>1. IsFiniteSet(conns \ {a})
        BY FiniteConns, FS_RemoveElement
    <2> QED BY <2>1, FiniteConns, FS_RemoveElement, FS_CardinalityType
<1>4. valid_cnt = Len(foundlist) /\ IsInjective(foundlist)
    BY <1>1 DEF FoundInRange
<1>5. /\ valid_cnt' \in Nat /\ valid_cnt' <= cuccnt'
      /\ foundlist' \in Seq(Addresses)
      /\ valid_cnt' = Len(foundlist')
      /\ \A i \in DOMAIN foundlist' :
             foundlist'[i] \in ipst .. curnode - 1 /\ foundlist'[i] \notin conns'
    <2>1. valid_cnt \in Nat /\ cuccnt \in Nat /\ foundlist \in Seq(Addresses)
        BY AddressIs DEF ScannerTypeOK
    <2>2. CASE Found(a)
        <3>1. foundlist' = Append(foundlist, a) /\ valid_cnt' = valid_cnt + 1
            BY <2>2 DEF Found
        <3>2. cuccnt' = cuccnt + 1 /\ conns' = conns \ {a}
            BY DEF Event
        <3>3. \A i \in DOMAIN foundlist' : foundlist'[i] = a \/ (i \in DOMAIN foundlist
                /\ foundlist'[i] = foundlist[i])
            BY <1>1, <2>1, <3>1
        <3> QED BY <1>1, <1>2, <1>4, <2>1, <3>1, <3>2, <3>3
    <2>3. CASE UNCHANGED <<foundlist, valid_cnt>>
        BY <1>2, <1>4, <2>1, <2>3 DEF Event
    <2> QED BY <2>2, <2>3 DEF Event
<1>6. IsInjective(foundlist')
    <2>1. CASE Found(a)
        <3>1. foundlist \in Seq(Addresses) /\ \A i \in DOMAIN foundlist : foundlist[i] # a
            BY <1>2 DEF ScannerTypeOK
        <3> QED BY <1>1, <1>4, <2>1, <3>1, AppendInjective DEF Found
    <2>2. CASE UNCHANGED <<foundlist, valid_cnt>>
        BY <1>4, <2>2
    <2> QED BY <2>1, <2>2 DEF Event
<1>7. ScannerTypeOK'
    <2>1. cuccnt + 1 \in Nat /\ cuccnt + 1 <= MaxAddr /\ valid_cnt' <= MaxAddr
        <3>1. cuccnt' = cuccnt + 1
            BY DEF Event
        <3>2. Cardinality(conns) - 1 \in Nat
            BY <1>3
        <3>3. cuccnt + 1 <= ccnt /\ ccnt <= MaxAddr
            BY <1>2, <1>3, <3>2, Numbers
        <3> QED BY <1>5, <3>1, <3>3, Numbers
    <2>2. cuccnt + 1 \in Addresses /\ valid_cnt' \in Addresses
        BY <1>5, <2>1, AddressIs
    <2> QED BY <1>1, <1>5, <2>2 DEF Event, ScannerTypeOK
<1>8. LockInv' /\ RangeInv' /\ QuietInv' /\ LockHasOwner' /\ BoundInv'
    BY <1>1 DEF Event, LockInv, RangeInv, QuietInv, LockHasOwner, Scanning, Working
<1>9. FoundInRange'
    <2>1. /\ ipst' = ipst /\ iped' = iped
          /\ \A n \in ipst .. curnode - 1 : n \in ipst .. iped - 1
        BY <1>2, Numbers DEF Event
    <2> QED BY <1>5, <1>6, <2>1 DEF FoundInRange
<1>10. WorkInv'
    <2>1. /\ curnode' = curnode /\ left' = left /\ ccnt' = ccnt /\ iped' = iped
          /\ ipst' = ipst /\ cuccnt' = cuccnt + 1 /\ conns' = conns \ {a}
        BY DEF Event
    <2>2. ccnt' = cuccnt' + Cardinality(conns') + left'
        BY <1>2, <1>3, <2>1, Numbers
    <2> QED BY <1>2, <1>5, <2>1, <2>2 DEF WorkInv
<1> QED BY <1>7, <1>8, <1>9, <1>10

\* The steps that only move the thread on: no address is under way when it leaves
\* the loop for good.
LEMMA MoveStep ==
    ASSUME IInv, NEW t \in Callers,
           \/ BatchFull(t) \/ BatchDone(t) \/ LoopDone(t)
           \/ DrainDone(t) \/ SetStatus(t) \/ Unlock(t)
    PROVE  IInv'
<1> USE DEF IInv, BoundInv, vars, counters, range, Goto
<1>1. \A u \in Callers \ {t} : pc[u] = "idle"
    BY DEF LockInv, BatchFull, BatchDone, LoopDone, DrainDone, SetStatus, Unlock
<1>2. ScannerTypeOK'
    <2>1. CASE BatchFull(t) \/ LoopDone(t)
        BY <2>1 DEF BatchFull, LoopDone, ScannerTypeOK
    <2>2. CASE BatchDone(t)
        BY <2>2, ScannerAssumption DEF BatchDone, NewBatch, ScannerTypeOK
    <2>3. CASE DrainDone(t) \/ SetStatus(t) \/ Unlock(t)
        BY <2>3 DEF DrainDone, SetStatus, Unlock, Released, ScannerTypeOK
    <2> QED BY <2>1, <2>2, <2>3
<1>3. LockInv' /\ RangeInv' /\ LockHasOwner' /\ BoundInv'
    BY <1>1 DEF ScannerTypeOK, LockInv, RangeInv, LockHasOwner, Scanning, BatchFull,
        BatchDone, LoopDone, DrainDone, SetStatus, Unlock, Released
<1>4. QuietInv'
    BY <1>1 DEF ScannerTypeOK, QuietInv, Working, BatchFull, BatchDone, LoopDone,
        DrainDone, SetStatus, Unlock
<1>5. FoundInRange'
    BY <1>1 DEF ScannerTypeOK, FoundInRange, BatchFull, BatchDone, LoopDone, DrainDone,
        SetStatus, Unlock
<1>6. WorkInv'
    BY <1>1 DEF ScannerTypeOK, WorkInv, Working, BatchFull, BatchDone, LoopDone,
        DrainDone, SetStatus, Unlock
<1> QED BY <1>2, <1>3, <1>4, <1>5, <1>6

LEMMA NextKeepsIInv == IInv /\ [Next]_vars => IInv'
<1> SUFFICES ASSUME IInv, [Next]_vars PROVE IInv'
    OBVIOUS
<1>1. CASE UNCHANGED vars
    BY <1>1 DEF IInv, vars, counters, range, ScannerTypeOK, LockInv, RangeInv, QuietInv,
        WorkInv, FoundInRange, LockHasOwner, BoundInv, Scanning
<1>2. ASSUME NEW t \in Callers,
             \/ TryLock(t) \/ RejectArguments(t)
             \/ \E a, b \in Addresses : RejectRange(t, a, b) \/ Accept(t, a, b)
      PROVE  IInv'
    BY <1>2, RequestStep
<1>3. ASSUME NEW t \in Callers, Scanner(t)
      PROVE  IInv'
    BY <1>3, StartStep, ProbeStep, EventStep, MoveStep DEF Scanner
<1> QED BY <1>1, <1>2, <1>3 DEF Next

(***************************************************************************)
(* Theorems.                                                               *)
(***************************************************************************)
LEMMA Invariance == Spec => []IInv
BY InitIInv, NextKeepsIInv, PTL DEF Spec

\* Counters and addresses stay within the range asked for, the batch within its
\* limit (ctl_scanner.cpp:53-121).
THEOREM TypeCorrect == Spec => []ScannerTypeOK
<1>1. IInv => ScannerTypeOK
    BY DEF IInv
<1> QED BY <1>1, Invariance, PTL

\* A scan has the globals to itself, although the lock was taken by a thread that
\* is gone and requests keep coming (ctl_scanner.cpp:164, 118).
THEOREM ScansAlone == Spec => []OneScan
<1>1. IInv => OneScan
    BY DEF IInv, LockInv, OneScan, Scanning
<1> QED BY <1>1, Invariance, PTL

\* The counters add up to the range at every moment of a scan, in batches of any
\* size (ctl_scanner.cpp:41, 102).
THEOREM CountsAll == Spec => []AllCounted
<1>1. IInv => AllCounted
    BY DEF IInv, WorkInv, AllCounted, Working
<1> QED BY <1>1, Invariance, PTL

\* The list holds addresses of this scan's range, each once (ctl_scanner.cpp:34).
THEOREM FindsInRange == Spec => []FoundInRange
<1>1. IInv => FoundInRange
    BY DEF IInv
<1> QED BY <1>1, Invariance, PTL

\* The lock is lost only through rejected requests (ctl_scanner.cpp:174, 188).
THEOREM LockIsOwned == Spec => []LockHasOwner
<1>1. IInv => LockHasOwner
    BY DEF IInv
<1> QED BY <1>1, Invariance, PTL

(***************************************************************************)
(* What clients see: the scanner implements ScanJob.                        *)
(***************************************************************************)
\* The last dispatch begins when no address is left.
DrainInv == \A t \in Callers : pc[t] = "drain" => left = 0

LEMMA DrainStep == IInv /\ DrainInv /\ [Next]_vars => DrainInv'
<1> SUFFICES ASSUME IInv, DrainInv, [Next]_vars PROVE DrainInv'
    OBVIOUS
<1> USE DEF IInv, DrainInv, counters, range, Goto
<1>1. CASE UNCHANGED vars
    BY <1>1 DEF vars
<1>2. ASSUME NEW t \in Callers,
             \/ TryLock(t) \/ RejectArguments(t)
             \/ \E a, b \in Addresses : RejectRange(t, a, b) \/ Accept(t, a, b)
      PROVE  DrainInv'
    BY <1>2 DEF TryLock, RejectArguments, RejectRange, Accept, ScannerTypeOK
<1>3. ASSUME NEW t \in Callers, Scanner(t) PROVE DrainInv'
    <2>1. \A u \in Callers \ {t} : pc[u] = "idle"
        BY <1>3 DEF LockInv, Scanner, ScanInit, NoEventBase, Probe, BatchFull, BatchDone,
            LoopDone, Event, DrainDone, SetStatus, Unlock
    <2>2. CASE ScanInit(t) \/ NoEventBase(t) \/ Probe(t)
        BY <2>1, <2>2 DEF ScanInit, NoEventBase, Probe, ScannerTypeOK
    <2>3. CASE LoopDone(t)
        BY <2>1, <2>3, Numbers DEF LoopDone, MoreToTry, ScannerTypeOK
    <2>4. CASE \/ BatchFull(t) \/ BatchDone(t) \/ DrainDone(t) \/ SetStatus(t) \/ Unlock(t)
        BY <2>1, <2>4 DEF BatchFull, BatchDone, DrainDone, SetStatus, Unlock, ScannerTypeOK
    <2>5. CASE \E a \in conns : Event(t, a)
        BY <2>5 DEF Event
    <2> QED BY <1>3, <2>2, <2>3, <2>4, <2>5 DEF Scanner
<1> QED BY <1>1, <1>2, <1>3 DEF Next

Phase ==
    IF In({"init"}) THEN "accepted"
    ELSE IF In(Working) THEN "running"
    ELSE IF In({"status", "unlock"}) THEN "over" ELSE "none"
Asked == IF In({"init", "status", "unlock"} \cup Working) THEN ipst .. iped - 1 ELSE {}
Untried == IF In(Working) THEN conns \cup (curnode .. curnode + left - 1) ELSE {}

\* The same, as the one thread that is not idle fixes it.
PhaseOf(l) ==
    IF l = "init" THEN "accepted"
    ELSE IF l \in Working THEN "running"
    ELSE IF l \in {"status", "unlock"} THEN "over" ELSE "none"
AskedOf(l) == IF l \in {"init", "status", "unlock"} \cup Working THEN ipst .. iped - 1 ELSE {}
UntriedOf(l) == IF l \in Working THEN conns \cup (curnode .. curnode + left - 1) ELSE {}

LEMMA AloneIn ==
    ASSUME NEW p, NEW t \in Callers, \A u \in Callers \ {t} : p[u] = "idle",
           NEW S, "idle" \notin S
    PROVE  (\E u \in Callers : p[u] \in S) <=> p[t] \in S
OBVIOUS

LEMMA Seen ==
    ASSUME NEW t \in Callers, \A u \in Callers \ {t} : pc[u] = "idle"
    PROVE  Phase = PhaseOf(pc[t]) /\ Asked = AskedOf(pc[t]) /\ Untried = UntriedOf(pc[t])
<1>1. In({"init"}) <=> pc[t] = "init"
    BY AloneIn DEF In
<1>2. In(Working) <=> pc[t] \in Working
    BY AloneIn DEF In, Working
<1>3. In({"status", "unlock"}) <=> pc[t] \in {"status", "unlock"}
    BY AloneIn DEF In
<1>4. In({"init", "status", "unlock"} \cup Working)
        <=> pc[t] \in {"init", "status", "unlock"} \cup Working
    BY AloneIn DEF In, Working
<1> QED BY <1>1, <1>2, <1>3, <1>4 DEF Phase, PhaseOf, Asked, AskedOf, Untried, UntriedOf

LEMMA SeenNext ==
    ASSUME NEW t \in Callers, \A u \in Callers \ {t} : pc'[u] = "idle"
    PROVE  /\ Phase' = PhaseOf(pc'[t])
           /\ Asked' = AskedOf(pc[t])' /\ Untried' = UntriedOf(pc[t])'
<1>1. In({"init"})' <=> pc'[t] = "init"
    BY AloneIn DEF In
<1>2. In(Working)' <=> pc'[t] \in Working
    BY AloneIn DEF In, Working
<1>3. In({"status", "unlock"})' <=> pc'[t] \in {"status", "unlock"}
    BY AloneIn DEF In
<1>4. In({"init", "status", "unlock"} \cup Working)'
        <=> pc'[t] \in {"init", "status", "unlock"} \cup Working
    BY AloneIn DEF In, Working
<1> QED BY <1>1, <1>2, <1>3, <1>4 DEF Phase, PhaseOf, Asked, AskedOf, Untried, UntriedOf

\* A step that changes nothing of this is a stutter to clients.
LEMMA JobStutter ==
    ASSUME Phase' = Phase, Asked' = Asked, Untried' = Untried,
           foundlist' = foundlist, ccnt' = ccnt, cuccnt' = cuccnt
    PROVE  UNCHANGED Job!jobvars
BY DEF Job!jobvars, Phase, Asked, Untried

LEMMA JobBegins ==
    ASSUME Phase = "accepted", Phase' = "running", Untried' = Asked, Range(foundlist)' = {},
           ccnt' = Cardinality(Asked), cuccnt' = 0, Asked' = Asked
    PROVE  Job!Begin
BY DEF Job!Begin, Phase, Asked, Untried, Cardinality, Job!Cardinality

LEMMA JobGivesUp ==
    ASSUME Phase = "accepted", Phase' = "over", Untried' = {}, Range(foundlist)' = {},
           ccnt' = Cardinality(Asked), cuccnt' = 0, Asked' = Asked
    PROVE  Job!GiveUp
BY DEF Job!GiveUp, Phase, Asked, Untried, Cardinality, Job!Cardinality

LEMMA JobTries ==
    ASSUME NEW a, Phase = "running", Phase' = Phase, Untried' = Untried \ {a},
           Range(foundlist)' \in {Range(foundlist), Range(foundlist) \cup {a}},
           cuccnt' = cuccnt + 1, Asked' = Asked, ccnt' = ccnt
    PROVE  Job!Try(a)
BY DEF Job!Try, Phase, Asked, Untried

LEMMA JobCompletes ==
    ASSUME Phase = "running", Untried = {}, Phase' = "over", Untried' = Untried,
           Asked' = Asked, foundlist' = foundlist, ccnt' = ccnt, cuccnt' = cuccnt
    PROVE  Job!Complete
BY DEF Job!Complete, Phase, Asked, Untried

LEMMA JobEnds ==
    ASSUME Phase = "over", Phase' = "none", Asked' = {}, Untried' = Untried,
           foundlist' = foundlist, ccnt' = ccnt, cuccnt' = cuccnt
    PROVE  Job!End
BY DEF Job!End, Phase, Asked, Untried

\* Only the thread that steps is not idle, before and after.
LEMMA OthersIdle ==
    ASSUME IInv, NEW t \in Callers,
           \/ TryLock(t) \/ RejectArguments(t)
           \/ \E a, b \in Addresses : RejectRange(t, a, b) \/ Accept(t, a, b)
           \/ Scanner(t)
    PROVE  /\ \A u \in Callers \ {t} : pc[u] = "idle" /\ pc'[u] = "idle"
           /\ pc \in [Callers -> {"idle", "check", "init", "loop", "batch", "drain",
                                  "status", "unlock"}]
<1>1. \A u \in Callers \ {t} : pc[u] = "idle"
    BY DEF IInv, LockInv, TryLock, MayScan, RejectArguments, RejectRange, Accept, Scanner,
        ScanInit, NoEventBase, Probe, BatchFull, BatchDone, LoopDone, Event, DrainDone,
        SetStatus, Unlock
<1>2. pc \in [Callers -> {"idle", "check", "init", "loop", "batch", "drain", "status", "unlock"}]
    BY DEF IInv, ScannerTypeOK
<1>3. \A u \in Callers \ {t} : pc'[u] = pc[u]
    BY <1>2 DEF Goto, TryLock, RejectArguments, RejectRange, Accept, Scanner,
        ScanInit, NoEventBase, Probe, BatchFull, BatchDone, LoopDone, Event, DrainDone,
        SetStatus, Unlock
<1> QED BY <1>1, <1>2, <1>3

LEMMA RequestRefines ==
    ASSUME IInv, NEW t \in Callers,
           \/ TryLock(t) \/ RejectArguments(t)
           \/ \E a, b \in Addresses : RejectRange(t, a, b) \/ Accept(t, a, b)
    PROVE  Job!AcceptRange \/ UNCHANGED Job!jobvars
<1>1. Phase = PhaseOf(pc[t]) /\ Asked = AskedOf(pc[t]) /\ Untried = UntriedOf(pc[t])
    BY OthersIdle, Seen
<1>2. Phase' = PhaseOf(pc'[t]) /\ Asked' = AskedOf(pc[t])' /\ Untried' = UntriedOf(pc[t])'
    BY OthersIdle, SeenNext
<1>3. pc \in [Callers -> {"idle", "check", "init", "loop", "batch", "drain", "status", "unlock"}]
    BY OthersIdle
<1> USE DEF Goto, counters, range, PhaseOf, AskedOf, UntriedOf, Working
<1>4. CASE TryLock(t) \/ RejectArguments(t) \/ \E a, b \in Addresses : RejectRange(t, a, b)
    <2>1. pc[t] \in {"idle", "check"} /\ pc'[t] \in {"idle", "check"}
             /\ foundlist' = foundlist /\ ccnt' = ccnt /\ cuccnt' = cuccnt
        BY <1>3, <1>4 DEF TryLock, RejectArguments, RejectRange
    <2>2. Phase' = Phase /\ Asked' = Asked /\ Untried' = Untried
        BY <1>1, <1>2, <2>1
    <2> QED BY <2>1, <2>2, JobStutter
<1>5. ASSUME NEW a \in Addresses, NEW b \in Addresses, Accept(t, a, b)
      PROVE  Job!AcceptRange
    <2>1. /\ pc[t] = "check" /\ pc'[t] = "init" /\ a < b /\ ipst' = a /\ iped' = b
          /\ foundlist' = foundlist /\ ccnt' = ccnt /\ cuccnt' = cuccnt
        BY <1>3, <1>5 DEF Accept
    <2>2. /\ Phase = "none" /\ Phase' = "accepted" /\ Asked' = a .. b - 1
          /\ Untried = {} /\ Untried' = {}
        BY <1>1, <1>2, <2>1
    <2> QED BY <2>1, <2>2 DEF Job!AcceptRange, Phase, Asked, Untried
<1> QED BY <1>4, <1>5

\* The scan begins with its whole range, and with no results.
LEMMA StartRefines ==
    ASSUME IInv, NEW t \in Callers, ScanInit(t) \/ NoEventBase(t)
    PROVE  Job!Begin \/ Job!GiveUp
<1>1. Phase = PhaseOf(pc[t]) /\ Asked = AskedOf(pc[t]) /\ Untried = UntriedOf(pc[t])
    BY OthersIdle, Seen DEF Scanner
<1>2. Phase' = PhaseOf(pc'[t]) /\ Asked' = AskedOf(pc[t])' /\ Untried' = UntriedOf(pc[t])'
    BY OthersIdle, SeenNext DEF Scanner
<1>3. pc \in [Callers -> {"idle", "check", "init", "loop", "batch", "drain", "status", "unlock"}]
    BY OthersIdle DEF Scanner
<1>4. ipst \in Nat /\ iped \in Nat /\ ipst < iped /\ conns = {} /\ pc[t] = "init"
    <2>1. pc[t] = "init"
        BY DEF ScanInit, NoEventBase
    <2>2. conns = {}
        BY <2>1, OthersIdle DEF Scanner, IInv, QuietInv, Working
    <2> QED BY <2>1, <2>2, Numbers DEF IInv, RangeInv, Scanning
<1>5. Cardinality(ipst .. iped - 1) = iped - ipst
    BY <1>4, FS_Interval
<1>6. Range(<<>>) = {}
    BY DEF Range
<1>7. /\ cuccnt' = 0 /\ foundlist' = <<>> /\ ccnt' = iped - ipst
      /\ ipst' = ipst /\ iped' = iped /\ conns' = conns
    BY DEF ScanInit, NoEventBase, Cleared, range
<1>8. Phase = "accepted" /\ Asked = ipst .. iped - 1 /\ Untried = {}
    BY <1>1, <1>4 DEF PhaseOf, AskedOf, UntriedOf, Working
<1>9. CASE ScanInit(t)
    <2>1. pc'[t] = "loop" /\ curnode' = ipst /\ left' = iped - ipst
        BY <1>3, <1>9 DEF ScanInit, Goto
    <2>2. ipst + (iped - ipst) - 1 = iped - 1
        BY <1>4
    <2>3. Phase' = "running" /\ Asked' = Asked /\ Untried' = ipst .. iped - 1
        BY <1>2, <1>4, <1>7, <1>8, <2>1, <2>2 DEF PhaseOf, AskedOf, UntriedOf, Working
    <2>4. Range(foundlist)' = {} /\ ccnt' = Cardinality(Asked)
        BY <1>5, <1>6, <1>7, <1>8
    <2> QED BY <1>7, <1>8, <2>3, <2>4, JobBegins
<1>10. CASE NoEventBase(t)
    <2>1. pc'[t] = "status"
        BY <1>3, <1>10 DEF NoEventBase, Goto
    <2>2. Phase' = "over" /\ Asked' = Asked /\ Untried' = {}
        BY <1>2, <1>7, <1>8, <2>1 DEF PhaseOf, AskedOf, UntriedOf, Working
    <2>3. Range(foundlist)' = {} /\ ccnt' = Cardinality(Asked)
        BY <1>5, <1>6, <1>7, <1>8
    <2> QED BY <1>7, <1>8, <2>2, <2>3, JobGivesUp
<1> QED BY <1>9, <1>10

LEMMA FullAndEmpty ==
    ASSUME NEW m \in Nat, NEW n \in Nat
    PROVE  /\ n > 0 => m .. m + n - 1 = {m} \cup (m + 1 .. m + 1 + (n - 1) - 1)
           /\ n = 0 => m .. m + n - 1 = {}
           /\ \A k \in m .. m + n - 1 : k >= m
OBVIOUS

\* The address that is tried next is still to come, and is gone after that only
\* when it has failed at once.
LEMMA ProbeRefines ==
    ASSUME IInv, NEW t \in Callers, Probe(t)
    PROVE  (\E a \in Untried : Job!Try(a)) \/ UNCHANGED Job!jobvars
<1>1. Phase = PhaseOf(pc[t]) /\ Asked = AskedOf(pc[t]) /\ Untried = UntriedOf(pc[t])
    BY OthersIdle, Seen DEF Scanner
<1>2. Phase' = PhaseOf(pc'[t]) /\ Asked' = AskedOf(pc[t])' /\ Untried' = UntriedOf(pc[t])'
    BY OthersIdle, SeenNext DEF Scanner
<1>3. /\ pc[t] = "loop" /\ pc' = pc /\ left > 0
      /\ left \in Nat /\ curnode \in Nat
    BY Numbers DEF Probe, MoreToTry, IInv
<1>4. /\ ipst' = ipst /\ iped' = iped /\ ccnt' = ccnt /\ foundlist' = foundlist
      /\ curnode' = curnode + 1 /\ left' = left - 1
    BY DEF Probe, range
<1>5. conns \subseteq ipst .. curnode - 1
    BY <1>3 DEF IInv, WorkInv, Working
<1>6. curnode \notin conns
    BY <1>3, <1>5, Numbers DEF IInv
<1>7. Phase = "running" /\ Phase' = Phase /\ Asked' = Asked
    BY <1>1, <1>2, <1>3, <1>4 DEF PhaseOf, AskedOf, Working
<1> DEFINE Coming == curnode + 1 .. curnode + 1 + (left - 1) - 1
<1>8. Untried = conns \cup {curnode} \cup Coming
    <2>1. Untried = conns \cup (curnode .. curnode + left - 1)
        BY <1>1, <1>3 DEF UntriedOf, Working
    <2> QED BY <1>3, <2>1, FullAndEmpty
<1>9. curnode \notin Coming
    BY <1>3
<1>10. Untried' = conns' \cup Coming
    BY <1>2, <1>3, <1>4 DEF UntriedOf, Working
<1> HIDE DEF Coming
<1>11. CASE conns' = conns \cup {curnode} /\ UNCHANGED cuccnt
    <2>1. Untried' = Untried
        BY <1>8, <1>10, <1>11
    <2> QED BY <1>4, <1>7, <1>11, <2>1, JobStutter
<1>12. CASE cuccnt' = FailedAtOnce /\ UNCHANGED conns
    <2>1. Untried' = Untried \ {curnode} /\ curnode \in Untried
        BY <1>6, <1>8, <1>9, <1>10, <1>12
    <2>2. Range(foundlist)' = Range(foundlist) /\ cuccnt' = cuccnt + 1
        BY <1>4, <1>12 DEF FailedAtOnce
    <2>3. Job!Try(curnode)
        BY <1>4, <1>7, <2>1, <2>2, JobTries
    <2> QED BY <2>1, <2>3
<1> QED BY <1>11, <1>12 DEF Probe

LEMMA RangeAppend ==
    ASSUME NEW S, NEW s \in Seq(S), NEW a \in S
    PROVE  Range(Append(s, a)) = Range(s) \cup {a}
<1> DEFINE r == Append(s, a)
<1>1. /\ DOMAIN s = 1 .. Len(s) /\ Len(s) \in Nat
      /\ DOMAIN r = 1 .. Len(s) + 1
      /\ \A i \in 1 .. Len(s) : r[i] = s[i]
      /\ r[Len(s) + 1] = a
    OBVIOUS
<1> HIDE DEF r
<1>2. 1 .. Len(s) + 1 = (1 .. Len(s)) \cup {Len(s) + 1}
    BY <1>1
<1>3. {r[i] : i \in 1 .. Len(s) + 1} = {s[i] : i \in 1 .. Len(s)} \cup {a}
    BY <1>1, <1>2
<1>4. Range(r) = Range(s) \cup {a}
    BY <1>1, <1>3 DEF Range
<1> QED BY <1>4 DEF r

\* An attempt that libevent reports was to come until then, also when the loop has
\* gone on behind it.
LEMMA EventRefines ==
    ASSUME IInv, NEW t \in Callers, NEW a \in conns, Event(t, a)
    PROVE  a \in Untried /\ Job!Try(a)
<1>0. Scanner(t)
    BY DEF Scanner
<1>1. Phase = PhaseOf(pc[t]) /\ Asked = AskedOf(pc[t]) /\ Untried = UntriedOf(pc[t])
    BY <1>0, OthersIdle, Seen
<1>2. Phase' = PhaseOf(pc'[t]) /\ Asked' = AskedOf(pc[t])' /\ Untried' = UntriedOf(pc[t])'
    BY <1>0, OthersIdle, SeenNext
<1>3. pc[t] \in Working /\ pc' = pc /\ left \in Nat /\ curnode \in Nat
    BY Numbers DEF Event, Working, IInv
<1>4. /\ ipst' = ipst /\ iped' = iped /\ ccnt' = ccnt /\ cuccnt' = cuccnt + 1
      /\ curnode' = curnode /\ left' = left /\ conns' = conns \ {a}
    BY DEF Event, range
<1>5. conns \subseteq ipst .. curnode - 1
    BY <1>3 DEF IInv, WorkInv
<1>6. Phase = "running" /\ Phase' = Phase /\ Asked' = Asked
    BY <1>1, <1>2, <1>3, <1>4 DEF PhaseOf, AskedOf, Working
<1> DEFINE Coming == curnode .. curnode + left - 1
<1>7. a \notin Coming
    <2>1. a < curnode
        BY <1>3, <1>5, Numbers DEF IInv
    <2> QED BY <1>3, <2>1, FullAndEmpty
<1>8. Untried = conns \cup Coming /\ Untried' = conns' \cup Coming
    BY <1>1, <1>2, <1>3, <1>4 DEF UntriedOf
<1> HIDE DEF Coming
<1>9. a \in Untried /\ Untried' = Untried \ {a}
    BY <1>4, <1>7, <1>8
<1>10. Range(foundlist)' \in {Range(foundlist), Range(foundlist) \cup {a}}
    <2>1. foundlist \in Seq(Addresses) /\ a \in Addresses
        BY DEF IInv, ScannerTypeOK
    <2>2. CASE Found(a)
        BY <2>1, <2>2, RangeAppend DEF Found
    <2>3. CASE UNCHANGED <<foundlist, valid_cnt>>
        BY <2>3
    <2> QED BY <2>2, <2>3 DEF Event
<1> QED BY <1>4, <1>6, <1>9, <1>10, JobTries

\* The scan is complete when the last dispatch returns and over when the thread
\* ends; what the thread does for its batches is nothing to clients.
LEMMA MoveRefines ==
    ASSUME IInv, DrainInv, NEW t \in Callers,
           \/ BatchFull(t) \/ BatchDone(t) \/ LoopDone(t)
           \/ DrainDone(t) \/ SetStatus(t) \/ Unlock(t)
    PROVE  Job!Complete \/ Job!End \/ UNCHANGED Job!jobvars
<1>0. Scanner(t)
    BY DEF Scanner
<1>1. Phase = PhaseOf(pc[t]) /\ Asked = AskedOf(pc[t]) /\ Untried = UntriedOf(pc[t])
    BY <1>0, OthersIdle, Seen
<1>2. Phase' = PhaseOf(pc'[t]) /\ Asked' = AskedOf(pc[t])' /\ Untried' = UntriedOf(pc[t])'
    BY <1>0, OthersIdle, SeenNext
<1>3. pc \in [Callers -> {"idle", "check", "init", "loop", "batch", "drain", "status", "unlock"}]
    BY <1>0, OthersIdle
<1>4. /\ ipst' = ipst /\ iped' = iped /\ ccnt' = ccnt /\ cuccnt' = cuccnt
      /\ curnode' = curnode /\ left' = left /\ conns' = conns /\ foundlist' = foundlist
    BY DEF BatchFull, BatchDone, LoopDone, DrainDone, SetStatus, Unlock, counters, range
<1> USE DEF PhaseOf, AskedOf, UntriedOf, Working
<1>5. CASE BatchFull(t) \/ BatchDone(t) \/ LoopDone(t)
    <2>1. pc[t] \in Working /\ pc'[t] \in Working
        BY <1>3, <1>5 DEF BatchFull, BatchDone, LoopDone, Goto
    <2>2. Phase' = Phase /\ Asked' = Asked /\ Untried' = Untried
        BY <1>1, <1>2, <1>4, <2>1
    <2> QED BY <1>4, <2>2, JobStutter
<1>6. CASE SetStatus(t)
    <2>1. pc[t] = "status" /\ pc'[t] = "unlock"
        BY <1>3, <1>6 DEF SetStatus, Goto
    <2>2. Phase' = Phase /\ Asked' = Asked /\ Untried' = Untried
        BY <1>1, <1>2, <1>4, <2>1
    <2> QED BY <1>4, <2>2, JobStutter
<1>7. CASE DrainDone(t)
    <2>1. pc[t] = "drain" /\ pc'[t] = "status" /\ conns = {}
        BY <1>3, <1>7 DEF DrainDone, Goto
    <2>2. left = 0 /\ curnode \in Nat
        BY <2>1, Numbers DEF DrainInv, IInv
    <2>3. curnode .. curnode + left - 1 = {}
        BY <2>2, FullAndEmpty
    <2>4. Untried = {} /\ Phase = "running" /\ Phase' = "over" /\ Untried' = {}
            /\ Asked' = Asked
        BY <1>1, <1>2, <1>4, <2>1, <2>3
    <2> QED BY <1>4, <2>4, JobCompletes
<1>8. CASE Unlock(t)
    <2>1. pc[t] = "unlock" /\ pc'[t] = "idle"
        BY <1>3, <1>8 DEF Unlock, Goto
    <2>2. Phase = "over" /\ Phase' = "none" /\ Asked' = {} /\ Untried' = Untried
        BY <1>1, <1>2, <1>4, <2>1
    <2> QED BY <1>4, <2>2, JobEnds
<1> QED BY <1>5, <1>6, <1>7, <1>8

LEMMA InitRefines == Init => Job!JobInit
<1> SUFFICES ASSUME Init PROVE Job!JobInit
    OBVIOUS
<1>1. ~In({"init"}) /\ ~In(Working) /\ ~In({"status", "unlock"})
        /\ ~In({"init", "status", "unlock"} \cup Working)
    BY DEF Init, In, Working
<1>2. Range(foundlist) = {}
    BY DEF Init, Range
<1> QED BY <1>1, <1>2 DEF Init, Job!JobInit

LEMMA StepRefines == IInv /\ DrainInv /\ [Next]_vars => [Job!JobNext]_(Job!jobvars)
<1> SUFFICES ASSUME IInv, DrainInv, [Next]_vars PROVE Job!JobNext \/ UNCHANGED Job!jobvars
    OBVIOUS
<1>1. CASE UNCHANGED vars
    BY <1>1 DEF vars, counters, range, Job!jobvars, In
<1>2. ASSUME NEW t \in Callers,
             \/ TryLock(t) \/ RejectArguments(t)
             \/ \E a, b \in Addresses : RejectRange(t, a, b) \/ Accept(t, a, b)
      PROVE  Job!JobNext \/ UNCHANGED Job!jobvars
    BY <1>2, RequestRefines DEF Job!JobNext
<1>3. ASSUME NEW t \in Callers, Scanner(t)
      PROVE  Job!JobNext \/ UNCHANGED Job!jobvars
    <2>1. CASE ScanInit(t) \/ NoEventBase(t)
        BY <2>1, StartRefines DEF Job!JobNext
    <2>2. ASSUME NEW a \in Untried, Job!Try(a) PROVE Job!JobNext
        BY <2>2 DEF Job!JobNext, Untried
    <2>3. CASE Probe(t)
        BY <2>2, <2>3, ProbeRefines
    <2>4. CASE \E a \in conns : Event(t, a)
        BY <2>2, <2>4, EventRefines
    <2>5. CASE \/ BatchFull(t) \/ BatchDone(t) \/ LoopDone(t)
               \/ DrainDone(t) \/ SetStatus(t) \/ Unlock(t)
        BY <2>5, MoveRefines DEF Job!JobNext
    <2> QED BY <1>3, <2>1, <2>3, <2>4, <2>5 DEF Scanner
<1> QED BY <1>1, <1>2, <1>3 DEF Next

\* Clients see a scan of the range that was asked for: each address is tried exactly
\* once whatever the batches and the order of the events, and what answered is kept
\* until the next scan begins (ctl_scanner.cpp:28-121).
THEOREM JobImplemented == Spec => ImplementsScanJob
<1>1. Init => DrainInv
    BY DEF Init, DrainInv
<1> QED BY <1>1, InitRefines, DrainStep, StepRefines, Invariance, PTL
        DEF Spec, ImplementsScanJob, Job!JobSpec

(***************************************************************************)
(* A scan gets nearer its end.                                              *)
(***************************************************************************)
\* What is left to do at each place, for the thread that is there.
LEMMA StepsAt ==
    ASSUME NEW t \in Callers, ipst \in Int, iped \in Int, left \in Int,
           Cardinality(conns) \in Int
    PROVE  /\ pc[t] = "init" => StepsLeft(t) = 5 + 5 * (iped - ipst)
           /\ pc[t] = "loop" => StepsLeft(t) =
                  4 + (5 * left + Cardinality(conns)) + IF batch > BatchLimit THEN 2 ELSE 0
           /\ pc[t] = "batch" => StepsLeft(t) = 5 + (5 * left + Cardinality(conns))
           /\ pc[t] = "drain" => StepsLeft(t) = 3 + (5 * left + Cardinality(conns))
           /\ pc[t] = "status" => StepsLeft(t) = 2
           /\ pc[t] = "unlock" => StepsLeft(t) = 1
           /\ pc[t] = "idle" => StepsLeft(t) = 0
BY DEF StepsLeft, StepsAfter, Working

LEMMA StepsNext ==
    ASSUME NEW t \in Callers, left' \in Int, Cardinality(conns') \in Int
    PROVE  /\ pc'[t] = "loop" => StepsLeft(t)' =
                  4 + (5 * left' + Cardinality(conns')) + IF batch' > BatchLimit THEN 2 ELSE 0
           /\ pc'[t] = "batch" => StepsLeft(t)' = 5 + (5 * left' + Cardinality(conns'))
           /\ pc'[t] = "drain" => StepsLeft(t)' = 3 + (5 * left' + Cardinality(conns'))
           /\ pc'[t] = "status" => StepsLeft(t)' = 2
           /\ pc'[t] = "unlock" => StepsLeft(t)' = 1
           /\ pc'[t] = "idle" => StepsLeft(t)' = 0
BY DEF StepsLeft, StepsAfter, Working

LEMMA FiniteAddresses ==
    ASSUME NEW S \in SUBSET Addresses
    PROVE  IsFiniteSet(S) /\ Cardinality(S) \in Nat
<1>1. IsFiniteSet(Addresses)
    BY ScannerAssumption, FS_Interval DEF Addresses
<1>2. IsFiniteSet(S)
    BY <1>1, FS_Subset
<1> QED BY <1>2, FS_CardinalityType

\* Every step of the scanner thread is one step less to do.
LEMMA ScannerAdvances ==
    ASSUME IInv, IInv', NEW t \in Callers, Scanner(t)
    PROVE  StepsLeft(t)' < StepsLeft(t)
<1>1. /\ ipst \in Nat /\ iped \in Nat /\ left \in Nat /\ ipst < iped
      /\ pc \in [Callers -> {"idle", "check", "init", "loop", "batch", "drain",
                             "status", "unlock"}]
    <2>1. Scanning(t)
        BY DEF Scanner, Scanning, ScanInit, NoEventBase, Probe, BatchFull, BatchDone,
            LoopDone, Event, DrainDone, SetStatus, Unlock
    <2> QED BY <2>1, Numbers DEF IInv, RangeInv, ScannerTypeOK
<1> DEFINE c == Cardinality(conns)
           d == Cardinality(conns')
<1>2. /\ IsFiniteSet(conns) /\ c \in Nat /\ d \in Nat /\ left' \in Nat
      /\ batch \in 0 .. BatchLimit + 1 /\ batch' \in 0 .. BatchLimit + 1 /\ BatchLimit \in Nat
    <2>1. conns \in SUBSET Addresses /\ conns' \in SUBSET Addresses
        BY DEF IInv, ScannerTypeOK
    <2>2. left' \in Addresses
        BY DEF IInv, ScannerTypeOK
    <2>3. left' \in Nat
        BY <2>2, AddressIs
    <2> QED BY <2>1, <2>3, FiniteAddresses, ScannerAssumption DEF IInv, ScannerTypeOK
<1>3. /\ pc[t] = "init" => StepsLeft(t) = 5 + 5 * (iped - ipst)
      /\ pc[t] = "loop" => StepsLeft(t) = 4 + (5 * left + c) + IF batch > BatchLimit THEN 2 ELSE 0
      /\ pc[t] = "batch" => StepsLeft(t) = 5 + (5 * left + c)
      /\ pc[t] = "drain" => StepsLeft(t) = 3 + (5 * left + c)
      /\ pc[t] = "status" => StepsLeft(t) = 2
      /\ pc[t] = "unlock" => StepsLeft(t) = 1
    BY <1>1, <1>2, StepsAt
<1>4. /\ pc'[t] = "loop" => StepsLeft(t)' =
             4 + (5 * left' + d) + IF batch' > BatchLimit THEN 2 ELSE 0
      /\ pc'[t] = "batch" => StepsLeft(t)' = 5 + (5 * left' + d)
      /\ pc'[t] = "drain" => StepsLeft(t)' = 3 + (5 * left' + d)
      /\ pc'[t] = "status" => StepsLeft(t)' = 2
      /\ pc'[t] = "unlock" => StepsLeft(t)' = 1
      /\ pc'[t] = "idle" => StepsLeft(t)' = 0
    BY <1>1, <1>2, StepsNext
<1>5. conns' = conns => d = c
    OBVIOUS
<1> USE DEF Goto, counters
<1>6. CASE ScanInit(t)
    <2>1. /\ pc[t] = "init" /\ pc'[t] = "loop" /\ left' = iped - ipst /\ batch' = 0
          /\ conns' = conns
        BY <1>1, <1>6 DEF ScanInit
    <2>2. c = 0
        <3>1. conns = {}
            BY <1>6, OthersIdle, <2>1 DEF Scanner, IInv, QuietInv, Working
        <3> QED BY <3>1, FS_EmptySet
    <2> HIDE DEF c, d
    <2> QED BY <1>1, <1>2, <1>3, <1>4, <1>5, <2>1, <2>2
<1>7. CASE NoEventBase(t)
    <2>1. pc[t] = "init" /\ pc'[t] = "status"
        BY <1>1, <1>7 DEF NoEventBase
    <2> HIDE DEF c, d
    <2> QED BY <1>1, <1>3, <1>4, <2>1
<1>8. CASE Probe(t)
    <2>1. /\ pc[t] = "loop" /\ pc'[t] = "loop" /\ left' = left - 1 /\ batch <= BatchLimit
        BY <1>8 DEF Probe
    <2>2. d <= c + 1
        <3>1. CASE conns' = conns \cup {curnode}
            BY <1>2, <3>1, FS_AddElement
        <3>2. CASE conns' = conns
            BY <1>2, <3>2
        <3> QED BY <1>8, <3>1, <3>2 DEF Probe
    <2> HIDE DEF c, d
    <2> QED BY <1>1, <1>2, <1>3, <1>4, <2>1, <2>2
<1>9. CASE BatchFull(t)
    <2>1. pc[t] = "loop" /\ pc'[t] = "batch" /\ left' = left /\ conns' = conns
            /\ batch > BatchLimit
        BY <1>1, <1>9 DEF BatchFull
    <2> HIDE DEF c, d
    <2> QED BY <1>1, <1>2, <1>3, <1>4, <1>5, <2>1
<1>10. CASE BatchDone(t)
    <2>1. pc[t] = "batch" /\ pc'[t] = "loop" /\ left' = left /\ conns' = conns /\ batch' = 0
        BY <1>1, <1>10 DEF BatchDone, NewBatch
    <2> HIDE DEF c, d
    <2> QED BY <1>1, <1>2, <1>3, <1>4, <1>5, <2>1
<1>11. CASE LoopDone(t)
    <2>1. pc[t] = "loop" /\ pc'[t] = "drain" /\ left' = left /\ conns' = conns
        BY <1>1, <1>11 DEF LoopDone
    <2> HIDE DEF c, d
    <2> QED BY <1>1, <1>2, <1>3, <1>4, <1>5, <2>1
<1>12. ASSUME NEW a \in conns, Event(t, a) PROVE StepsLeft(t)' < StepsLeft(t)
    <2>1. /\ pc[t] \in {"batch", "drain"} /\ pc'[t] = pc[t] /\ left' = left
          /\ conns' = conns \ {a}
        BY <1>12 DEF Event
    <2>2. d = c - 1
        BY <1>2, <2>1, FS_RemoveElement
    <2> HIDE DEF c, d
    <2> QED BY <1>1, <1>2, <1>3, <1>4, <2>1, <2>2
<1>13. CASE DrainDone(t)
    <2>1. pc[t] = "drain" /\ pc'[t] = "status"
        BY <1>1, <1>13 DEF DrainDone
    <2> HIDE DEF c, d
    <2> QED BY <1>1, <1>2, <1>3, <1>4, <2>1
<1>14. CASE SetStatus(t) \/ Unlock(t)
    BY <1>1, <1>3, <1>4, <1>14 DEF SetStatus, Unlock
<1> QED BY <1>6, <1>7, <1>8, <1>9, <1>10, <1>11, <1>12, <1>13, <1>14 DEF Scanner

LEMMA StepAdvances ==
    IInv /\ IInv' /\ [Next]_vars =>
        [\A t \in Callers : Scanning(t) => StepsLeft(t)' < StepsLeft(t)]_vars
<1> SUFFICES ASSUME IInv, IInv', Next, NEW t \in Callers, Scanning(t)
             PROVE  StepsLeft(t)' < StepsLeft(t)
    OBVIOUS
<1>1. PICK u \in Callers :
          \/ TryLock(u) \/ RejectArguments(u)
          \/ \E a, b \in Addresses : RejectRange(u, a, b) \/ Accept(u, a, b)
          \/ Scanner(u)
    BY DEF Next
<1>2. u = t
    BY <1>1, OthersIdle DEF Scanning
<1>3. Scanner(t)
    BY <1>1, <1>2 DEF TryLock, RejectArguments, RejectRange, Accept, Scanning
<1> QED BY <1>3, ScannerAdvances

\* A scan ends after at most 5 steps per address and 5 more, if its thread is
\* scheduled: nothing it does is repeated, and no request disturbs it
\* (ctl_scanner.cpp:74-121).
THEOREM AdvancesAlways == Spec => ScanAdvances
BY Invariance, StepAdvances, PTL DEF Spec, ScanAdvances
=============================================================================
