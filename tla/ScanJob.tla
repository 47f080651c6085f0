------------------------------- MODULE ScanJob -------------------------------
(***************************************************************************)
(* A scan as the clients of ops scan, status and result see it: a range is    *)
(* accepted, each of its addresses is tried exactly once, in some order, and   *)
(* either answers or does not, and the scan is over when none is left. Nothing *)
(* is shown of batches, of the event base or of attempts under way.            *)
(* Module CtlScanner implements this one.                                    *)
(***************************************************************************)
EXTENDS Integers, FiniteSets

CONSTANT Addresses

VARIABLES
    phase,      \* how far the scan is
    asked,      \* the range it was asked for
    untried,    \* the addresses of the range not yet accounted for
    found,      \* those that answered: op result
    total,      \* ccnt of op status
    tried       \* cuccnt of op status

jobvars == <<phase, asked, untried, found, total, tried>>

JobInit ==
    /\ phase = "none"
    /\ asked = {} /\ untried = {} /\ found = {}
    /\ total = 0 /\ tried = 0

AcceptRange ==
    /\ phase = "none"
    /\ phase' = "accepted"
    /\ \E a, b \in Addresses : a < b /\ asked' = a .. b - 1
    /\ UNCHANGED <<untried, found, total, tried>>

\* The results of the scan before are gone from here on, and not earlier.
Begin ==
    /\ phase = "accepted"
    /\ phase' = "running"
    /\ untried' = asked /\ found' = {}
    /\ total' = Cardinality(asked) /\ tried' = 0
    /\ UNCHANGED asked

GiveUp ==
    /\ phase = "accepted"
    /\ phase' = "over"
    /\ untried' = {} /\ found' = {}
    /\ total' = Cardinality(asked) /\ tried' = 0
    /\ UNCHANGED asked

Try(a) ==
    /\ phase = "running"
    /\ untried' = untried \ {a}
    /\ found' \in {found, found \cup {a}}
    /\ tried' = tried + 1
    /\ UNCHANGED <<phase, asked, total>>

Complete ==
    /\ phase = "running"
    /\ untried = {}
    /\ phase' = "over"
    /\ UNCHANGED <<asked, untried, found, total, tried>>

End ==
    /\ phase = "over"
    /\ phase' = "none"
    /\ asked' = {}
    /\ UNCHANGED <<untried, found, total, tried>>

JobNext ==
    \/ AcceptRange \/ Begin \/ GiveUp
    \/ \E a \in untried : Try(a)
    \/ Complete \/ End

JobSpec == JobInit /\ [][JobNext]_jobvars
=============================================================================
