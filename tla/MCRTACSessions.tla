---------------------------- MODULE MCRTACSessions ----------------------------
(* Instances of RTACSessions for TLC. *)
EXTENDS RTACSessions

CONSTANTS t1, t2, t3, s1, s2, n1, p1, p2
=============================================================================
