---------------------------- MODULE MCCtlScanner ----------------------------
(* Instances of CtlScanner for TLC. *)
EXTENDS CtlScanner

CONSTANTS t1, t2
=============================================================================
