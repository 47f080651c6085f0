---------------------------- MODULE MCCrapNemesis ----------------------------
(* An instance of CrapNemesis for TLC. *)
EXTENDS CrapNemesis
=============================================================================
