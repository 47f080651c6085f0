---------------------------- MODULE MCFarmReaders ----------------------------
(* Instances of FarmReaders for TLC: a collection leaves one row or none. *)
EXTENDS FarmReaders

CONSTANTS r1, row

MCRowSets == SUBSET {row}
=============================================================================
