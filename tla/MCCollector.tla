----------------------------- MODULE MCCollector -----------------------------
(* Instances of Collector for TLC. *)
EXTENDS Collector, TLC

CONSTANTS c1, c2

ControllerSymmetry == Permutations(Controllers)
=============================================================================
