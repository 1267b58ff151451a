------------------------------ MODULE MCGatherer -------------------------------
(* Instances of Gatherer for TLC. *)
EXTENDS Gatherer
================================================================================
