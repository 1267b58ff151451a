---------------------------- MODULE MCOrchestrator ----------------------------
(* Instances of Orchestrator for TLC. *)
EXTENDS Orchestrator

CONSTANTS w1, w2

MCWorkers == {w1, w2}
================================================================================
