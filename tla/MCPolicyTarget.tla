---------------------------- MODULE MCPolicyTarget -----------------------------
(* Instances of PolicyTarget for TLC. *)
EXTENDS PolicyTarget

MCChildren == 1 .. 3
MCWeights == 0 .. 2
MCValues == -1 .. 1
================================================================================
