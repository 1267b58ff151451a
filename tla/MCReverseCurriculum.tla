-------------------------- MODULE MCReverseCurriculum --------------------------
(* Instances of ReverseCurriculum for TLC. *)
EXTENDS ReverseCurriculum

MCLens == 1 .. 33
================================================================================
