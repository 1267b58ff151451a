------------------------------ MODULE MCRingQueue ------------------------------
(* A small instance of RingQueue: a ring of three cells fills, empties and   *)
(* wraps around within a few calls.                                         *)
EXTENDS RingQueue

CONSTANTS p1, p2, s1, s2

TwoProcs == {p1, p2}
TwoElems == {s1, s2}
================================================================================
