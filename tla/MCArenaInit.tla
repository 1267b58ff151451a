------------------------------ MODULE MCArenaInit ------------------------------
(* Three processes opening an arena of two slots. *)
EXTENDS ArenaInit

CONSTANTS o1, o2, o3

ThreeOpeners == {o1, o2, o3}
================================================================================
