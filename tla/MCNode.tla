------------------------------- MODULE MCNode -------------------------------
(***************************************************************************)
(* A small instance of Node: two SetOffer calls, of capacities 2 and 0,    *)
(* and two contracts, one of which json.Marshal refuses.                   *)
(***************************************************************************)
EXTENDS Node

CONSTANTS c1, c2

MCCap == [c \in Callers |-> IF c = c1 THEN 2 ELSE 0]
=============================================================================
