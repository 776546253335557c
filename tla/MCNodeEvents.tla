---------------------------- MODULE MCNodeEvents ----------------------------
(***************************************************************************)
(* A small instance of NodeEvents: two contract broadcasts of one node,    *)
(* the second after it has taken another contract, which is the one asked  *)
(* for, its offer between them, and two storage requests.                  *)
(***************************************************************************)
EXTENDS NodeEvents

CONSTANTS a1, c1, c2

MCAddr == [b \in Broadcasts |-> a1]
MCOwn == [p \in Pubs |-> IF p = 1 THEN {c1} ELSE {c1, c2}]
MCWanted == [t \in Retrievals |-> c2]
=============================================================================
