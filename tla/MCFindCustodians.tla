-------------------------- MODULE MCFindCustodians --------------------------
(***************************************************************************)
(* Small instances of FindCustodians: one or two custodians wanted, three  *)
(* or four addresses that make offers.                                     *)
(***************************************************************************)
EXTENDS FindCustodians, TLC

CONSTANTS a1, a2, a3, a4, i1, i2

(* Every address is a node of its own. *)
OwnNode == [a \in Addrs |-> a]

Symmetry == Permutations(Addrs) \cup Permutations(Slots)
=============================================================================
