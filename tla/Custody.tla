------------------------------ MODULE Custody ------------------------------
(***************************************************************************)
(* What FindCustodians promises its caller, without goroutines, channels   *)
(* or messages: nodes come to host the contract, each slot is given one    *)
(* hosting node for good, no node serves two slots, and the call returns   *)
(* only when every slot has been given one.                                *)
(***************************************************************************)
CONSTANTS
    Slots,      \* one slot per custodian wanted
    Nodes,      \* nodes that may become custodians
    None        \* no custodian yet

VARIABLES
    hosts,      \* nodes that have accepted the contract
    custodian,  \* custodian[i]: the node that serves slot i
    returned    \* FindCustodians has returned

vars == <<hosts, custodian, returned>>

Init ==
    /\ hosts = {}
    /\ custodian = [i \in Slots |-> None]
    /\ returned = FALSE

Host(n) ==
    /\ hosts' = hosts \cup {n}
    /\ UNCHANGED <<custodian, returned>>

Engage(i, n) ==
    /\ ~returned
    /\ custodian[i] = None
    /\ n \in hosts
    /\ \A k \in Slots : custodian[k] # n
    /\ custodian' = [custodian EXCEPT ![i] = n]
    /\ UNCHANGED <<hosts, returned>>

Return ==
    /\ ~returned
    /\ \A i \in Slots : custodian[i] # None
    /\ returned' = TRUE
    /\ UNCHANGED <<hosts, custodian>>

Next ==
    \/ \E n \in Nodes : Host(n) \/ \E i \in Slots : Engage(i, n)
    \/ Return

Spec == Init /\ [][Next]_vars
=============================================================================
