--------------------------- MODULE MCOfferManager ---------------------------
(***************************************************************************)
(* Small instances of OfferManager.  Capacities are three bits wide.  The  *)
(* contracts r1 and r3 expire at time 0 (they are expired once the clock   *)
(* has moved), r2 outlives every run.                                      *)
(***************************************************************************)
EXTENDS OfferManager

CONSTANTS r1, r2, r3, s1, s2

MCSize == [r \in Requests |-> IF r = r1 THEN 3 ELSE 2]
MCExpires == [r \in Requests |-> IF r = r2 THEN 5 ELSE 0]
MCOfferCap == [s \in Setters |-> IF s = s1 THEN 6 ELSE 4]
MCOwner == [r \in Requests |-> "owner"]

(* Every contract has content of its own. *)
DistinctCid == [r \in Requests |-> r]
=============================================================================
