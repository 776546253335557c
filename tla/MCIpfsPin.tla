------------------------------ MODULE MCIpfsPin -----------------------------
(***************************************************************************)
(* A small instance of IpfsPin: two contents of two pieces each, one of    *)
(* which they share.                                                       *)
(***************************************************************************)
EXTENDS IpfsPin

CONSTANTS h1, h2, x, y, p, q, r

MCIndex == [h \in Hosts |-> IF h = h1 THEN x ELSE y]
MCPieces == [h \in Hosts |-> IF h = h1 THEN <<p, q>> ELSE <<q, r>>]
=============================================================================
