----------------------------- MODULE MCExchange -----------------------------
(* Exchange for TLC.  Strings are one letter; the values of the integers are *)
(* the ones at which a varint gets longer or a sign changes.                 *)
EXTENDS Exchange

a == <<97>>
b == <<98, 98>>

Contracts ==
    {[owner_id |-> a, size |-> s, cid |-> b, expires |-> e, cardinality |-> 2, datatype |-> d] :
        s \in {0, 127, 200}, e \in {1, 300}, d \in {0, 3}}

\* A contract of which nothing is set, and a time before 1970.
EmptyContract ==
    [owner_id |-> <<>>, size |-> 0, cid |-> <<>>, expires |-> -5, cardinality |-> 0, datatype |-> 0]

MCRequests ==
    {[go |-> "StorageRequest", multiaddr |-> a, contract |-> c] : c \in Contracts \cup {EmptyContract}}
        \cup {[go |-> "RetrievalRequest", multiaddr |-> m, owner_id |-> b,
               timestamp |-> 33, signature |-> a] : m \in {<<>>, a}}

MCStorageReplies ==
    {[go |-> "StorageResponse", multiaddr |-> m, done |-> d] : m \in {<<>>, a}, d \in BOOLEAN}

\* The last list does not fit into the buffer of receive.
MCLinkLists == {<<>>, <<a>>, <<<<>>>>, <<a, b>>, [k \in 1 .. 8 |-> b]}

MCExtended ==
    {<<>>, <<[go |-> "StorageRequest", multiaddr |-> a, contract |-> EmptyContract]>>}

\* Fields known and unknown with each wire type, lengths, the ends of groups,
\* bytes that are continued; and a contract's size that is too large for it.
MCFragments ==
    {<<0>>, <<1>>, <<8, 2>>, <<10, 1>>, <<16, 129>>, <<18>>, <<18, 0>>, <<50, 1>>,
     <<51>>, <<52>>, <<53, 0>>, <<255>>, <<18, 6, 18, 4, 16, 172, 130, 0>>}
=============================================================================
