------------------------------ MODULE Exchange ------------------------------
(***************************************************************************)
(* One request and its response over a stream, byte by byte: Connector.Send *)
(* on the asking node, Connector.reader on the other, the conversions of   *)
(* messages/entities.go and the wire format of MsgCodec between them.      *)
(*                                                                         *)
(* The stream keeps bytes in order but not the limits of writes: receive   *)
(* makes one Read into a buffer of Limit bytes, gets any non-empty prefix  *)
(* of what was written, and decodes that.  No length is sent along.        *)
(*                                                                         *)
(* The asking node may also run another version of the program, which      *)
(* appends fields of its own to the request (Extend).                      *)
(*                                                                         *)
(* Times are counted in ticks of 1 / Ticks seconds; the wire has seconds.  *)
(***************************************************************************)
EXTENDS MsgCodec

CONSTANTS
    Requests,       \* the requests Send is called with
    Extended,       \* what another version extends: <<>> or <<r>>, r a request
    StorageReplies, \* the results of ProcessStorageRequest
    LinkLists,      \* the results of ProcessRetrievalRequest
    Fragments,      \* pieces of bytes another version may append
    MaxFragments,   \* bound: the number of pieces appended
    Limit,          \* the size of the buffer of receive (1000 in the code)
    Ticks           \* ticks per second

VARIABLES
    client,     \* where Send is: idle, sent, returned, panic; or other: another version
    request,    \* its request, <<>> before the call
    up,         \* what Send has written
    extra,      \* what another version has written behind it
    pieces,     \* the number of pieces in extra
    server,     \* where reader is: reading, serving, replied, returned, panic
    seen,       \* the number of bytes the Read of reader returned
    served,     \* the request given to the OfferManager, <<>> if none
    reply,      \* its answer, <<>> before there is one
    down,       \* the answer as written to the stream
    heard,      \* the number of bytes the Read of Send returned
    response,   \* the response Send unpacked, <<>> if none
    ack         \* 2 waiting, 1 accepted, 0 declined

vars == <<client, request, up, extra, pieces, server, seen, served, reply, down,
          heard, response, ack>>

serverVars == <<server, seen, served, reply, down>>
clientVars == <<client, request, up, extra, pieces, heard, response, ack>>

-----------------------------------------------------------------------------
(* messages/entities.go *)

STORAGE_REQUEST == 1
STORAGE_RESPONSE == 2
RETRIEVAL_REQUEST == 3
RETRIEVAL_RESPONSE == 4

Unix(t) == t \div Ticks
FromUnix(s) == s * Ticks

\* The structs.  The seconds of a time are an int64.
Time == {t \in Int : Unix(t) \in Int64}

StorageContract ==
    [owner_id : Bytes, size : Uint32, cid : Bytes, expires : Time,
     cardinality : Uint32, datatype : Uint32]

StorageRequest == [go : {"StorageRequest"}, multiaddr : Bytes, contract : StorageContract]

StorageResponse == [go : {"StorageResponse"}, multiaddr : Bytes, done : BOOLEAN]

RetrievalRequest ==
    [go : {"RetrievalRequest"}, multiaddr : Bytes, owner_id : Bytes, timestamp : Time,
     signature : Bytes]

RetrievalResponse == [go : {"RetrievalResponse"}, ipfs_links : Seq(Bytes)]

ContractToProtobuf(c) ==
    [New("Contract") EXCEPT
        !.owner_id = c.owner_id, !.size = c.size, !.cid = c.cid, !.expires = Unix(c.expires),
        !.cardinality = c.cardinality, !.datatype = c.datatype]

\* Mutant of StorageRequestToProtobuf: the contract is forgotten.
StorageRequestNoContract(r) ==
    [New("Message") EXCEPT
        !.type = STORAGE_REQUEST,
        !.storage_request =
            <<[New("MsgStorageRequest") EXCEPT !.multiaddr = r.multiaddr]>>]

StorageRequestToProtobuf(r) ==
    [New("Message") EXCEPT
        !.type = STORAGE_REQUEST,
        !.storage_request =
            <<[New("MsgStorageRequest") EXCEPT
                !.multiaddr = r.multiaddr, !.contract = <<ContractToProtobuf(r.contract)>>]>>]

StorageResponseToProtobuf(r) ==
    [New("Message") EXCEPT
        !.type = STORAGE_RESPONSE,
        !.storage_response =
            <<[New("MsgStorageResponse") EXCEPT !.multiaddr = r.multiaddr, !.done = r.done]>>]

RetrievalRequestToProtobuf(r) ==
    [New("Message") EXCEPT
        !.type = RETRIEVAL_REQUEST,
        !.retrieval_request =
            <<[New("MsgRetrievalRequest") EXCEPT
                !.multiaddr = r.multiaddr, !.owner_id = r.owner_id,
                !.timestamp = Unix(r.timestamp), !.signature = r.signature]>>]

RetrievalResponseToProtobuf(r) ==
    [New("Message") EXCEPT
        !.type = RETRIEVAL_RESPONSE,
        !.retrieval_response = <<[New("MsgRetrievalResponse") EXCEPT !.ipfs_links = r.ipfs_links]>>]

MarshalToProtobuf(r) ==
    CASE r.go = "StorageRequest" -> StorageRequestToProtobuf(r)
      [] r.go = "StorageResponse" -> StorageResponseToProtobuf(r)
      [] r.go = "RetrievalRequest" -> RetrievalRequestToProtobuf(r)
      [] r.go = "RetrievalResponse" -> RetrievalResponseToProtobuf(r)

\* Mutant of StorageRequestOf: two fields are exchanged.
StorageRequestSwapped(b, c) ==
    [go |-> "StorageRequest", multiaddr |-> b.multiaddr,
     contract |-> [owner_id |-> c.owner_id, size |-> c.size, cid |-> c.cid,
                   expires |-> FromUnix(c.expires), cardinality |-> c.datatype,
                   datatype |-> c.cardinality]]

\* Mutant of StorageRequestOf: the size is converted to an int32.
StorageRequestSigned(b, c) ==
    [go |-> "StorageRequest", multiaddr |-> b.multiaddr,
     contract |-> [owner_id |-> c.owner_id, size |-> Signed(W32, c.size), cid |-> c.cid,
                   expires |-> FromUnix(c.expires), cardinality |-> c.cardinality,
                   datatype |-> c.datatype]]

StorageRequestOf(b, c) ==
    [go |-> "StorageRequest", multiaddr |-> b.multiaddr,
     contract |-> [owner_id |-> c.owner_id, size |-> c.size, cid |-> c.cid,
                   expires |-> FromUnix(c.expires), cardinality |-> c.cardinality,
                   datatype |-> c.datatype]]

\* The message in p: none if the part its type speaks of, or the contract in
\* it, is nil, in which case the code dereferences nil and the process ends.
UnmarshalFromProtobuf(p) ==
    CASE p.type = STORAGE_REQUEST ->
            {StorageRequestOf(b, b.contract[1]) :
                b \in {q \in ToSet(p.storage_request) : q.contract # <<>>}}
      [] p.type = STORAGE_RESPONSE ->
            {[go |-> "StorageResponse", multiaddr |-> b.multiaddr, done |-> b.done] :
                b \in ToSet(p.storage_response)}
      [] p.type = RETRIEVAL_REQUEST ->
            {[go |-> "RetrievalRequest", multiaddr |-> b.multiaddr, owner_id |-> b.owner_id,
              timestamp |-> FromUnix(b.timestamp), signature |-> b.signature] :
                b \in ToSet(p.retrieval_request)}
      [] p.type = RETRIEVAL_RESPONSE ->
            {[go |-> "RetrievalResponse", ipfs_links |-> b.ipfs_links] :
                b \in ToSet(p.retrieval_response)}

-----------------------------------------------------------------------------
\* write: WriteMsg marshals the message and writes it at once.
write(r) == MessageMarshal(MarshalToProtobuf(r))

\* What a Read of n bytes yields: the decoded message, none if that fails.
receive(b, n) == MessageUnmarshal(SubSeq(b, 1, n))

Replies == StorageReplies \cup {[go |-> "RetrievalResponse", ipfs_links |-> l] : l \in LinkLists}

\* The bytes of a message fit a slice, with room for another field.
ASSUME ExchangeAssumption ==
    /\ Requests \subseteq StorageRequest \cup RetrievalRequest
    /\ StorageReplies \subseteq StorageResponse
    /\ LinkLists \subseteq Seq(Bytes)
    /\ \A r \in Requests \cup Replies : Len(write(r)) < W64 \div 4
    /\ Extended \subseteq {<<>>} \cup {<<r>> : r \in Requests}
    /\ Fragments \subseteq Bytes
    /\ \A f \in Fragments : MaxFragments * Len(f) < W64 \div 4
    /\ MaxFragments \in Nat
    /\ Limit \in Nat \ {0}
    /\ Ticks \in Nat \ {0}

Init ==
    /\ client = "idle"
    /\ request = <<>> /\ up = <<>> /\ extra = <<>> /\ pieces = 0
    /\ server = "reading"
    /\ seen = 0 /\ served = <<>> /\ reply = <<>> /\ down = <<>>
    /\ heard = 0 /\ response = <<>> /\ ack = 2

\* A Read that returns n of the bytes b; n = 0 is a Read that fails.
Readable(b, n) == n \in 0 .. (IF Len(b) < Limit THEN Len(b) ELSE Limit)

-----------------------------------------------------------------------------
(* Send, up to the Read of the response. *)

SendRequest(r) ==
    /\ client = "idle"
    /\ client' = "sent"
    /\ request' = <<r>>
    /\ up' = write(r)
    /\ UNCHANGED <<extra, pieces, heard, response, ack>>
    /\ UNCHANGED serverVars

\* write returns an error; some of the bytes, or all, may still arrive.
WriteFails(r) ==
    /\ client = "idle"
    /\ client' = "returned"
    /\ request' = <<r>>
    /\ up' = write(r)
    /\ ack' = 0
    /\ UNCHANGED <<extra, pieces, heard, response>>
    /\ UNCHANGED serverVars

\* Another version of the program asks, with a request of this one or none.
OtherAsks(rs) ==
    /\ client = "idle"
    /\ client' = "other"
    /\ request' = rs
    /\ up' = IF rs = <<>> THEN <<>> ELSE write(rs[1])
    /\ UNCHANGED <<extra, pieces, heard, response, ack>>
    /\ UNCHANGED serverVars

Extend(f) ==
    /\ client = "other"
    /\ server = "reading"
    /\ pieces < MaxFragments
    /\ extra' = extra \o f
    /\ pieces' = pieces + 1
    /\ UNCHANGED <<client, request, up, heard, response, ack>>
    /\ UNCHANGED serverVars

-----------------------------------------------------------------------------
(* reader *)

\* The Read fails, or what it returned is no message or no request.
ReadFails(n) ==
    /\ server = "reading"
    /\ client # "idle"
    /\ Readable(up \o extra, n)
    /\ n > 0 => \A in \in receive(up \o extra, n) :
                    in.type \notin {STORAGE_REQUEST, RETRIEVAL_REQUEST}
    /\ server' = "returned"
    /\ seen' = n
    /\ UNCHANGED <<served, reply, down>>
    /\ UNCHANGED clientVars

ReadRequest(n) ==
    /\ server = "reading"
    /\ client # "idle"
    /\ n > 0
    /\ Readable(up \o extra, n)
    /\ seen' = n
    /\ \E in \in receive(up \o extra, n) :
        /\ in.type \in {STORAGE_REQUEST, RETRIEVAL_REQUEST}
        /\ \/ \E msg \in UnmarshalFromProtobuf(in) :
                /\ served' = <<msg>>
                /\ server' = "serving"
           \/ /\ UnmarshalFromProtobuf(in) = {}
              /\ server' = "panic"
              /\ served' = served
    /\ UNCHANGED <<reply, down>>
    /\ UNCHANGED clientVars

\* The OfferManager answers and the answer is written; when the write fails,
\* some of the bytes, or all, may still arrive.
Reply(r) ==
    /\ server = "serving"
    /\ \/ served[1].go = "StorageRequest" /\ r.go = "StorageResponse"
       \/ served[1].go = "RetrievalRequest" /\ r.go = "RetrievalResponse"
    /\ server' = "replied"
    /\ reply' = <<r>>
    /\ down' = write(r)
    /\ UNCHANGED <<seen, served>>
    /\ UNCHANGED clientVars

-----------------------------------------------------------------------------
(* Send, from the Read of the response on. *)

ResponseType(r) == IF r.go = "StorageRequest" THEN STORAGE_RESPONSE ELSE RETRIEVAL_RESPONSE

\* Mutant of AckOf: a storage response is taken for an acceptance.
AckUnread(r) == IF r.go = "StorageResponse" \/ r.ipfs_links # <<>> THEN 1 ELSE 0

AckOf(r) ==
    IF \/ r.go = "StorageResponse" /\ r.done
       \/ r.go = "RetrievalResponse" /\ r.ipfs_links # <<>>
    THEN 1 ELSE 0

\* The Read fails, or what it returned is no message or no fitting response.
ReplyFails(n) ==
    /\ client = "sent"
    /\ Readable(down, n)
    /\ n > 0 => \A in \in receive(down, n) : in.type # ResponseType(request[1])
    /\ client' = "returned"
    /\ heard' = n
    /\ ack' = 0
    /\ UNCHANGED <<request, up, extra, pieces, response>>
    /\ UNCHANGED serverVars

ReadReply(n) ==
    /\ client = "sent"
    /\ n > 0
    /\ Readable(down, n)
    /\ heard' = n
    /\ \E in \in receive(down, n) :
        /\ in.type = ResponseType(request[1])
        /\ \/ \E msg \in UnmarshalFromProtobuf(in) :
                /\ response' = <<msg>>
                /\ ack' = AckOf(msg)
                /\ client' = "returned"
           \/ /\ UnmarshalFromProtobuf(in) = {}
              /\ client' = "panic"
              /\ UNCHANGED <<response, ack>>
    /\ UNCHANGED <<request, up, extra, pieces>>
    /\ UNCHANGED serverVars

-----------------------------------------------------------------------------
Next ==
    \/ \E r \in Requests : SendRequest(r) \/ WriteFails(r)
    \/ \E rs \in Extended : OtherAsks(rs)
    \/ \E f \in Fragments : Extend(f)
    \/ \E n \in 0 .. Len(up \o extra) : ReadFails(n) \/ ReadRequest(n)
    \/ \E r \in Replies : Reply(r)
    \/ \E n \in 0 .. Len(down) : ReplyFails(n) \/ ReadReply(n)

Spec == Init /\ [][Next]_vars

-----------------------------------------------------------------------------
(* Properties. *)

\* What was asked for: times are rounded down to whole seconds on the way.
Rounded(r) ==
    IF r.go = "StorageRequest"
    THEN [r EXCEPT !.contract.expires = FromUnix(Unix(@))]
    ELSE [r EXCEPT !.timestamp = FromUnix(Unix(@))]

\* Fields this version does not know, and no others.
OnlyUnknown(b) == Unmarshal("Message", b) = {[New("Message") EXCEPT !.unrecognized = b]}

\* The bytes that are still to be read.
InTransit ==
    (IF server = "reading" THEN {up, extra} ELSE {})
        \cup (IF server = "replied" /\ client = "sent" THEN {down} ELSE {})

\* The types: bytes on the wire, and integers that fit their Go types in every
\* request that reaches the OfferManager, whatever was sent.
TypeOK ==
    /\ client \in {"idle", "sent", "returned", "panic", "other"}
    /\ server \in {"reading", "serving", "replied", "returned", "panic"}
    /\ up \in Seq(Byte) /\ extra \in Seq(Byte) /\ down \in Seq(Byte)
    /\ pieces \in 0 .. MaxFragments
    /\ seen \in 0 .. Limit /\ heard \in 0 .. Limit
    /\ ack \in 0 .. 2
    /\ \A r \in ToSet(served) : r.go = "StorageRequest" =>
            /\ {r.contract.size, r.contract.cardinality, r.contract.datatype} \subseteq 0 .. W32 - 1
            /\ Unix(r.contract.expires) \in -(W64 \div 2) .. (W64 \div 2) - 1

\* What reader hands to the OfferManager is the request that was sent, expiry
\* rounded down to the second, and never part of it, however many bytes the one
\* Read of receive returned and whatever a later version added to it.
ServedAsSent ==
    (served # <<>> /\ request # <<>> /\ (extra = <<>> \/ OnlyUnknown(extra)))
        => served = <<Rounded(request[1])>>

\* A Send reports acceptance only if the other node answered with Done, or with
\* links, and reports that answer as it was given.
AckTruthful ==
    /\ ack = 1 => response # <<>> /\ (response[1].go = "StorageResponse" => response[1].done)
    /\ response # <<>> => response = reply

\* UnmarshalFromProtobuf dereferences nil, which ends the process, only if the
\* Read of receive ended right behind the type: two nodes of this version never
\* send each other a message without the part that belongs to its type.
CrashOnlyAfterType ==
    /\ server = "panic" /\ extra = <<>> => seen = 2
    /\ client = "panic" => heard = 2

\* Size is the number of bytes Marshal fills, for every message the decoder
\* yields: MarshalToSizedBuffer fills the buffer of that size to its first byte.
SizeExact ==
    \A b \in InTransit :
        /\ \A m \in OfferUnmarshal(b) : OfferSize(m) = Len(OfferMarshal(m))
        /\ \A m \in ContractUnmarshal(b) : ContractSize(m) = Len(ContractMarshal(m))
        /\ \A m \in MessageUnmarshal(b) : MessageSize(m) = Len(MessageMarshal(m))
        /\ \A m \in MsgStorageRequestUnmarshal(b) :
                MsgStorageRequestSize(m) = Len(MsgStorageRequestMarshal(m))
        /\ \A m \in MsgStorageResponseUnmarshal(b) :
                MsgStorageResponseSize(m) = Len(MsgStorageResponseMarshal(m))
        /\ \A m \in MsgRetrievalRequestUnmarshal(b) :
                MsgRetrievalRequestSize(m) = Len(MsgRetrievalRequestMarshal(m))
        /\ \A m \in MsgRetrievalResponseUnmarshal(b) :
                MsgRetrievalResponseSize(m) = Len(MsgRetrievalResponseMarshal(m))

\* What Unmarshal accepts, known fields and unknown ones, survives being written
\* and read again by this version, so that nothing it passes on is lost.
DecodedIsStable ==
    \A b \in InTransit :
        /\ \A m \in OfferUnmarshal(b) : OfferUnmarshal(OfferMarshal(m)) = {m}
        /\ \A m \in ContractUnmarshal(b) : ContractUnmarshal(ContractMarshal(m)) = {m}
        /\ \A m \in MessageUnmarshal(b) : MessageUnmarshal(MessageMarshal(m)) = {m}
        /\ \A m \in MsgStorageRequestUnmarshal(b) :
                MsgStorageRequestUnmarshal(MsgStorageRequestMarshal(m)) = {m}
        /\ \A m \in MsgStorageResponseUnmarshal(b) :
                MsgStorageResponseUnmarshal(MsgStorageResponseMarshal(m)) = {m}
        /\ \A m \in MsgRetrievalRequestUnmarshal(b) :
                MsgRetrievalRequestUnmarshal(MsgRetrievalRequestMarshal(m)) = {m}
        /\ \A m \in MsgRetrievalResponseUnmarshal(b) :
                MsgRetrievalResponseUnmarshal(MsgRetrievalResponseMarshal(m)) = {m}
=============================================================================
