------------------------------ MODULE MsgCodec ------------------------------
(***************************************************************************)
(* The wire format of the messages nodes exchange: what the generated code *)
(* of gen/msg/msg.pb.go computes.  Bytes are numbers below 256, strings are *)
(* sequences of bytes.  A Go message is a record with its fields and the   *)
(* bytes of fields this version does not know; a pointer to a message is a *)
(* sequence of at most one message (empty: nil).                           *)
(*                                                                         *)
(* The generated code repeats the same loops for every field of every      *)
(* message.  Here they are written once, over a table of the fields, and   *)
(* Size, Marshal and Unmarshal of each message are instances of them.      *)
(*                                                                         *)
(* A parser is the set of its results: one result, or none where the code  *)
(* returns an error.                                                       *)
(***************************************************************************)
EXTENDS Integers, Sequences, SequencesExt

CONSTANTS
    W32,    \* 2^32 in the code: int32 and uint32 are computed modulo W32
    W64     \* 2^64 in the code: varints, int64 and lengths modulo W64

\* 2^32 divides 2^64, and both leave room for a varint of two bytes or more.
ASSUME WidthAssumption ==
    /\ W32 \in Nat /\ W64 \in Nat
    /\ W32 % 2 = 0 /\ W64 % 2 = 0
    /\ 128 < W32 /\ W32 < W64 /\ W64 % W32 = 0

Byte == 0 .. 255
Bytes == Seq(Byte)
Uint32 == 0 .. W32 - 1
Int32 == -(W32 \div 2) .. (W32 \div 2) - 1
Int64 == -(W64 \div 2) .. (W64 \div 2) - 1

\* A pointer to an S.
Optional(S) == {s \in Seq(S) : Len(s) <= 1}

\* The two's complement reading of u in a word with w values.
Signed(w, u) == IF u % w >= w \div 2 THEN (u % w) - w ELSE u % w

Drop(b, n) == SubSeq(b, n + 1, Len(b))

-----------------------------------------------------------------------------
(* The messages. *)

Offer == [multiaddr : Bytes, capacity : Uint32, timestamp : Int64, signature : Bytes,
          unrecognized : Bytes]

Contract == [owner_id : Bytes, size : Uint32, cid : Bytes, expires : Int64,
             cardinality : Uint32, datatype : Uint32, unrecognized : Bytes]

MsgStorageRequest ==
    [multiaddr : Bytes, contract : Optional(Contract), unrecognized : Bytes]

MsgStorageResponse == [multiaddr : Bytes, done : BOOLEAN, unrecognized : Bytes]

MsgRetrievalRequest ==
    [multiaddr : Bytes, owner_id : Bytes, timestamp : Int64, signature : Bytes,
     unrecognized : Bytes]

MsgRetrievalResponse == [ipfs_links : Seq(Bytes), unrecognized : Bytes]

Message ==
    [type : Int32, storage_request : Optional(MsgStorageRequest),
     storage_response : Optional(MsgStorageResponse),
     retrieval_request : Optional(MsgRetrievalRequest),
     retrieval_response : Optional(MsgRetrievalResponse), unrecognized : Bytes]

Types == {"Offer", "Contract", "MsgStorageRequest", "MsgStorageResponse",
          "MsgRetrievalRequest", "MsgRetrievalResponse", "Message"}

\* The messages of type T, and all messages.
Msg(T) ==
    CASE T = "Offer" -> Offer
      [] T = "Contract" -> Contract
      [] T = "MsgStorageRequest" -> MsgStorageRequest
      [] T = "MsgStorageResponse" -> MsgStorageResponse
      [] T = "MsgRetrievalRequest" -> MsgRetrievalRequest
      [] T = "MsgRetrievalResponse" -> MsgRetrievalResponse
      [] T = "Message" -> Message

AnyMsg == Offer \cup Contract \cup MsgStorageRequest \cup MsgStorageResponse
            \cup MsgRetrievalRequest \cup MsgRetrievalResponse \cup Message

F(name, kind) == [name |-> name, kind |-> kind]

OfferFields ==
    <<F("multiaddr", "string"), F("capacity", "uint32"),
      F("timestamp", "int64"), F("signature", "string")>>

ContractFields ==
    <<F("owner_id", "string"), F("size", "uint32"), F("cid", "string"),
      F("expires", "int64"), F("cardinality", "uint32"), F("datatype", "uint32")>>

MessageFields ==
    <<F("type", "enum"), F("storage_request", "MsgStorageRequest"),
      F("storage_response", "MsgStorageResponse"),
      F("retrieval_request", "MsgRetrievalRequest"),
      F("retrieval_response", "MsgRetrievalResponse")>>

MsgStorageRequestFields ==
    <<F("multiaddr", "string"), F("contract", "Contract")>>

MsgStorageResponseFields ==
    <<F("multiaddr", "string"), F("done", "bool")>>

MsgRetrievalRequestFields ==
    <<F("multiaddr", "string"), F("owner_id", "string"),
      F("timestamp", "int64"), F("signature", "string")>>

MsgRetrievalResponseFields == <<F("ipfs_links", "strings")>>

\* Field number k of message T is Fields[T][k].
Fields ==
    [Offer |-> OfferFields, Contract |-> ContractFields, Message |-> MessageFields,
     MsgStorageRequest |-> MsgStorageRequestFields,
     MsgStorageResponse |-> MsgStorageResponseFields,
     MsgRetrievalRequest |-> MsgRetrievalRequestFields,
     MsgRetrievalResponse |-> MsgRetrievalResponseFields]

NameOf(T, k) == Fields[T][k].name
KindOf(T, k) == Fields[T][k].kind

IsVarint(kind) == kind \in {"uint32", "int64", "enum", "bool"}

\* The value of a field that is not set; such fields are not written.
ZeroOf(kind) ==
    CASE kind = "bool" -> FALSE
      [] kind \in {"uint32", "int64", "enum"} -> 0
      [] OTHER -> <<>>

\* The message with no field set.
New(T) ==
    [x \in {NameOf(T, k) : k \in DOMAIN Fields[T]} \cup {"unrecognized"} |->
        IF x = "unrecognized" THEN <<>>
        ELSE ZeroOf(KindOf(T, CHOOSE k \in DOMAIN Fields[T] : NameOf(T, k) = x))]

-----------------------------------------------------------------------------
(* Varints. *)

Len64[x \in Nat] == IF x = 0 THEN 0 ELSE 1 + Len64[x \div 2]

\* Mutant of sovMsg: without the "| 1" a zero takes no byte.
sovNoZero(x) == (Len64[x] + 6) \div 7

\* The number of bytes of x as a varint: x | 1 differs from x in the last bit.
sovMsg(x) == (Len64[x + 1 - (x % 2)] + 6) \div 7

encodeVarintMsg[v \in Nat] ==
    IF v < 128 THEN <<v>>
    ELSE <<128 + (v % 128)>> \o encodeVarintMsg[v \div 128]

\* The varint at the start of b, with the number n of its bytes: none if b ends
\* before it does.
VarintAt[b \in Bytes] ==
    IF b = <<>> THEN {}
    ELSE IF b[1] < 128 THEN {[v |-> b[1], n |-> 1]}
    ELSE {[v |-> b[1] - 128 + 128 * r.v, n |-> r.n + 1] : r \in VarintAt[Tail(b)]}

\* It also fails after as many bytes as W64 takes (shift >= 64).
Varint(b) ==
    LET most == IF Len(b) < sovMsg(W64 - 1) THEN Len(b) ELSE sovMsg(W64 - 1)
    IN  {[v |-> r.v % W64, n |-> r.n] : r \in VarintAt[SubSeq(b, 1, most)]}

\* The varint that stands for a value, and the value a varint stands for.
ToUint64(kind, v) == IF kind = "bool" THEN (IF v THEN 1 ELSE 0) ELSE v % W64



FromUint64(kind, u) ==
    CASE kind = "bool" -> u # 0
      [] kind = "uint32" -> u % W32
      [] kind = "enum" -> Signed(W32, u)
      [] kind = "int64" -> Signed(W64, u)

-----------------------------------------------------------------------------
(* Size and Marshal. *)

Delimited(num, b) == <<8 * num + 2>> \o encodeVarintMsg[Len(b)] \o b

SumOf[s \in Seq(Nat)] == IF s = <<>> THEN 0 ELSE s[1] + SumOf[Tail(s)]

Concat[s \in Seq(Bytes)] == IF s = <<>> THEN <<>> ELSE s[1] \o Concat[Tail(s)]

\* A message with its type.
TypedMsg == {x \in Types \X AnyMsg : x[2] \in Msg(x[1])}

\* 1 + l + sovMsg(l) for each string or message, 1 + sovMsg(v) for an integer.
\* size is Size, for the messages inside.
FieldSize(kind, v, size) ==
    LET delimited(l) == 1 + l + sovMsg(l)
    IN  IF v = ZeroOf(kind) THEN 0
        ELSE CASE kind = "bool" -> 2
          [] kind \in {"uint32", "int64", "enum"} -> 1 + sovMsg(ToUint64(kind, v))
          [] kind = "string" -> delimited(Len(v))
          [] kind = "strings" -> SumOf[[k \in DOMAIN v |-> delimited(Len(v[k]))]]
          [] OTHER -> delimited(size[<<kind, v[1]>>])

SizeOf[x \in TypedMsg] ==
    SumOf[[k \in DOMAIN Fields[x[1]] |->
            FieldSize(KindOf(x[1], k), x[2][NameOf(x[1], k)], SizeOf)]]
        + Len(x[2].unrecognized)

Size(T, m) == SizeOf[<<T, m>>]

FieldBytes(num, kind, v, marshal) ==
    IF v = ZeroOf(kind) THEN <<>>
    ELSE CASE IsVarint(kind) -> <<8 * num>> \o encodeVarintMsg[ToUint64(kind, v)]
      [] kind = "string" -> Delimited(num, v)
      [] kind = "strings" -> Concat[[k \in DOMAIN v |-> Delimited(num, v[k])]]
      [] OTHER -> Delimited(num, marshal[<<kind, v[1]>>])

\* The buffer is filled from its end, the fields in descending order, so that
\* they stand in ascending order with the unrecognized bytes behind them.
MarshalOf[x \in TypedMsg] ==
    Concat[[k \in DOMAIN Fields[x[1]] |->
                FieldBytes(k, KindOf(x[1], k), x[2][NameOf(x[1], k)], MarshalOf)]]
        \o x[2].unrecognized

Marshal(T, m) == MarshalOf[<<T, m>>]

-----------------------------------------------------------------------------
(* Unmarshal. *)

\* A length, read as an int: it must not be negative.
Length(b) == {l \in Varint(b) : Signed(W64, l.v) >= 0}

\* Where a field with wire type wt ends when its value begins after i bytes.
SkipValue(b, i, wt) ==
    CASE wt = 0 -> {i + v.n : v \in Varint(Drop(b, i))}
      [] wt = 1 -> {i + 8}
      [] wt = 2 -> {i + l.n + l.v : l \in Length(Drop(b, i))}
      [] wt = 5 -> {i + 4}
      [] wt \in {3, 4} -> {i}
      [] OTHER -> {}

Depth(depth, wt) == depth + (IF wt = 3 THEN 1 ELSE IF wt = 4 THEN -1 ELSE 0)

\* The end when a value ends after e bytes, inside depth groups.
SkipRest(b, depth, e, skip) ==
    IF depth = 0 THEN {e} ELSE {e + s : s \in skip[<<Drop(b, e), depth>>]}

\* The same when the tag is w.
SkipField(b, depth, w, skip) ==
    LET d == Depth(depth, w.v % 8)
    IN  IF d < 0 THEN {}
        ELSE UNION {SkipRest(b, d, e, skip) : e \in SkipValue(b, w.n, w.v % 8)}

\* x = <<b, depth>>: the end of the field at the start of b, or of the groups
\* around it.  It may lie beyond b; the caller looks at that.
skipFrom[x \in Bytes \X Nat] ==
    UNION {SkipField(x[1], x[2], w, skipFrom) : w \in Varint(x[1])}

skipMsg(b) == skipFrom[<<b, 0>>]

\* The tag at the start of b: field number, wire type, and its bytes.
Tag(b) ==
    {t \in {[num |-> Signed(W32, w.v \div 8), wt |-> w.v % 8, n |-> w.n] : w \in Varint(b)} :
        t.wt # 4 /\ t.num > 0}

\* Mutant of UnknownField: the tag is not kept.
UnknownFieldNoTag(m, b) ==
    {[m |-> [m EXCEPT !.unrecognized = @ \o SubSeq(b, 2, e)], n |-> e] :
        e \in {x \in skipMsg(b) : x <= Len(b)}}

\* A field this version does not know is kept as it is, tag included.
UnknownField(m, b) ==
    {[m |-> [m EXCEPT !.unrecognized = @ \o SubSeq(b, 1, e)], n |-> e] :
        e \in {x \in skipMsg(b) : x <= Len(b)}}

VarintField(T, m, t, b) ==
    {[m |-> [m EXCEPT ![NameOf(T, t.num)] = FromUint64(KindOf(T, t.num), v.v)], n |-> t.n + v.n] :
        v \in {u \in Varint(Drop(b, t.n)) : t.wt = 0}}

\* The message a field is decoded into: the one that is there, or a new one.
Target(kind, old) == IF old = <<>> THEN New(kind) ELSE old[1]

\* The new value of a string, list or message whose field contains body: lists
\* are appended to, messages merged into what is there, by unmarshal.
Received(kind, old, body, unmarshal) ==
    CASE kind = "string" -> {body}
      [] kind = "strings" -> {Append(old, body)}
      [] OTHER -> {<<x>> : x \in unmarshal[<<kind, Target(kind, old), body>>]}

\* The field is the one of l.v bytes behind the tag t and the length l.
Body(T, m, t, l, b, unmarshal) ==
    {[m |-> [m EXCEPT ![NameOf(T, t.num)] = v], n |-> t.n + l.n + l.v] :
        v \in Received(KindOf(T, t.num), m[NameOf(T, t.num)],
                       SubSeq(b, t.n + l.n + 1, t.n + l.n + l.v), unmarshal)}

DelimitedField(T, m, t, b, unmarshal) ==
    UNION {Body(T, m, t, l, b, unmarshal) :
           l \in {k \in Length(Drop(b, t.n)) : t.wt = 2 /\ t.n + k.n + k.v <= Len(b)}}

KnownField(T, m, t, b, unmarshal) ==
    IF IsVarint(KindOf(T, t.num)) THEN VarintField(T, m, t, b)
    ELSE DelimitedField(T, m, t, b, unmarshal)

\* One round of the loop: m with the field at the start of b, and its bytes.
Field(T, m, b, unmarshal) ==
    UNION {IF t.num > Len(Fields[T]) THEN UnknownField(m, b)
           ELSE KnownField(T, m, t, b, unmarshal) : t \in Tag(b)}

\* The arguments <<T, m, b>> of UnmarshalOf.
Decoding == {x \in Types \X AnyMsg \X Bytes : x[2] \in Msg(x[1])}

\* x = <<T, m, b>>: m with the fields in b.
UnmarshalOf[x \in Decoding] ==
    IF x[3] = <<>> THEN {x[2]}
    ELSE UNION {UnmarshalOf[<<x[1], r.m, Drop(x[3], r.n)>>] :
                    r \in Field(x[1], x[2], x[3], UnmarshalOf)}

Unmarshal(T, b) == UnmarshalOf[<<T, New(T), b>>]

-----------------------------------------------------------------------------
(* The methods of each message. *)

OfferSize(m) == Size("Offer", m)
OfferMarshal(m) == Marshal("Offer", m)
OfferUnmarshal(b) == Unmarshal("Offer", b)

ContractSize(m) == Size("Contract", m)
ContractMarshal(m) == Marshal("Contract", m)
ContractUnmarshal(b) == Unmarshal("Contract", b)

MsgStorageRequestSize(m) == Size("MsgStorageRequest", m)
MsgStorageRequestMarshal(m) == Marshal("MsgStorageRequest", m)
MsgStorageRequestUnmarshal(b) == Unmarshal("MsgStorageRequest", b)

MsgStorageResponseSize(m) == Size("MsgStorageResponse", m)
MsgStorageResponseMarshal(m) == Marshal("MsgStorageResponse", m)
MsgStorageResponseUnmarshal(b) == Unmarshal("MsgStorageResponse", b)

MsgRetrievalRequestSize(m) == Size("MsgRetrievalRequest", m)
MsgRetrievalRequestMarshal(m) == Marshal("MsgRetrievalRequest", m)
MsgRetrievalRequestUnmarshal(b) == Unmarshal("MsgRetrievalRequest", b)

MsgRetrievalResponseSize(m) == Size("MsgRetrievalResponse", m)
MsgRetrievalResponseMarshal(m) == Marshal("MsgRetrievalResponse", m)
MsgRetrievalResponseUnmarshal(b) == Unmarshal("MsgRetrievalResponse", b)

MessageSize(m) == Size("Message", m)
MessageMarshal(m) == Marshal("Message", m)
MessageUnmarshal(b) == Unmarshal("Message", b)
=============================================================================
