--------------------------- MODULE Exchange_proofs ---------------------------
(***************************************************************************)
(* Proofs about Exchange: what one node serves and the other believes, for *)
(* all requests, answers, buffer sizes and limits of a Read.               *)
(***************************************************************************)
EXTENDS Exchange, MsgCodec_proofs

-----------------------------------------------------------------------------
(* The messages written. *)

\* The messages with no field set.
LEMMA NewForms ==
    /\ New("Message") =
            [type |-> 0, storage_request |-> <<>>, storage_response |-> <<>>,
             retrieval_request |-> <<>>, retrieval_response |-> <<>>, unrecognized |-> <<>>]
    /\ New("Contract") =
            [owner_id |-> <<>>, size |-> 0, cid |-> <<>>, expires |-> 0, cardinality |-> 0,
             datatype |-> 0, unrecognized |-> <<>>]
    /\ New("MsgStorageRequest") = [multiaddr |-> <<>>, contract |-> <<>>, unrecognized |-> <<>>]
    /\ New("MsgStorageResponse") = [multiaddr |-> <<>>, done |-> FALSE, unrecognized |-> <<>>]
    /\ New("MsgRetrievalRequest") =
            [multiaddr |-> <<>>, owner_id |-> <<>>, timestamp |-> 0, signature |-> <<>>,
             unrecognized |-> <<>>]
    /\ New("MsgRetrievalResponse") = [ipfs_links |-> <<>>, unrecognized |-> <<>>]
<1>1. New("Message") =
            [type |-> 0, storage_request |-> <<>>, storage_response |-> <<>>,
             retrieval_request |-> <<>>, retrieval_response |-> <<>>, unrecognized |-> <<>>]
  <2> DEFINE m == New("Message")
  <2>1. m \in Message /\ m.unrecognized = <<>>
        /\ \A k \in 1 .. Len(Fields["Message"]) : m[NameOf("Message", k)] = ZeroOf(KindOf("Message", k))
    BY NewProperties, MsgCases DEF Types
  <2>2. /\ Len(Fields["Message"]) = 5
        /\ NameOf("Message", 1) = "type" /\ KindOf("Message", 1) = "enum"
        /\ NameOf("Message", 2) = "storage_request" /\ KindOf("Message", 2) = "MsgStorageRequest"
        /\ NameOf("Message", 3) = "storage_response" /\ KindOf("Message", 3) = "MsgStorageResponse"
        /\ NameOf("Message", 4) = "retrieval_request" /\ KindOf("Message", 4) = "MsgRetrievalRequest"
        /\ NameOf("Message", 5) = "retrieval_response" /\ KindOf("Message", 5) = "MsgRetrievalResponse"
    BY DEF Fields, MessageFields, F, NameOf, KindOf
  <2> HIDE DEF m
  <2>3. /\ m["type"] = 0 /\ m["storage_request"] = <<>> /\ m["storage_response"] = <<>>
        /\ m["retrieval_request"] = <<>> /\ m["retrieval_response"] = <<>>
    <3>1. /\ m["type"] = ZeroOf("enum") /\ m["storage_request"] = ZeroOf("MsgStorageRequest")
          /\ m["storage_response"] = ZeroOf("MsgStorageResponse")
          /\ m["retrieval_request"] = ZeroOf("MsgRetrievalRequest")
          /\ m["retrieval_response"] = ZeroOf("MsgRetrievalResponse")
      BY <2>1, <2>2
    <3> QED
      BY <3>1, ZeroCases DEF Parts
  <2>4. m = [type |-> 0, storage_request |-> <<>>, storage_response |-> <<>>,
             retrieval_request |-> <<>>, retrieval_response |-> <<>>, unrecognized |-> <<>>]
    BY <2>1, <2>3 DEF Message
  <2> QED
    BY <2>4 DEF m
<1>2. New("Contract") =
            [owner_id |-> <<>>, size |-> 0, cid |-> <<>>, expires |-> 0, cardinality |-> 0,
             datatype |-> 0, unrecognized |-> <<>>]
  <2> DEFINE m == New("Contract")
  <2>1. m \in Contract /\ m.unrecognized = <<>>
        /\ \A k \in 1 .. Len(Fields["Contract"]) : m[NameOf("Contract", k)] = ZeroOf(KindOf("Contract", k))
    BY NewProperties, MsgCases DEF Types
  <2>2. /\ Len(Fields["Contract"]) = 6
        /\ NameOf("Contract", 1) = "owner_id" /\ KindOf("Contract", 1) = "string"
        /\ NameOf("Contract", 2) = "size" /\ KindOf("Contract", 2) = "uint32"
        /\ NameOf("Contract", 3) = "cid" /\ KindOf("Contract", 3) = "string"
        /\ NameOf("Contract", 4) = "expires" /\ KindOf("Contract", 4) = "int64"
        /\ NameOf("Contract", 5) = "cardinality" /\ KindOf("Contract", 5) = "uint32"
        /\ NameOf("Contract", 6) = "datatype" /\ KindOf("Contract", 6) = "uint32"
    BY DEF Fields, ContractFields, F, NameOf, KindOf
  <2> HIDE DEF m
  <2>3. /\ m["owner_id"] = <<>> /\ m["size"] = 0 /\ m["cid"] = <<>> /\ m["expires"] = 0
        /\ m["cardinality"] = 0 /\ m["datatype"] = 0
    BY <2>1, <2>2, ZeroCases
  <2>4. m = [owner_id |-> <<>>, size |-> 0, cid |-> <<>>, expires |-> 0, cardinality |-> 0,
             datatype |-> 0, unrecognized |-> <<>>]
    BY <2>1, <2>3 DEF Contract
  <2> QED
    BY <2>4 DEF m
<1>3. New("MsgStorageRequest") = [multiaddr |-> <<>>, contract |-> <<>>, unrecognized |-> <<>>]
  <2> DEFINE T == "MsgStorageRequest"
             m == New(T)
  <2>1. m \in MsgStorageRequest /\ m.unrecognized = <<>>
        /\ \A k \in 1 .. Len(Fields[T]) : m[NameOf(T, k)] = ZeroOf(KindOf(T, k))
    BY NewProperties, MsgCases DEF Types
  <2>2. /\ Len(Fields[T]) = 2
        /\ NameOf(T, 1) = "multiaddr" /\ KindOf(T, 1) = "string"
        /\ NameOf(T, 2) = "contract" /\ KindOf(T, 2) = "Contract"
    BY DEF Fields, MsgStorageRequestFields, F, NameOf, KindOf
  <2> HIDE DEF m
  <2>3. m["multiaddr"] = <<>> /\ m["contract"] = <<>>
    BY <2>1, <2>2, ZeroCases DEF Parts
  <2>4. m = [multiaddr |-> <<>>, contract |-> <<>>, unrecognized |-> <<>>]
    BY <2>1, <2>3 DEF MsgStorageRequest
  <2> QED
    BY <2>4 DEF m
<1>4. New("MsgStorageResponse") = [multiaddr |-> <<>>, done |-> FALSE, unrecognized |-> <<>>]
  <2> DEFINE T == "MsgStorageResponse"
             m == New(T)
  <2>1. m \in MsgStorageResponse /\ m.unrecognized = <<>>
        /\ \A k \in 1 .. Len(Fields[T]) : m[NameOf(T, k)] = ZeroOf(KindOf(T, k))
    BY NewProperties, MsgCases DEF Types
  <2>2. /\ Len(Fields[T]) = 2
        /\ NameOf(T, 1) = "multiaddr" /\ KindOf(T, 1) = "string"
        /\ NameOf(T, 2) = "done" /\ KindOf(T, 2) = "bool"
    BY DEF Fields, MsgStorageResponseFields, F, NameOf, KindOf
  <2> HIDE DEF m
  <2>3. m["multiaddr"] = <<>> /\ m["done"] = FALSE
    BY <2>1, <2>2, ZeroCases
  <2>4. m = [multiaddr |-> <<>>, done |-> FALSE, unrecognized |-> <<>>]
    BY <2>1, <2>3 DEF MsgStorageResponse
  <2> QED
    BY <2>4 DEF m
<1>5. New("MsgRetrievalRequest") =
            [multiaddr |-> <<>>, owner_id |-> <<>>, timestamp |-> 0, signature |-> <<>>,
             unrecognized |-> <<>>]
  <2> DEFINE T == "MsgRetrievalRequest"
             m == New(T)
  <2>1. m \in MsgRetrievalRequest /\ m.unrecognized = <<>>
        /\ \A k \in 1 .. Len(Fields[T]) : m[NameOf(T, k)] = ZeroOf(KindOf(T, k))
    BY NewProperties, MsgCases DEF Types
  <2>2. /\ Len(Fields[T]) = 4
        /\ NameOf(T, 1) = "multiaddr" /\ KindOf(T, 1) = "string"
        /\ NameOf(T, 2) = "owner_id" /\ KindOf(T, 2) = "string"
        /\ NameOf(T, 3) = "timestamp" /\ KindOf(T, 3) = "int64"
        /\ NameOf(T, 4) = "signature" /\ KindOf(T, 4) = "string"
    BY DEF Fields, MsgRetrievalRequestFields, F, NameOf, KindOf
  <2> HIDE DEF m
  <2>3. m["multiaddr"] = <<>> /\ m["owner_id"] = <<>> /\ m["timestamp"] = 0 /\ m["signature"] = <<>>
    BY <2>1, <2>2, ZeroCases
  <2>4. m = [multiaddr |-> <<>>, owner_id |-> <<>>, timestamp |-> 0, signature |-> <<>>,
             unrecognized |-> <<>>]
    BY <2>1, <2>3 DEF MsgRetrievalRequest
  <2> QED
    BY <2>4 DEF m
<1>6. New("MsgRetrievalResponse") = [ipfs_links |-> <<>>, unrecognized |-> <<>>]
  <2> DEFINE T == "MsgRetrievalResponse"
             m == New(T)
  <2>1. m \in MsgRetrievalResponse /\ m.unrecognized = <<>>
        /\ \A k \in 1 .. Len(Fields[T]) : m[NameOf(T, k)] = ZeroOf(KindOf(T, k))
    BY NewProperties, MsgCases DEF Types
  <2>2. Len(Fields[T]) = 1 /\ NameOf(T, 1) = "ipfs_links" /\ KindOf(T, 1) = "strings"
    BY DEF Fields, MsgRetrievalResponseFields, F, NameOf, KindOf
  <2> HIDE DEF m
  <2>3. m["ipfs_links"] = <<>>
    BY <2>1, <2>2, ZeroCases
  <2>4. m = [ipfs_links |-> <<>>, unrecognized |-> <<>>]
    BY <2>1, <2>3 DEF MsgRetrievalResponse
  <2> QED
    BY <2>4 DEF m
<1> QED
  BY <1>1, <1>2, <1>3, <1>4, <1>5, <1>6

MessageTable(k, name, kind) == NameOf("Message", k) = name /\ KindOf("Message", k) = kind

\* The fields of a Message.
LEMMA MessageFieldTable ==
    /\ Len(Fields["Message"]) = 5 /\ "Message" \in Types
    /\ MessageTable(1, "type", "enum")
    /\ MessageTable(2, "storage_request", "MsgStorageRequest")
    /\ MessageTable(3, "storage_response", "MsgStorageResponse")
    /\ MessageTable(4, "retrieval_request", "MsgRetrievalRequest")
    /\ MessageTable(5, "retrieval_response", "MsgRetrievalResponse")
BY DEF Fields, MessageFields, F, NameOf, KindOf, MessageTable, Types

\* The message with the given type and parts.
MessageOf(i, a, b, c, d) ==
    [type |-> i, storage_request |-> a, storage_response |-> b, retrieval_request |-> c,
     retrieval_response |-> d, unrecognized |-> <<>>]

ContractPart(c) ==
    [owner_id |-> c.owner_id, size |-> c.size, cid |-> c.cid, expires |-> Unix(c.expires),
     cardinality |-> c.cardinality, datatype |-> c.datatype, unrecognized |-> <<>>]

StorageRequestPart(r) ==
    [multiaddr |-> r.multiaddr, contract |-> <<ContractPart(r.contract)>>, unrecognized |-> <<>>]

StorageResponsePart(r) == [multiaddr |-> r.multiaddr, done |-> r.done, unrecognized |-> <<>>]

RetrievalRequestPart(r) ==
    [multiaddr |-> r.multiaddr, owner_id |-> r.owner_id, timestamp |-> Unix(r.timestamp),
     signature |-> r.signature, unrecognized |-> <<>>]

RetrievalResponsePart(r) == [ipfs_links |-> r.ipfs_links, unrecognized |-> <<>>]

\* An update of some fields of a record, field by field.
LEMMA NewMessageWith ==
    ASSUME NEW i, NEW v
    PROVE  /\ [New("Message") EXCEPT !.type = i, !.storage_request = v] = MessageOf(i, v, <<>>, <<>>, <<>>)
           /\ [New("Message") EXCEPT !.type = i, !.storage_response = v] = MessageOf(i, <<>>, v, <<>>, <<>>)
           /\ [New("Message") EXCEPT !.type = i, !.retrieval_request = v] = MessageOf(i, <<>>, <<>>, v, <<>>)
           /\ [New("Message") EXCEPT !.type = i, !.retrieval_response = v] = MessageOf(i, <<>>, <<>>, <<>>, v)
           /\ [New("Message") EXCEPT !.type = i] = MessageOf(i, <<>>, <<>>, <<>>, <<>>)
<1> DEFINE N == New("Message")
           M == MessageOf(i, <<>>, <<>>, <<>>, <<>>)
<1>1. [N EXCEPT !.type = i] = M
  BY NewForms DEF MessageOf
<1> HIDE DEF N
<1>2. /\ [N EXCEPT !.type = i, !.storage_request = v] = [[N EXCEPT !.type = i] EXCEPT !.storage_request = v]
      /\ [N EXCEPT !.type = i, !.storage_response = v] = [[N EXCEPT !.type = i] EXCEPT !.storage_response = v]
      /\ [N EXCEPT !.type = i, !.retrieval_request = v] = [[N EXCEPT !.type = i] EXCEPT !.retrieval_request = v]
      /\ [N EXCEPT !.type = i, !.retrieval_response = v] = [[N EXCEPT !.type = i] EXCEPT !.retrieval_response = v]
  OBVIOUS
<1>3. /\ [M EXCEPT !.storage_request = v] = MessageOf(i, v, <<>>, <<>>, <<>>)
      /\ [M EXCEPT !.storage_response = v] = MessageOf(i, <<>>, v, <<>>, <<>>)
      /\ [M EXCEPT !.retrieval_request = v] = MessageOf(i, <<>>, <<>>, v, <<>>)
      /\ [M EXCEPT !.retrieval_response = v] = MessageOf(i, <<>>, <<>>, <<>>, v)
  BY DEF MessageOf
<1> HIDE DEF M
<1> QED
  BY <1>1, <1>2, <1>3 DEF N, M

\* The fields of the messages inside a Message.
LEMMA PartForms ==
    ASSUME NEW r
    PROVE  /\ ContractToProtobuf(r) = ContractPart(r)
           /\ [New("MsgStorageRequest") EXCEPT
                    !.multiaddr = r.multiaddr, !.contract = <<ContractPart(r.contract)>>]
                = StorageRequestPart(r)
           /\ [New("MsgStorageResponse") EXCEPT !.multiaddr = r.multiaddr, !.done = r.done]
                = StorageResponsePart(r)
           /\ [New("MsgRetrievalRequest") EXCEPT
                    !.multiaddr = r.multiaddr, !.owner_id = r.owner_id,
                    !.timestamp = Unix(r.timestamp), !.signature = r.signature]
                = RetrievalRequestPart(r)
           /\ [New("MsgRetrievalResponse") EXCEPT !.ipfs_links = r.ipfs_links]
                = RetrievalResponsePart(r)
<1>1. ContractToProtobuf(r) = ContractPart(r)
  <2> DEFINE E == ContractToProtobuf(r)
  <2>1. E = [x \in {"owner_id", "size", "cid", "expires", "cardinality", "datatype", "unrecognized"} |-> E[x]]
    BY NewForms DEF ContractToProtobuf
  <2>2. /\ E.owner_id = r.owner_id /\ E.size = r.size /\ E.cid = r.cid /\ E.expires = Unix(r.expires)
        /\ E.cardinality = r.cardinality /\ E.datatype = r.datatype /\ E.unrecognized = <<>>
    BY NewForms DEF ContractToProtobuf
  <2> HIDE DEF E
  <2>3. E = ContractPart(r)
    BY <2>1, <2>2 DEF ContractPart
  <2> QED
    BY <2>3 DEF E
<1>2. ASSUME NEW c
      PROVE  [New("MsgStorageRequest") EXCEPT !.multiaddr = r.multiaddr, !.contract = c]
                = [multiaddr |-> r.multiaddr, contract |-> c, unrecognized |-> <<>>]
  <2> DEFINE E == [New("MsgStorageRequest") EXCEPT !.multiaddr = r.multiaddr, !.contract = c]
  <2>0. New("MsgStorageRequest") = [multiaddr |-> <<>>, contract |-> <<>>, unrecognized |-> <<>>]
    BY NewForms
  <2>3. E = [x \in {"multiaddr", "contract", "unrecognized"} |-> E[x]]
    BY <2>0
  <2>1. /\ E.multiaddr = r.multiaddr /\ E.contract = c /\ E.unrecognized = <<>>
    BY <2>0
  <2> HIDE DEF E
  <2>2. E = [multiaddr |-> r.multiaddr, contract |-> c, unrecognized |-> <<>>]
    BY <2>1, <2>3
  <2> QED
    BY <2>2 DEF E
<1>3. [New("MsgStorageResponse") EXCEPT !.multiaddr = r.multiaddr, !.done = r.done]
        = StorageResponsePart(r)
  <2> DEFINE E == [New("MsgStorageResponse") EXCEPT !.multiaddr = r.multiaddr, !.done = r.done]
  <2>0. New("MsgStorageResponse") = [multiaddr |-> <<>>, done |-> FALSE, unrecognized |-> <<>>]
    BY NewForms
  <2>3. E = [x \in {"multiaddr", "done", "unrecognized"} |-> E[x]]
    BY <2>0
  <2>1. /\ E.multiaddr = r.multiaddr /\ E.done = r.done /\ E.unrecognized = <<>>
    BY <2>0
  <2> HIDE DEF E
  <2>2. E = StorageResponsePart(r)
    BY <2>1, <2>3 DEF StorageResponsePart
  <2> QED
    BY <2>2 DEF E
<1>4. [New("MsgRetrievalRequest") EXCEPT
            !.multiaddr = r.multiaddr, !.owner_id = r.owner_id,
            !.timestamp = Unix(r.timestamp), !.signature = r.signature]
        = RetrievalRequestPart(r)
  <2> DEFINE E == [New("MsgRetrievalRequest") EXCEPT
                        !.multiaddr = r.multiaddr, !.owner_id = r.owner_id,
                        !.timestamp = Unix(r.timestamp), !.signature = r.signature]
  <2>0. New("MsgRetrievalRequest") =
            [multiaddr |-> <<>>, owner_id |-> <<>>, timestamp |-> 0, signature |-> <<>>,
             unrecognized |-> <<>>]
    BY NewForms
  <2>3. E = [x \in {"multiaddr", "owner_id", "timestamp", "signature", "unrecognized"} |-> E[x]]
    BY <2>0
  <2>1. /\ E.multiaddr = r.multiaddr /\ E.owner_id = r.owner_id /\ E.timestamp = Unix(r.timestamp)
        /\ E.signature = r.signature /\ E.unrecognized = <<>>
    BY <2>0
  <2> HIDE DEF E
  <2>2. E = RetrievalRequestPart(r)
    BY <2>1, <2>3 DEF RetrievalRequestPart
  <2> QED
    BY <2>2 DEF E
<1>5. [New("MsgRetrievalResponse") EXCEPT !.ipfs_links = r.ipfs_links] = RetrievalResponsePart(r)
  BY NewForms DEF RetrievalResponsePart
<1> QED
  BY <1>1, <1>2, <1>3, <1>4, <1>5 DEF StorageRequestPart

\* What the four MarshalToProtobuf build.
LEMMA ProtobufForms ==
    /\ \A r \in StorageRequest :
            MarshalToProtobuf(r) = MessageOf(1, <<StorageRequestPart(r)>>, <<>>, <<>>, <<>>)
    /\ \A r \in StorageResponse :
            MarshalToProtobuf(r) = MessageOf(2, <<>>, <<StorageResponsePart(r)>>, <<>>, <<>>)
    /\ \A r \in RetrievalRequest :
            MarshalToProtobuf(r) = MessageOf(3, <<>>, <<>>, <<RetrievalRequestPart(r)>>, <<>>)
    /\ \A r \in RetrievalResponse :
            MarshalToProtobuf(r) = MessageOf(4, <<>>, <<>>, <<>>, <<RetrievalResponsePart(r)>>)
<1>1. ASSUME NEW r \in StorageRequest
      PROVE  MarshalToProtobuf(r) = MessageOf(1, <<StorageRequestPart(r)>>, <<>>, <<>>, <<>>)
  <2>1. r.go = "StorageRequest"
    BY DEF StorageRequest
  <2>2. MarshalToProtobuf(r) = StorageRequestToProtobuf(r)
    BY <2>1 DEF MarshalToProtobuf
  <2>3. ContractToProtobuf(r.contract) = ContractPart(r.contract)
    BY PartForms
  <2> DEFINE x == StorageRequestPart(r)
  <2>4. [New("MsgStorageRequest") EXCEPT
            !.multiaddr = r.multiaddr, !.contract = <<ContractToProtobuf(r.contract)>>] = x
    BY <2>3, PartForms
  <2> HIDE DEF x
  <2>5. StorageRequestToProtobuf(r) = [New("Message") EXCEPT !.type = 1, !.storage_request = <<x>>]
    BY <2>4 DEF StorageRequestToProtobuf, STORAGE_REQUEST
  <2> QED
    BY <2>2, <2>5, NewMessageWith DEF x
<1>2. ASSUME NEW r \in StorageResponse
      PROVE  MarshalToProtobuf(r) = MessageOf(2, <<>>, <<StorageResponsePart(r)>>, <<>>, <<>>)
  <2>1. r.go = "StorageResponse"
    BY DEF StorageResponse
  <2>2. MarshalToProtobuf(r) = StorageResponseToProtobuf(r)
    BY <2>1 DEF MarshalToProtobuf
  <2> DEFINE x == StorageResponsePart(r)
  <2>3. [New("MsgStorageResponse") EXCEPT !.multiaddr = r.multiaddr, !.done = r.done] = x
    BY PartForms
  <2> HIDE DEF x
  <2>4. StorageResponseToProtobuf(r) = [New("Message") EXCEPT !.type = 2, !.storage_response = <<x>>]
    BY <2>3 DEF StorageResponseToProtobuf, STORAGE_RESPONSE
  <2> QED
    BY <2>2, <2>4, NewMessageWith DEF x
<1>3. ASSUME NEW r \in RetrievalRequest
      PROVE  MarshalToProtobuf(r) = MessageOf(3, <<>>, <<>>, <<RetrievalRequestPart(r)>>, <<>>)
  <2>1. r.go = "RetrievalRequest"
    BY DEF RetrievalRequest
  <2>2. MarshalToProtobuf(r) = RetrievalRequestToProtobuf(r)
    BY <2>1 DEF MarshalToProtobuf
  <2> DEFINE x == RetrievalRequestPart(r)
  <2>3. [New("MsgRetrievalRequest") EXCEPT
            !.multiaddr = r.multiaddr, !.owner_id = r.owner_id,
            !.timestamp = Unix(r.timestamp), !.signature = r.signature] = x
    BY PartForms
  <2> HIDE DEF x
  <2>4. RetrievalRequestToProtobuf(r) = [New("Message") EXCEPT !.type = 3, !.retrieval_request = <<x>>]
    BY <2>3 DEF RetrievalRequestToProtobuf, RETRIEVAL_REQUEST
  <2> QED
    BY <2>2, <2>4, NewMessageWith DEF x
<1>4. ASSUME NEW r \in RetrievalResponse
      PROVE  MarshalToProtobuf(r) = MessageOf(4, <<>>, <<>>, <<>>, <<RetrievalResponsePart(r)>>)
  <2>1. r.go = "RetrievalResponse"
    BY DEF RetrievalResponse
  <2>2. MarshalToProtobuf(r) = RetrievalResponseToProtobuf(r)
    BY <2>1 DEF MarshalToProtobuf
  <2> DEFINE x == RetrievalResponsePart(r)
  <2>3. [New("MsgRetrievalResponse") EXCEPT !.ipfs_links = r.ipfs_links] = x
    BY PartForms
  <2> HIDE DEF x
  <2>4. RetrievalResponseToProtobuf(r) = [New("Message") EXCEPT !.type = 4, !.retrieval_response = <<x>>]
    BY <2>3 DEF RetrievalResponseToProtobuf, RETRIEVAL_RESPONSE
  <2> QED
    BY <2>2, <2>4, NewMessageWith DEF x
<1> QED
  BY <1>1, <1>2, <1>3, <1>4

\* A message with one part, x in field k, and the type that belongs to it.
OnePart(P, k, x) ==
    /\ k \in 2 .. 5
    /\ P \in Msg("Message") /\ P.type = k - 1 /\ P.unrecognized = <<>>
    /\ x \in Msg(KindOf("Message", k)) /\ Clean(KindOf("Message", k), x)
    /\ P[NameOf("Message", k)] = <<x>>
    /\ \A j \in 2 .. 5 : j # k => P[NameOf("Message", j)] = <<>>

\* A message without unknown bytes is clean.
LEMMA CleanLeaf ==
    ASSUME NEW T \in {"Contract", "MsgStorageResponse", "MsgRetrievalRequest", "MsgRetrievalResponse"},
           NEW m \in Msg(T), m.unrecognized = <<>>
    PROVE  Clean(T, m)
<1>1. T \in Types
  BY DEF Types
<1>2. \A k \in 1 .. Len(Fields[T]) : KindOf(T, k) \notin Parts
  <2>1. CASE T = "Contract"
    BY <2>1 DEF Fields, ContractFields, F, KindOf, Parts
  <2>2. CASE T = "MsgStorageResponse"
    BY <2>2 DEF Fields, MsgStorageResponseFields, F, KindOf, Parts
  <2>3. CASE T = "MsgRetrievalRequest"
    BY <2>3 DEF Fields, MsgRetrievalRequestFields, F, KindOf, Parts
  <2>4. CASE T = "MsgRetrievalResponse"
    BY <2>4 DEF Fields, MsgRetrievalResponseFields, F, KindOf, Parts
  <2> QED
    BY <2>1, <2>2, <2>3, <2>4
<1> QED
  BY <1>1, <1>2, NothingUnknown DEF CleanParts

\* A Message in which at most one part is set.
LEMMA MessageOfType ==
    ASSUME NEW i \in 1 .. 4, NEW a \in Optional(MsgStorageRequest), NEW b \in Optional(MsgStorageResponse),
           NEW c \in Optional(MsgRetrievalRequest), NEW d \in Optional(MsgRetrievalResponse)
    PROVE  MessageOf(i, a, b, c, d) \in Msg("Message")
<1>1. i \in Int32
  BY Widths DEF Int32
<1>2. <<>> \in Bytes
  BY DEF Bytes
<1> QED
  BY <1>1, <1>2, MsgCases DEF MessageOf, Message

\* The parts are messages, with nothing unknown in them.
LEMMA PartTypes ==
    /\ \A r \in StorageRequest : StorageRequestPart(r) \in Msg("MsgStorageRequest")
                                    /\ Clean("MsgStorageRequest", StorageRequestPart(r))
    /\ \A r \in StorageResponse : StorageResponsePart(r) \in Msg("MsgStorageResponse")
                                    /\ Clean("MsgStorageResponse", StorageResponsePart(r))
    /\ \A r \in RetrievalRequest : RetrievalRequestPart(r) \in Msg("MsgRetrievalRequest")
                                    /\ Clean("MsgRetrievalRequest", RetrievalRequestPart(r))
    /\ \A r \in RetrievalResponse : RetrievalResponsePart(r) \in Msg("MsgRetrievalResponse")
                                    /\ Clean("MsgRetrievalResponse", RetrievalResponsePart(r))
<1>0. <<>> \in Bytes
  BY DEF Bytes
<1>1. ASSUME NEW r \in StorageRequest
      PROVE  /\ StorageRequestPart(r) \in Msg("MsgStorageRequest")
             /\ Clean("MsgStorageRequest", StorageRequestPart(r))
  <2> DEFINE T == "MsgStorageRequest"
             c == ContractPart(r.contract)
             x == StorageRequestPart(r)
  <2>1. c \in Msg("Contract") /\ c.unrecognized = <<>>
    BY <1>0, MsgCases DEF ContractPart, StorageRequest, StorageContract, Time, Contract
  <2>2. Clean("Contract", c)
    BY <2>1, CleanLeaf
  <2> HIDE DEF c
  <2>3. x = [multiaddr |-> r.multiaddr, contract |-> <<c>>, unrecognized |-> <<>>]
    BY DEF c, StorageRequestPart
  <2>4. x \in Msg(T) /\ x.unrecognized = <<>> /\ T \in Types
    <3>1. <<c>> \in Optional(Contract)
      BY <2>1, MsgCases DEF Optional
    <3>2. r.multiaddr \in Bytes
      BY DEF StorageRequest
    <3> HIDE DEF x
    <3>3. x \in MsgStorageRequest /\ x.unrecognized = <<>>
      BY <1>0, <2>3, <3>1, <3>2 DEF MsgStorageRequest
    <3>4. T \in Types /\ Msg(T) = MsgStorageRequest
      BY MsgCases DEF Types
    <3> QED
      BY <3>3, <3>4
  <2>5. CleanParts(T, x)
    <3>1. /\ Len(Fields[T]) = 2
          /\ NameOf(T, 1) = "multiaddr" /\ KindOf(T, 1) = "string"
          /\ NameOf(T, 2) = "contract" /\ KindOf(T, 2) = "Contract"
      BY DEF Fields, MsgStorageRequestFields, F, NameOf, KindOf
    <3>2. x["contract"][1] = c
      BY <2>3
    <3>3. "string" \notin Parts
      BY DEF Parts
    <3> HIDE DEF T, x
    <3> SUFFICES ASSUME NEW k \in 1 .. Len(Fields[T]), KindOf(T, k) \in Parts
                 PROVE  Clean(KindOf(T, k), x[NameOf(T, k)][1])
      BY DEF CleanParts
    <3>4. k = 2
      BY <3>1, <3>3
    <3> QED
      BY <2>2, <3>1, <3>2, <3>4
  <2> QED
    BY <2>4, <2>5, NothingUnknown
<1>2. ASSUME NEW r \in StorageResponse
      PROVE  /\ StorageResponsePart(r) \in Msg("MsgStorageResponse")
             /\ Clean("MsgStorageResponse", StorageResponsePart(r))
  <2>1. /\ StorageResponsePart(r) \in Msg("MsgStorageResponse")
        /\ StorageResponsePart(r).unrecognized = <<>>
    BY <1>0, MsgCases DEF StorageResponsePart, StorageResponse, MsgStorageResponse
  <2> QED
    BY <2>1, CleanLeaf
<1>3. ASSUME NEW r \in RetrievalRequest
      PROVE  /\ RetrievalRequestPart(r) \in Msg("MsgRetrievalRequest")
             /\ Clean("MsgRetrievalRequest", RetrievalRequestPart(r))
  <2>1. /\ RetrievalRequestPart(r) \in Msg("MsgRetrievalRequest")
        /\ RetrievalRequestPart(r).unrecognized = <<>>
    BY <1>0, MsgCases DEF RetrievalRequestPart, RetrievalRequest, MsgRetrievalRequest, Time
  <2> QED
    BY <2>1, CleanLeaf
<1>4. ASSUME NEW r \in RetrievalResponse
      PROVE  /\ RetrievalResponsePart(r) \in Msg("MsgRetrievalResponse")
             /\ Clean("MsgRetrievalResponse", RetrievalResponsePart(r))
  <2>1. /\ RetrievalResponsePart(r) \in Msg("MsgRetrievalResponse")
        /\ RetrievalResponsePart(r).unrecognized = <<>>
    BY <1>0, MsgCases DEF RetrievalResponsePart, RetrievalResponse, MsgRetrievalResponse
  <2> QED
    BY <2>1, CleanLeaf
<1> QED
  BY <1>1, <1>2, <1>3, <1>4

\* The parts of such a Message.
LEMMA OnePartForms ==
    /\ \A x \in Msg("MsgStorageRequest") : Clean("MsgStorageRequest", x) =>
            OnePart(MessageOf(1, <<x>>, <<>>, <<>>, <<>>), 2, x)
    /\ \A x \in Msg("MsgStorageResponse") : Clean("MsgStorageResponse", x) =>
            OnePart(MessageOf(2, <<>>, <<x>>, <<>>, <<>>), 3, x)
    /\ \A x \in Msg("MsgRetrievalRequest") : Clean("MsgRetrievalRequest", x) =>
            OnePart(MessageOf(3, <<>>, <<>>, <<x>>, <<>>), 4, x)
    /\ \A x \in Msg("MsgRetrievalResponse") : Clean("MsgRetrievalResponse", x) =>
            OnePart(MessageOf(4, <<>>, <<>>, <<>>, <<x>>), 5, x)
<1>1. ASSUME NEW k \in 2 .. 5, NEW x \in Msg(KindOf("Message", k)), Clean(KindOf("Message", k), x),
             NEW P \in Msg("Message"), P.type = k - 1, P.unrecognized = <<>>,
             P[NameOf("Message", k)] = <<x>>,
             NEW b, NEW c, NEW d, {2, 3, 4, 5} = {k, b, c, d},
             P[NameOf("Message", b)] = <<>>, P[NameOf("Message", c)] = <<>>, P[NameOf("Message", d)] = <<>>
      PROVE  OnePart(P, k, x)
  <2>1. \A j \in 2 .. 5 : j # k => P[NameOf("Message", j)] = <<>>
    <3>1. \A j \in 2 .. 5 : j \in {k, b, c, d}
      BY <1>1
    <3> QED
      BY <1>1, <3>1
  <2> QED
    BY <1>1, <2>1 DEF OnePart
<1>2. <<>> \in Optional(MsgStorageRequest) /\ <<>> \in Optional(MsgStorageResponse)
      /\ <<>> \in Optional(MsgRetrievalRequest) /\ <<>> \in Optional(MsgRetrievalResponse)
  BY DEF Optional
<1>3. ASSUME NEW x \in Msg("MsgStorageRequest"), Clean("MsgStorageRequest", x)
      PROVE  OnePart(MessageOf(1, <<x>>, <<>>, <<>>, <<>>), 2, x)
  <2> DEFINE P == MessageOf(1, <<x>>, <<>>, <<>>, <<>>)
  <2>1. <<x>> \in Optional(MsgStorageRequest)
    BY MsgCases DEF Optional
  <2>2. P \in Msg("Message")
    BY <1>2, <2>1, MessageOfType
  <2>3. P.type = 1 /\ P.unrecognized = <<>>
        /\ P["storage_request"] = <<x>> /\ P["storage_response"] = <<>>
        /\ P["retrieval_request"] = <<>> /\ P["retrieval_response"] = <<>>
    BY DEF MessageOf
  <2> HIDE DEF P
  <2>4. P[NameOf("Message", 2)] = <<x>> /\ P[NameOf("Message", 3)] = <<>>
        /\ P[NameOf("Message", 4)] = <<>> /\ P[NameOf("Message", 5)] = <<>>
        /\ KindOf("Message", 2) = "MsgStorageRequest"
    BY <2>3, MessageFieldTable DEF MessageTable
  <2>5. OnePart(P, 2, x)
    BY <1>1, <1>3, <2>2, <2>3, <2>4
  <2> QED
    BY <2>5 DEF P
<1>4. ASSUME NEW x \in Msg("MsgStorageResponse"), Clean("MsgStorageResponse", x)
      PROVE  OnePart(MessageOf(2, <<>>, <<x>>, <<>>, <<>>), 3, x)
  <2> DEFINE P == MessageOf(2, <<>>, <<x>>, <<>>, <<>>)
  <2>1. <<x>> \in Optional(MsgStorageResponse)
    BY MsgCases DEF Optional
  <2>2. P \in Msg("Message")
    BY <1>2, <2>1, MessageOfType
  <2>3. P.type = 2 /\ P.unrecognized = <<>>
        /\ P["storage_request"] = <<>> /\ P["storage_response"] = <<x>>
        /\ P["retrieval_request"] = <<>> /\ P["retrieval_response"] = <<>>
    BY DEF MessageOf
  <2> HIDE DEF P
  <2>4. P[NameOf("Message", 2)] = <<>> /\ P[NameOf("Message", 3)] = <<x>>
        /\ P[NameOf("Message", 4)] = <<>> /\ P[NameOf("Message", 5)] = <<>>
        /\ KindOf("Message", 3) = "MsgStorageResponse"
    BY <2>3, MessageFieldTable DEF MessageTable
  <2>5. OnePart(P, 3, x)
    BY <1>1, <1>4, <2>2, <2>3, <2>4
  <2> QED
    BY <2>5 DEF P
<1>5. ASSUME NEW x \in Msg("MsgRetrievalRequest"), Clean("MsgRetrievalRequest", x)
      PROVE  OnePart(MessageOf(3, <<>>, <<>>, <<x>>, <<>>), 4, x)
  <2> DEFINE P == MessageOf(3, <<>>, <<>>, <<x>>, <<>>)
  <2>1. <<x>> \in Optional(MsgRetrievalRequest)
    BY MsgCases DEF Optional
  <2>2. P \in Msg("Message")
    BY <1>2, <2>1, MessageOfType
  <2>3. P.type = 3 /\ P.unrecognized = <<>>
        /\ P["storage_request"] = <<>> /\ P["storage_response"] = <<>>
        /\ P["retrieval_request"] = <<x>> /\ P["retrieval_response"] = <<>>
    BY DEF MessageOf
  <2> HIDE DEF P
  <2>4. P[NameOf("Message", 2)] = <<>> /\ P[NameOf("Message", 3)] = <<>>
        /\ P[NameOf("Message", 4)] = <<x>> /\ P[NameOf("Message", 5)] = <<>>
        /\ KindOf("Message", 4) = "MsgRetrievalRequest"
    BY <2>3, MessageFieldTable DEF MessageTable
  <2>5. OnePart(P, 4, x)
    BY <1>1, <1>5, <2>2, <2>3, <2>4
  <2> QED
    BY <2>5 DEF P
<1>6. ASSUME NEW x \in Msg("MsgRetrievalResponse"), Clean("MsgRetrievalResponse", x)
      PROVE  OnePart(MessageOf(4, <<>>, <<>>, <<>>, <<x>>), 5, x)
  <2> DEFINE P == MessageOf(4, <<>>, <<>>, <<>>, <<x>>)
  <2>1. <<x>> \in Optional(MsgRetrievalResponse)
    BY MsgCases DEF Optional
  <2>2. P \in Msg("Message")
    BY <1>2, <2>1, MessageOfType
  <2>3. P.type = 4 /\ P.unrecognized = <<>>
        /\ P["storage_request"] = <<>> /\ P["storage_response"] = <<>>
        /\ P["retrieval_request"] = <<>> /\ P["retrieval_response"] = <<x>>
    BY DEF MessageOf
  <2> HIDE DEF P
  <2>4. P[NameOf("Message", 2)] = <<>> /\ P[NameOf("Message", 3)] = <<>>
        /\ P[NameOf("Message", 4)] = <<>> /\ P[NameOf("Message", 5)] = <<x>>
        /\ KindOf("Message", 5) = "MsgRetrievalResponse"
    BY <2>3, MessageFieldTable DEF MessageTable
  <2>5. OnePart(P, 5, x)
    BY <1>1, <1>6, <2>2, <2>3, <2>4
  <2> QED
    BY <2>5 DEF P
<1> QED
  BY <1>3, <1>4, <1>5, <1>6

-----------------------------------------------------------------------------
(* The bytes written, and what a Read of some of them yields. *)

\* The bytes of five fields of which one is set.
LEMMA ConcatFive ==
    ASSUME NEW s \in Seq(Bytes), Len(s) = 5
    PROVE  Concat[s] = s[1] \o (s[2] \o (s[3] \o (s[4] \o (s[5] \o <<>>))))
<1>1. \A j \in 0 .. 4 : Concat[Drop(s, j)] = s[j + 1] \o Concat[Drop(s, j + 1)]
  <2>1. \A j \in 0 .. 4 : j \in Nat /\ j < Len(s)
    OBVIOUS
  <2> QED
    BY <2>1, ConcatDrop
<1>2. Concat[Drop(s, 0)] = s[1] \o Concat[Drop(s, 1)]
  BY <1>1
<1>3. Concat[Drop(s, 1)] = s[2] \o Concat[Drop(s, 2)]
  BY <1>1
<1>4. Concat[Drop(s, 2)] = s[3] \o Concat[Drop(s, 3)]
  BY <1>1
<1>5. Concat[Drop(s, 3)] = s[4] \o Concat[Drop(s, 4)]
  BY <1>1
<1>6. Concat[Drop(s, 4)] = s[5] \o Concat[Drop(s, 5)]
  BY <1>1
<1>7. Drop(s, 0) = s /\ Drop(s, 5) = <<>>
  BY DropAll
<1>8. Concat[<<>>] = <<>>
  <2>1. <<>> \in Seq(Bytes)
    OBVIOUS
  <2> QED
    BY <2>1, ConcatDef
<1> QED
  BY <1>2, <1>3, <1>4, <1>5, <1>6, <1>7, <1>8

\* The type, with its tag.
TypeBytes(k) == <<8, k - 1>>

\* The bytes of the type.
LEMMA HeadBytes ==
    ASSUME NEW k \in 2 .. 5
    PROVE  /\ TypeBytes(k) \in Bytes /\ Len(TypeBytes(k)) = 2
           /\ <<8 * 1>> \o encodeVarintMsg[ToUint64("enum", k - 1)] = TypeBytes(k)
           /\ k - 1 \in Value("enum") /\ k - 1 # ZeroOf("enum")
<1>1. k - 1 \in Nat /\ k - 1 < 128 /\ k - 1 < W64 /\ k - 1 < W32 \div 2 /\ k - 1 > 0
  BY Widths
<1>2. ToUint64("enum", k - 1) = k - 1
  <2>1. ToUint64("enum", k - 1) = (k - 1) % W64
    BY Uint64Cases
  <2>2. (k - 1) % W64 = k - 1
    BY <1>1, Widths
  <2> QED
    BY <2>1, <2>2
<1>3. encodeVarintMsg[k - 1] = <<k - 1>>
  BY <1>1, EncodeVarintDef
<1>4. <<8 * 1>> \o <<k - 1>> = TypeBytes(k)
  <2>1. 8 * 1 = 8
    OBVIOUS
  <2> DEFINE n == k - 1
  <2>2. <<8>> \o <<n>> = <<8, n>>
    <3>1. n \in Nat
      BY <1>1
    <3> HIDE DEF n
    <3> DEFINE a == <<8>>
               b == <<n>>
               c == <<8, n>>
    <3>2. a \in Seq(Nat) /\ Len(a) = 1 /\ a[1] = 8 /\ b \in Seq(Nat) /\ Len(b) = 1 /\ b[1] = n
      BY <3>1
    <3>3. c \in Seq(Nat) /\ Len(c) = 2 /\ c[1] = 8 /\ c[2] = n
      BY <3>1
    <3> HIDE DEF a, b, c
    <3> DEFINE d == a \o b
    <3>4. /\ d \in Seq(Nat) /\ Len(d) = Len(a) + Len(b)
          /\ \A i \in 1 .. Len(a) + Len(b) : d[i] = IF i <= Len(a) THEN a[i] ELSE b[i - Len(a)]
      BY <3>2, ConcatProperties
    <3> HIDE DEF d
    <3>5. Len(d) = 2 /\ d[1] = 8 /\ d[2] = n
      <4>1. 1 \in 1 .. Len(a) + Len(b) /\ 2 \in 1 .. Len(a) + Len(b)
        BY <3>2
      <4>2. d[1] = a[1] /\ d[2] = b[2 - Len(a)]
        BY <3>2, <3>4, <4>1
      <4> QED
        BY <3>2, <3>4, <4>2
    <3>6. d = c
      <4>1. \A i \in 1 .. Len(d) : d[i] = c[i]
        BY <3>3, <3>5
      <4> QED
        BY <3>3, <3>4, <3>5, <4>1, SeqEqual
    <3> QED
      BY <3>6 DEF a, b, c, d
  <2> QED
    BY <2>1, <2>2 DEF TypeBytes
<1>5. TypeBytes(k) \in Bytes /\ Len(TypeBytes(k)) = 2
  BY <1>1 DEF TypeBytes, Bytes, Byte
<1>6. k - 1 \in Int32 /\ k - 1 # 0
  BY <1>1, Widths DEF Int32
<1> QED
  BY <1>2, <1>3, <1>4, <1>5, <1>6, ValueCases, ZeroCases

\* The bytes of the part x.
PartBytes(k, x) == Delimited(k, MarshalOf[<<KindOf("Message", k), x>>])

\* The fields of a Message one by one.
LEMMA OneOfFive ==
    ASSUME NEW k \in 2 .. 5, NEW h \in Bytes, NEW d \in Bytes, NEW s \in Seq(Bytes), Len(s) = 5,
           s[1] = h, s[k] = d, \A j \in 2 .. 5 : j # k => s[j] = <<>>
    PROVE  Concat[s] = h \o d
<1>1. Concat[s] = s[1] \o (s[2] \o (s[3] \o (s[4] \o (s[5] \o <<>>))))
  BY ConcatFive
<1>2. d \o <<>> = d /\ <<>> \o d = d /\ <<>> \o <<>> = <<>>
  <2>1. <<>> \in Bytes
    BY DEF Bytes
  <2> QED
    BY <2>1, BytesConcat
<1>3. CASE k = 2
  <2>1. s[2] = d /\ s[3] = <<>> /\ s[4] = <<>> /\ s[5] = <<>>
    BY <1>3
  <2> QED
    BY <1>1, <1>2, <2>1
<1>4. CASE k = 3
  <2>1. s[2] = <<>> /\ s[3] = d /\ s[4] = <<>> /\ s[5] = <<>>
    BY <1>4
  <2> QED
    BY <1>1, <1>2, <2>1
<1>5. CASE k = 4
  <2>1. s[2] = <<>> /\ s[3] = <<>> /\ s[4] = d /\ s[5] = <<>>
    BY <1>5
  <2> QED
    BY <1>1, <1>2, <2>1
<1>6. CASE k = 5
  <2>1. s[2] = <<>> /\ s[3] = <<>> /\ s[4] = <<>> /\ s[5] = d
    BY <1>6
  <2> QED
    BY <1>1, <1>2, <2>1
<1> QED
  BY <1>3, <1>4, <1>5, <1>6

\* The parts and their numbers.
LEMMA MessageKinds ==
    ASSUME NEW k \in 2 .. 5
    PROVE  /\ k \in 1 .. Len(Fields["Message"]) /\ k \in 1 .. 6
           /\ KindOf("Message", k) \in Parts /\ KindOf("Message", k) \in Types
           /\ KindOf("Message", k) \in Kinds \ Scalars
<1>1. /\ k \in 1 .. Len(Fields["Message"]) /\ k \in 1 .. 6 /\ "Message" \in Types
  BY MessageFieldTable
<1>2. KindOf("Message", k) \in {"MsgStorageRequest", "MsgStorageResponse", "MsgRetrievalRequest",
                                 "MsgRetrievalResponse"}
  BY MessageFieldTable DEF MessageTable
<1>3. KindOf("Message", k) \in Parts
  BY <1>2 DEF Parts
<1>4. KindOf("Message", k) \in Types
  BY <1>2 DEF Types
<1>5. KindOf("Message", k) \in Kinds \ Scalars
  BY <1>2 DEF Kinds, Scalars, Parts
<1> QED
  BY <1>1, <1>3, <1>4, <1>5

\* A message with one part is its type and that part.
LEMMA WireForm ==
    ASSUME NEW P, NEW k, NEW x, OnePart(P, k, x)
    PROVE  /\ PartBytes(k, x) \in Bytes
           /\ MarshalOf[<<"Message", P>>] = TypeBytes(k) \o PartBytes(k, x)
<1> DEFINE T == "Message"
           s == Pieces(T, P, MarshalOf)
           kind == KindOf(T, k)
<1>1. k \in 2 .. 5 /\ P \in Msg(T) /\ T \in Types /\ P.type = k - 1 /\ P.unrecognized = <<>>
      /\ x \in Msg(kind)
  BY MessageFieldTable DEF OnePart
<1>2. kind \in Parts /\ kind \in Types /\ k \in 1 .. 6
  BY <1>1, MessageKinds
<1>3. PartBytes(k, x) \in Bytes
  <2>1. MarshalOf[<<kind, x>>] \in Bytes
    BY <1>1, <1>2, MarshalOfDef, TypedMsgRule
  <2> QED
    BY <1>2, <2>1, DelimitedProperties DEF PartBytes
<1>4. /\ s \in Seq(Bytes) /\ Len(s) = 5
      /\ \A j \in 1 .. 5 : s[j] = FieldBytes(j, KindOf(T, j), P[NameOf(T, j)], MarshalOf)
  BY <1>1, MarshalTypedRule, PiecesType, MessageFieldTable
<1> HIDE DEF s
<1>5. s[1] = TypeBytes(k)
  <2>1. s[1] = FieldBytes(1, "enum", k - 1, MarshalOf)
    <3>1. s[1] = FieldBytes(1, KindOf(T, 1), P[NameOf(T, 1)], MarshalOf)
      BY <1>4
    <3> QED
      BY <1>1, <3>1, MessageFieldTable DEF MessageTable
  <2>2. "enum" \in Scalars
    BY DEF Scalars
  <2>3. FieldBytes(1, "enum", k - 1, MarshalOf) = <<8 * 1>> \o encodeVarintMsg[ToUint64("enum", k - 1)]
    <3> DEFINE v == k - 1
    <3>1. v # ZeroOf("enum")
      BY <1>1, HeadBytes
    <3> HIDE DEF v
    <3>2. FieldBytes(1, "enum", v, MarshalOf) = <<8 * 1>> \o encodeVarintMsg[ToUint64("enum", v)]
      BY <2>2, <3>1, FieldBytesScalar
    <3> QED
      BY <3>2 DEF v
  <2> QED
    BY <1>1, <2>1, <2>3, HeadBytes
<1>6. s[k] = PartBytes(k, x)
  <2> DEFINE v == P[NameOf(T, k)]
  <2>1. v = <<x>> /\ v # ZeroOf(kind) /\ v[1] = x
    BY <1>2, ZeroCases DEF OnePart
  <2>2. s[k] = FieldBytes(k, kind, v, MarshalOf)
    BY <1>1, <1>4
  <2> HIDE DEF v
  <2>3. FieldBytes(k, kind, v, MarshalOf) = Delimited(k, MarshalOf[<<kind, v[1]>>])
    BY <1>2, <2>1, FieldBytesPart
  <2> QED
    BY <2>1, <2>2, <2>3 DEF PartBytes
<1>7. \A j \in 2 .. 5 : j # k => s[j] = <<>>
  <2> SUFFICES ASSUME NEW j \in 2 .. 5, j # k PROVE s[j] = <<>>
    OBVIOUS
  <2>1. P[NameOf(T, j)] = ZeroOf(KindOf(T, j))
    BY MessageKinds, ZeroCases DEF OnePart
  <2>2. s[j] = FieldBytes(j, KindOf(T, j), P[NameOf(T, j)], MarshalOf)
    BY <1>4
  <2> QED
    BY <2>1, <2>2, FieldBytesZero
<1>8. Concat[s] = TypeBytes(k) \o PartBytes(k, x)
  BY <1>1, <1>3, <1>4, <1>5, <1>6, <1>7, HeadBytes, OneOfFive
<1>9. MarshalOf[<<T, P>>] = Concat[s] \o <<>>
  BY <1>1, MarshalOfDef DEF s
<1>10. Concat[s] \in Bytes
  BY <1>4, ConcatDef
<1> QED
  BY <1>3, <1>8, <1>9, <1>10, BytesConcat

\* The message of which only the type was read.
Only(k) == MessageOf(k - 1, <<>>, <<>>, <<>>, <<>>)

\* A Message with one part.
LEMMA OnlyProperties ==
    ASSUME NEW k \in 2 .. 5
    PROVE  /\ Only(k) \in Msg("Message") /\ Only(k).type = k - 1
           /\ Only(k) = [New("Message") EXCEPT ![NameOf("Message", 1)] = k - 1]
           /\ \A j \in 2 .. 5 : Only(k)[NameOf("Message", j)] = <<>>
<1>1. <<>> \in Optional(MsgStorageRequest) /\ <<>> \in Optional(MsgStorageResponse)
      /\ <<>> \in Optional(MsgRetrievalRequest) /\ <<>> \in Optional(MsgRetrievalResponse)
  BY DEF Optional
<1>2. k - 1 \in 1 .. 4
  OBVIOUS
<1>3. Only(k) \in Msg("Message")
  BY <1>1, <1>2, MessageOfType DEF Only
<1>4. Only(k) = [New("Message") EXCEPT !.type = k - 1]
  BY NewMessageWith DEF Only
<1>5. NameOf("Message", 1) = "type"
  BY MessageFieldTable DEF MessageTable
<1>6. /\ Only(k).type = k - 1
      /\ Only(k)["storage_request"] = <<>> /\ Only(k)["storage_response"] = <<>>
      /\ Only(k)["retrieval_request"] = <<>> /\ Only(k)["retrieval_response"] = <<>>
  BY DEF Only, MessageOf
<1>7. ASSUME NEW j \in 2 .. 5 PROVE Only(k)[NameOf("Message", j)] = <<>>
  BY <1>6, MessageFieldTable DEF MessageTable
<1> QED
  BY <1>3, <1>4, <1>5, <1>6, <1>7

\* The type is decoded first.
LEMMA HeadDecoded ==
    ASSUME NEW k \in 2 .. 5
    PROVE  /\ UnmarshalOf[<<"Message", New("Message"), TypeBytes(k)>>] = {Only(k)}
           /\ UnmarshalOf[<<"Message", New("Message"), SubSeq(TypeBytes(k), 1, 1)>>] = {}
<1> DEFINE T == "Message"
           m == New(T)
           b == TypeBytes(k)
           v == k - 1
           r == [m |-> Only(k), n |-> 2]
<1>1. T \in Types /\ m \in Msg(T) /\ 1 \in 1 .. Len(Fields[T])
  BY MessageFieldTable, NewProperties
<1>2. KindOf(T, 1) = "enum" /\ "enum" \in Scalars
  BY MessageFieldTable DEF MessageTable, Scalars
<1>3. b \in Bytes /\ Len(b) = 2 /\ v \in Value("enum") /\ b # <<>>
  BY HeadBytes
<1> HIDE DEF m, v
<1>4. Field(T, m, <<8 * 1>> \o encodeVarintMsg[ToUint64("enum", v)], UnmarshalOf)
        = {[m |-> [m EXCEPT ![NameOf(T, 1)] = v],
            n |-> Len(<<8 * 1>> \o encodeVarintMsg[ToUint64("enum", v)])]}
  BY <1>1, <1>2, <1>3, ScalarField
<1>5. <<8 * 1>> \o encodeVarintMsg[ToUint64("enum", v)] = b
  BY HeadBytes DEF v
<1>6. [m EXCEPT ![NameOf(T, 1)] = v] = Only(k)
  BY OnlyProperties DEF m, v
<1>7. Field(T, m, b, UnmarshalOf) = {r}
  BY <1>3, <1>4, <1>5, <1>6
<1> HIDE DEF b
<1>8. UnmarshalOf[<<T, m, b>>] = {Only(k)}
  <2> DEFINE p == Only(k)
  <2>1. p \in Msg(T) /\ Field(T, m, b, UnmarshalOf) = {[m |-> p, n |-> Len(b)]}
    BY <1>3, <1>7, OnlyProperties
  <2> HIDE DEF p, T, r
  <2>2. ASSUME NEW c \in Bytes, c # <<>>, Field(T, m, c, UnmarshalOf) = {[m |-> p, n |-> Len(c)]}
        PROVE  UnmarshalOf[<<T, m, c>>] = {p}
    BY <1>1, <2>1, <2>2, OneRound
  <2>3. UnmarshalOf[<<T, m, b>>] = {p}
    BY <1>3, <2>1, <2>2
  <2> QED
    BY <2>3 DEF p
<1>9. UnmarshalOf[<<T, m, SubSeq(b, 1, 1)>>] = {}
  <2>1. r \in Field(T, m, b, UnmarshalOf) /\ 1 \in 1 .. r.n - 1
    BY <1>7
  <2> HIDE DEF r
  <2> QED
    BY <1>1, <1>3, <2>1, FieldCut
<1> QED
  BY <1>8, <1>9 DEF m, b

\* A part that is cut off is not decoded.
LEMMA BodyCut ==
    ASSUME NEW P, NEW k, NEW x, OnePart(P, k, x), Fits(MarshalOf[<<"Message", P>>]),
           NEW n \in 1 .. Len(PartBytes(k, x)) - 1
    PROVE  UnmarshalOf[<<"Message", Only(k), SubSeq(PartBytes(k, x), 1, n)>>] = {}
<1> DEFINE T == "Message"
           kind == KindOf(T, k)
           body == MarshalOf[<<kind, x>>]
           d == PartBytes(k, x)
           m == Only(k)
<1>1. k \in 2 .. 5 /\ x \in Msg(kind) /\ Clean(kind, x)
  BY DEF OnePart
<1>2. /\ k \in 1 .. Len(Fields[T]) /\ k \in 1 .. 6 /\ T \in Types
      /\ kind \in Parts /\ kind \in Types /\ kind \in Kinds \ Scalars
  BY <1>1, MessageKinds, MessageFieldTable
<1>3. body \in Bytes
  BY <1>1, <1>2, MarshalOfDef, TypedMsgRule
<1>4. d \in Bytes /\ Len(d) < W64 \div 2
  <2>1. d \in Bytes /\ TypeBytes(k) \in Bytes /\ MarshalOf[<<"Message", P>>] = TypeBytes(k) \o d
    BY <1>1, WireForm, HeadBytes
  <2> HIDE DEF d
  <2>2. Fits(d)
    BY <2>1, FitsParts
  <2> QED
    BY <2>2 DEF Fits
<1>5. Len(body) < W64 \div 2
  BY <1>2, <1>3, <1>4, ShorterBody DEF PartBytes
<1>6. m \in Msg(T) /\ m[NameOf(T, k)] = <<>>
  BY <1>1, OnlyProperties
<1>7. Received(kind, m[NameOf(T, k)], body, UnmarshalOf) = {<<x>>}
  <2>1. Target(kind, m[NameOf(T, k)]) = New(kind)
    BY <1>6 DEF Target
  <2>2. UnmarshalOf[<<kind, New(kind), body>>] = {x}
    BY <1>1, <1>2, <1>5, RoundTrip DEF Unmarshal, Marshal
  <2>3. Received(kind, m[NameOf(T, k)], body, UnmarshalOf) = {<<y>> : y \in UnmarshalOf[<<kind, New(kind), body>>]}
    BY <1>2, <2>1, ReceivedPart
  <2> QED
    BY <2>2, <2>3
<1> HIDE DEF body, m
<1>8. d = Delimited(k, body)
  BY DEF PartBytes, body
<1> DEFINE r == [m |-> [m EXCEPT ![NameOf(T, k)] = <<x>>], n |-> Len(d)]
<1>9. r \in Field(T, m, d, UnmarshalOf)
  <2>1. Field(T, m, Delimited(k, body), UnmarshalOf)
            = {[m |-> [m EXCEPT ![NameOf(T, k)] = v], n |-> Len(Delimited(k, body))] :
                    v \in Received(kind, m[NameOf(T, k)], body, UnmarshalOf)}
    BY <1>2, <1>3, <1>5, <1>6, DelimitedIsField
  <2> QED
    BY <1>7, <1>8, <2>1
<1>10. r.n = Len(d)
  OBVIOUS
<1> HIDE DEF r, d
<1>11. UnmarshalOf[<<T, m, SubSeq(d, 1, n)>>] = {}
  <2>1. n \in 1 .. r.n - 1
    BY <1>10 DEF d
  <2> QED
    BY <1>2, <1>4, <1>6, <1>9, <2>1, FieldCut
<1> QED
  BY <1>11 DEF m, d

\* A Read of some of the bytes of two pieces.
LEMMA PrefixOfTwo ==
    ASSUME NEW a \in Bytes, NEW b \in Bytes, NEW n \in 0 .. Len(a) + Len(b)
    PROVE  /\ n <= Len(a) => SubSeq(a \o b, 1, n) = SubSeq(a, 1, n)
           /\ n >= Len(a) => /\ n - Len(a) \in 0 .. Len(b)
                             /\ SubSeq(b, 1, n - Len(a)) \in Bytes
                             /\ SubSeq(a \o b, 1, n) = a \o SubSeq(b, 1, n - Len(a))
<1>1. /\ a \o b \in Bytes /\ Len(a \o b) = Len(a) + Len(b) /\ Len(a) \in Nat /\ Len(b) \in Nat
  BY BytesConcat
<1>2. \A i \in 1 .. Len(a) + Len(b) : (a \o b)[i] = IF i <= Len(a) THEN a[i] ELSE b[i - Len(a)]
  BY ConcatProperties DEF Bytes
<1> DEFINE ab == a \o b
<1>3. /\ SubSeq(ab, 1, n) \in Bytes /\ Len(SubSeq(ab, 1, n)) = n
  BY <1>1, SplitBytes
<1>4. \A i \in 1 .. n : SubSeq(ab, 1, n)[i] = ab[i]
  BY <1>1 DEF Bytes
<1> HIDE DEF ab
<1>5. CASE n <= Len(a)
  <2>1. SubSeq(a, 1, n) \in Bytes /\ Len(SubSeq(a, 1, n)) = n
    BY <1>1, <1>5, SplitBytes
  <2>2. \A i \in 1 .. n : SubSeq(a, 1, n)[i] = a[i]
    BY <1>1, <1>5 DEF Bytes
  <2>3. \A i \in 1 .. n : SubSeq(ab, 1, n)[i] = SubSeq(a, 1, n)[i]
    BY <1>1, <1>2, <1>4, <1>5, <2>2 DEF ab
  <2>4. SubSeq(ab, 1, n) = SubSeq(a, 1, n)
    BY <1>3, <2>1, <2>3, SeqEqual DEF Bytes
  <2>5. ASSUME n >= Len(a)
        PROVE  /\ n - Len(a) \in 0 .. Len(b)
               /\ SubSeq(b, 1, n - Len(a)) \in Bytes
               /\ SubSeq(a, 1, n) = a \o SubSeq(b, 1, n - Len(a))
    <3> DEFINE j == n - Len(a)
    <3>1. n = Len(a) /\ j = 0
      BY <1>1, <1>5, <2>5
    <3> HIDE DEF j
    <3>2. SubSeq(b, 1, 0) = <<>> /\ SubSeq(a, 1, Len(a)) = a /\ <<>> \in Bytes
      BY DEF Bytes
    <3>3. a \o <<>> = a
      BY BytesConcat
    <3>4. j \in 0 .. Len(b) /\ SubSeq(b, 1, j) \in Bytes /\ SubSeq(a, 1, n) = a \o SubSeq(b, 1, j)
      <4>1. j \in 0 .. Len(b)
        BY <1>1, <3>1
      <4>2. SubSeq(b, 1, j) = <<>> /\ SubSeq(a, 1, n) = a
        BY <3>1, <3>2
      <4> QED
        BY <3>2, <3>3, <4>1, <4>2
    <3> QED
      BY <3>4 DEF j
  <2>6. SubSeq(a \o b, 1, n) = SubSeq(a, 1, n)
    BY <2>4 DEF ab
  <2> QED
    BY <1>5, <2>5, <2>6
<1>6. CASE n > Len(a)
  <2> DEFINE j == n - Len(a)
             c == SubSeq(b, 1, j)
  <2>1. j \in 0 .. Len(b) /\ j \in Nat /\ n = Len(a) + j
    BY <1>1, <1>6
  <2> HIDE DEF j
  <2>2. c \in Bytes /\ Len(c) = j
    BY <2>1, SplitBytes
  <2>3. \A i \in 1 .. j : c[i] = b[i]
    BY <1>1, <2>1 DEF Bytes
  <2> HIDE DEF c
  <2>4. /\ a \o c \in Bytes /\ Len(a \o c) = n
    BY <2>1, <2>2, BytesConcat
  <2>5. \A i \in 1 .. n : (a \o c)[i] = IF i <= Len(a) THEN a[i] ELSE c[i - Len(a)]
    BY <2>1, <2>2, ConcatProperties DEF Bytes
  <2>6. \A i \in 1 .. n : SubSeq(ab, 1, n)[i] = (a \o c)[i]
    <3> SUFFICES ASSUME NEW i \in 1 .. n PROVE SubSeq(ab, 1, n)[i] = (a \o c)[i]
      OBVIOUS
    <3>1. i <= Len(a) \/ i - Len(a) \in 1 .. j
      BY <1>1, <2>1
    <3>2. SubSeq(ab, 1, n)[i] = IF i <= Len(a) THEN a[i] ELSE b[i - Len(a)]
      BY <1>1, <1>2, <1>4 DEF ab
    <3> QED
      BY <2>3, <2>5, <3>1, <3>2
  <2>7. SubSeq(ab, 1, n) = a \o c
    BY <1>3, <2>4, <2>6, SeqEqual DEF Bytes
  <2> QED
    BY <1>1, <1>6, <2>1, <2>2, <2>7 DEF ab, c, j
<1> QED
  BY <1>1, <1>5, <1>6

\* What was written is decoded, once all of it is there.
LEMMA WholeRead ==
    ASSUME NEW P, NEW k, NEW x, OnePart(P, k, x), Fits(MarshalOf[<<"Message", P>>])
    PROVE  UnmarshalOf[<<"Message", New("Message"), MarshalOf[<<"Message", P>>]>>] = {P}
<1> DEFINE T == "Message"
<1>1. T \in Types /\ P \in Msg(T) /\ P.unrecognized = <<>> /\ k \in 2 .. 5
  BY MessageFieldTable DEF OnePart
<1>2. CleanParts(T, P)
  <2>1. ASSUME NEW j \in 1 .. Len(Fields[T]), KindOf(T, j) \in Parts, P[NameOf(T, j)] # <<>>
        PROVE  Clean(KindOf(T, j), P[NameOf(T, j)][1])
    <3>1. KindOf(T, 1) = "enum" /\ "enum" \notin Parts
      BY MessageFieldTable DEF MessageTable, Parts
    <3>2. j \in 2 .. 5
      BY <2>1, <3>1, MessageFieldTable
    <3>3. j = k
      BY <2>1, <3>2 DEF OnePart
    <3>4. P[NameOf(T, j)] = <<x>> /\ Clean(KindOf(T, j), x)
      BY <3>3 DEF OnePart
    <3> QED
      BY <3>4
  <2> QED
    BY <2>1 DEF CleanParts
<1>3. Clean(T, P)
  BY <1>1, <1>2, NothingUnknown
<1> QED
  BY <1>1, <1>3, RoundTrip DEF Fits, Marshal, Unmarshal

\* The result of a Read of the first n bytes of a message that was written,
\* whatever follows it: nothing, the type alone, or all of the message.
LEMMA PrefixRead ==
    ASSUME NEW P, NEW k, NEW x, OnePart(P, k, x), Fits(MarshalOf[<<"Message", P>>]),
           NEW e \in Bytes, NEW n \in 1 .. Len(MarshalOf[<<"Message", P>>]) + Len(e),
           NEW in \in UnmarshalOf[<<"Message", New("Message"), SubSeq(MarshalOf[<<"Message", P>>] \o e, 1, n)>>]
    PROVE  \/ n = 2 /\ in = Only(k)
           \/ /\ n - Len(MarshalOf[<<"Message", P>>]) \in 0 .. Len(e)
              /\ in \in UnmarshalOf[<<"Message", P, SubSeq(e, 1, n - Len(MarshalOf[<<"Message", P>>]))>>]
<1> DEFINE T == "Message"
           m == New(T)
           w == MarshalOf[<<T, P>>]
           h == TypeBytes(k)
           d == PartBytes(k, x)
<1>1. k \in 2 .. 5 /\ P \in Msg(T) /\ T \in Types /\ m \in Msg(T)
  BY MessageFieldTable, NewProperties DEF OnePart
<1>2. h \in Bytes /\ Len(h) = 2 /\ d \in Bytes /\ w = h \o d
  BY <1>1, HeadBytes, WireForm
<1>3. UnmarshalOf[<<T, m, w>>] = {P}
  BY WholeRead
<1>5. UnmarshalOf[<<T, m, h>>] = {Only(k)} /\ UnmarshalOf[<<T, m, SubSeq(h, 1, 1)>>] = {}
  BY <1>1, HeadDecoded
<1>6. \A i \in 1 .. Len(d) - 1 : UnmarshalOf[<<T, Only(k), SubSeq(d, 1, i)>>] = {}
  BY BodyCut
<1> HIDE DEF m, w, h, d
<1>4. w \in Bytes /\ Len(w) = 2 + Len(d) /\ Len(d) \in Nat /\ Len(e) \in Nat
  <2>1. h \o d \in Bytes /\ Len(h \o d) = Len(h) + Len(d) /\ Len(d) \in Nat
    BY <1>2, BytesConcat
  <2>2. Len(e) \in Nat
    BY DEF Bytes
  <2> QED
    BY <1>2, <2>1, <2>2
<1>7. n \in 0 .. Len(w) + Len(e) /\ in \in UnmarshalOf[<<T, m, SubSeq(w \o e, 1, n)>>]
  BY <1>4 DEF m, w
<1>8. CASE n >= Len(w)
  <2> DEFINE i == n - Len(w)
             c == SubSeq(e, 1, i)
  <2>1. i \in 0 .. Len(e) /\ c \in Bytes /\ SubSeq(w \o e, 1, n) = w \o c
    BY <1>4, <1>7, <1>8, PrefixOfTwo
  <2> HIDE DEF i, c
  <2>2. UnmarshalOf[<<T, m, w \o c>>] = UnmarshalOf[<<T, P, c>>]
    <3>1. P \in UnmarshalOf[<<T, m, w>>]
      BY <1>3
    <3> QED
      BY <1>1, <1>4, <2>1, <3>1, DecodeInParts
  <2>3. in \in UnmarshalOf[<<T, P, c>>]
    BY <1>7, <2>1, <2>2
  <2> QED
    BY <2>1, <2>3 DEF i, c, w
<1>9. CASE n < Len(w)
  <2>1. SubSeq(w \o e, 1, n) = SubSeq(w, 1, n) /\ n \in 0 .. 2 + Len(d) /\ n \in 1 .. 1 + Len(d)
    BY <1>4, <1>7, <1>9, PrefixOfTwo
  <2>2. in \in UnmarshalOf[<<T, m, SubSeq(h \o d, 1, n)>>]
    BY <1>2, <1>7, <2>1
  <2>3. CASE n <= 1
    <3>1. n = 1 /\ SubSeq(h \o d, 1, n) = SubSeq(h, 1, n)
      BY <1>2, <1>4, <2>1, <2>3, PrefixOfTwo
    <3> QED
      BY <1>5, <2>2, <3>1
  <2>4. CASE n = 2
    <3>1. SubSeq(h \o d, 1, n) = SubSeq(h, 1, n) /\ SubSeq(h, 1, 2) = h
      <4>1. SubSeq(h, 1, 2) = h
        BY <1>2 DEF Bytes
      <4>2. n <= Len(h) /\ n \in 0 .. Len(h) + Len(d)
        BY <1>2, <1>4, <2>1, <2>4
      <4> QED
        BY <1>2, <4>1, <4>2, PrefixOfTwo
    <3> QED
      <4>1. SubSeq(h \o d, 1, n) = h
        BY <2>4, <3>1
      <4> QED
        BY <1>5, <2>2, <2>4, <4>1
  <2>5. CASE n > 2
    <3> DEFINE i == n - 2
               c == SubSeq(d, 1, i)
    <3>1. i \in 1 .. Len(d) - 1
      BY <1>4, <2>1, <2>5
    <3>2. n \in 0 .. Len(h) + Len(d) /\ n >= Len(h) /\ n - Len(h) = i
      BY <1>2, <1>4, <2>1, <2>5
    <3> HIDE DEF i
    <3>3. c \in Bytes /\ SubSeq(h \o d, 1, n) = h \o c
      BY <1>2, <3>2, PrefixOfTwo
    <3>4. UnmarshalOf[<<T, Only(k), c>>] = {}
      BY <1>6, <3>1
    <3> HIDE DEF c
    <3>5. UnmarshalOf[<<T, m, h \o c>>] = UnmarshalOf[<<T, Only(k), c>>]
      <4>1. Only(k) \in UnmarshalOf[<<T, m, h>>]
        BY <1>5
      <4> QED
        BY <1>1, <1>2, <3>3, <4>1, DecodeInParts
    <3> QED
      BY <2>2, <3>3, <3>4, <3>5
  <2> QED
    BY <2>1, <2>3, <2>4, <2>5
<1> QED
  BY <1>4, <1>7, <1>8, <1>9

-----------------------------------------------------------------------------
(* What is unpacked from a message. *)

\* UnmarshalFromProtobuf for each type.
LEMMA UnpackCases ==
    ASSUME NEW p
    PROVE  /\ p.type = 1 => UnmarshalFromProtobuf(p) =
                {StorageRequestOf(b, b.contract[1]) :
                    b \in {q \in ToSet(p.storage_request) : q.contract # <<>>}}
           /\ p.type = 2 => UnmarshalFromProtobuf(p) =
                {[go |-> "StorageResponse", multiaddr |-> b.multiaddr, done |-> b.done] :
                    b \in ToSet(p.storage_response)}
           /\ p.type = 3 => UnmarshalFromProtobuf(p) =
                {[go |-> "RetrievalRequest", multiaddr |-> b.multiaddr, owner_id |-> b.owner_id,
                  timestamp |-> FromUnix(b.timestamp), signature |-> b.signature] :
                    b \in ToSet(p.retrieval_request)}
           /\ p.type = 4 => UnmarshalFromProtobuf(p) =
                {[go |-> "RetrievalResponse", ipfs_links |-> b.ipfs_links] :
                    b \in ToSet(p.retrieval_response)}
BY DEF UnmarshalFromProtobuf, STORAGE_REQUEST, STORAGE_RESPONSE, RETRIEVAL_REQUEST, RETRIEVAL_RESPONSE

\* The elements of a sequence of at most one.
LEMMA ToSetOne ==
    /\ ToSet(<<>>) = {}
    /\ \A x : ToSet(<<x>>) = {x}
    /\ \A S : \A s \in Optional(S) : \A x \in ToSet(s) : x \in S
BY DEF ToSet, Optional

\* What was written is what is unpacked, its times rounded down.
LEMMA Unpacked ==
    ASSUME NEW r, NEW p
    PROVE  /\ r \in StorageRequest /\ p.type = 1 /\ p.storage_request = <<StorageRequestPart(r)>>
                => UnmarshalFromProtobuf(p) = {Rounded(r)}
           /\ r \in StorageResponse /\ p.type = 2 /\ p.storage_response = <<StorageResponsePart(r)>>
                => UnmarshalFromProtobuf(p) = {r}
           /\ r \in RetrievalRequest /\ p.type = 3 /\ p.retrieval_request = <<RetrievalRequestPart(r)>>
                => UnmarshalFromProtobuf(p) = {Rounded(r)}
           /\ r \in RetrievalResponse /\ p.type = 4 /\ p.retrieval_response = <<RetrievalResponsePart(r)>>
                => UnmarshalFromProtobuf(p) = {r}
<1>1. ASSUME r \in StorageRequest, p.type = 1, p.storage_request = <<StorageRequestPart(r)>>
      PROVE  UnmarshalFromProtobuf(p) = {Rounded(r)}
  <2> DEFINE b == StorageRequestPart(r)
             c == ContractPart(r.contract)
             d == [r.contract EXCEPT !.expires = FromUnix(Unix(@))]
  <2>1. b.contract = <<c>> /\ b.multiaddr = r.multiaddr
    BY DEF StorageRequestPart
  <2>2. StorageRequestOf(b, c) = [go |-> "StorageRequest", multiaddr |-> r.multiaddr, contract |-> d]
    <3>1. d = [owner_id |-> c.owner_id, size |-> c.size, cid |-> c.cid, expires |-> FromUnix(c.expires),
               cardinality |-> c.cardinality, datatype |-> c.datatype]
      <4>1. d = [x \in {"owner_id", "size", "cid", "expires", "cardinality", "datatype"} |-> d[x]]
        BY <1>1 DEF StorageRequest, StorageContract
      <4>2. /\ d.owner_id = c.owner_id /\ d.size = c.size /\ d.cid = c.cid
            /\ d.expires = FromUnix(c.expires) /\ d.cardinality = c.cardinality
            /\ d.datatype = c.datatype
        BY <1>1 DEF StorageRequest, StorageContract, ContractPart
      <4> HIDE DEF d, c
      <4> QED
        BY <4>1, <4>2
    <3> HIDE DEF b, c, d
    <3> QED
      BY <2>1, <3>1 DEF StorageRequestOf
  <2>3. Rounded(r) = [go |-> "StorageRequest", multiaddr |-> r.multiaddr, contract |-> d]
    <3> DEFINE q == [r EXCEPT !.contract.expires = FromUnix(Unix(@))]
    <3>1. r = [x \in {"go", "multiaddr", "contract"} |-> r[x]] /\ r.go = "StorageRequest"
      BY <1>1 DEF StorageRequest
    <3>2. q = [x \in {"go", "multiaddr", "contract"} |-> q[x]]
      BY <3>1
    <3>3. q.go = "StorageRequest" /\ q.multiaddr = r.multiaddr /\ q.contract = d
      BY <3>1
    <3>4. Rounded(r) = q
      BY <3>1 DEF Rounded
    <3> HIDE DEF q, d
    <3> QED
      BY <3>2, <3>3, <3>4
  <2> HIDE DEF b, c, d
  <2>4. {q \in ToSet(<<b>>) : q.contract # <<>>} = {b}
    BY <2>1, ToSetOne
  <2>5. UnmarshalFromProtobuf(p) = {StorageRequestOf(y, y.contract[1]) : y \in {b}}
    BY <1>1, <2>4, UnpackCases DEF b
  <2>6. b.contract[1] = c
    BY <2>1
  <2> QED
    BY <2>2, <2>3, <2>5, <2>6
<1>2. ASSUME r \in StorageResponse, p.type = 2, p.storage_response = <<StorageResponsePart(r)>>
      PROVE  UnmarshalFromProtobuf(p) = {r}
  <2>1. UnmarshalFromProtobuf(p) =
            {[go |-> "StorageResponse", multiaddr |-> b.multiaddr, done |-> b.done] :
                b \in {StorageResponsePart(r)}}
    BY <1>2, UnpackCases, ToSetOne
  <2>2. r = [go |-> "StorageResponse", multiaddr |-> r.multiaddr, done |-> r.done]
    BY <1>2 DEF StorageResponse
  <2> QED
    BY <2>1, <2>2 DEF StorageResponsePart
<1>3. ASSUME r \in RetrievalRequest, p.type = 3, p.retrieval_request = <<RetrievalRequestPart(r)>>
      PROVE  UnmarshalFromProtobuf(p) = {Rounded(r)}
  <2> DEFINE t == FromUnix(Unix(r.timestamp))
             q == [r EXCEPT !.timestamp = FromUnix(Unix(@))]
  <2>1. UnmarshalFromProtobuf(p) =
            {[go |-> "RetrievalRequest", multiaddr |-> b.multiaddr, owner_id |-> b.owner_id,
              timestamp |-> FromUnix(b.timestamp), signature |-> b.signature] :
                b \in {RetrievalRequestPart(r)}}
    BY <1>3, UnpackCases, ToSetOne
  <2>2. r = [x \in {"go", "multiaddr", "owner_id", "timestamp", "signature"} |-> r[x]]
        /\ r.go = "RetrievalRequest"
    BY <1>3 DEF RetrievalRequest
  <2>3. q = [x \in {"go", "multiaddr", "owner_id", "timestamp", "signature"} |-> q[x]]
    BY <2>2
  <2>4. q.go = "RetrievalRequest" /\ q.multiaddr = r.multiaddr /\ q.owner_id = r.owner_id
        /\ q.timestamp = t /\ q.signature = r.signature
    BY <2>2
  <2>5. Rounded(r) = q
    BY <2>2 DEF Rounded
  <2> HIDE DEF q, t
  <2>6. Rounded(r) = [go |-> "RetrievalRequest", multiaddr |-> r.multiaddr, owner_id |-> r.owner_id,
                      timestamp |-> t, signature |-> r.signature]
    BY <2>3, <2>4, <2>5
  <2> QED
    BY <2>1, <2>6 DEF t, RetrievalRequestPart
<1>4. ASSUME r \in RetrievalResponse, p.type = 4, p.retrieval_response = <<RetrievalResponsePart(r)>>
      PROVE  UnmarshalFromProtobuf(p) = {r}
  <2>1. UnmarshalFromProtobuf(p) =
            {[go |-> "RetrievalResponse", ipfs_links |-> b.ipfs_links] : b \in {RetrievalResponsePart(r)}}
    BY <1>4, UnpackCases, ToSetOne
  <2>2. r = [go |-> "RetrievalResponse", ipfs_links |-> r.ipfs_links]
    BY <1>4 DEF RetrievalResponse
  <2> QED
    BY <2>1, <2>2 DEF RetrievalResponsePart
<1> QED
  BY <1>1, <1>2, <1>3, <1>4

\* From a type alone nothing is unpacked: the code dereferences nil.
LEMMA OnlyUnpacked ==
    ASSUME NEW k \in 2 .. 5
    PROVE  UnmarshalFromProtobuf(Only(k)) = {}
<1> DEFINE p == Only(k)
<1>1. /\ p.type = k - 1 /\ p.storage_request = <<>> /\ p.storage_response = <<>>
      /\ p.retrieval_request = <<>> /\ p.retrieval_response = <<>>
  BY DEF Only, MessageOf
<1> HIDE DEF p
<1>2. p.type = 1 \/ p.type = 2 \/ p.type = 3 \/ p.type = 4
  BY <1>1
<1>3. UnmarshalFromProtobuf(p) = {}
  BY <1>1, <1>2, UnpackCases, ToSetOne
<1> QED
  BY <1>3 DEF p

\* The structs that are written, and what they are when they arrive.
Struct == StorageRequest \cup StorageResponse \cup RetrievalRequest \cup RetrievalResponse

Arriving(r) == IF r \in StorageRequest \cup RetrievalRequest THEN Rounded(r) ELSE r

\* The structs that are sent.
LEMMA StructKinds ==
    ASSUME NEW r
    PROVE  /\ r \in StorageRequest => r.go = "StorageRequest"
           /\ r \in StorageResponse => r.go = "StorageResponse"
           /\ r \in RetrievalRequest => r.go = "RetrievalRequest"
           /\ r \in RetrievalResponse => r.go = "RetrievalResponse"
           /\ r \in StorageRequest \cup RetrievalRequest => Arriving(r) = Rounded(r)
           /\ r \in StorageResponse \cup RetrievalResponse => Arriving(r) = r
<1>1. /\ r \in StorageRequest => r.go = "StorageRequest"
      /\ r \in StorageResponse => r.go = "StorageResponse"
      /\ r \in RetrievalRequest => r.go = "RetrievalRequest"
      /\ r \in RetrievalResponse => r.go = "RetrievalResponse"
  BY DEF StorageRequest, StorageResponse, RetrievalRequest, RetrievalResponse
<1> QED
  BY <1>1 DEF Arriving

\* P is the message written for r.
Wire(r, P) ==
    /\ write(r) = MarshalOf[<<"Message", P>>]
    /\ \A u \in Bytes : UnmarshalFromProtobuf(Keep(P, u)) = {Arriving(r)}

\* What is written of a struct.
LEMMA Written ==
    ASSUME NEW r \in Struct
    PROVE  \E P, k, x : OnePart(P, k, x) /\ Wire(r, P)
<1> DEFINE P == MarshalToProtobuf(r)
<1>1. write(r) = MarshalOf[<<"Message", P>>]
  BY DEF write, MessageMarshal, Marshal
<1>2. CASE r \in StorageRequest
  <2> DEFINE x == StorageRequestPart(r)
  <2>1. P = MessageOf(1, <<x>>, <<>>, <<>>, <<>>)
    BY <1>2, ProtobufForms
  <2>2. OnePart(P, 2, x)
    BY <1>2, <2>1, PartTypes, OnePartForms
  <2>3. \A u : Keep(P, u).type = 1 /\ Keep(P, u).storage_request = <<x>>
    <3> HIDE DEF x
    <3> QED
      BY <2>1 DEF MessageOf, Keep
  <2>4. \A u : UnmarshalFromProtobuf(Keep(P, u)) = {Arriving(r)}
    BY <1>2, <2>3, Unpacked, StructKinds
  <2> QED
    BY <1>1, <2>2, <2>4 DEF Wire
<1>3. CASE r \in StorageResponse
  <2> DEFINE x == StorageResponsePart(r)
  <2>1. P = MessageOf(2, <<>>, <<x>>, <<>>, <<>>)
    BY <1>3, ProtobufForms
  <2>2. OnePart(P, 3, x)
    BY <1>3, <2>1, PartTypes, OnePartForms
  <2>3. \A u : Keep(P, u).type = 2 /\ Keep(P, u).storage_response = <<x>>
    <3> HIDE DEF x
    <3> QED
      BY <2>1 DEF MessageOf, Keep
  <2>4. \A u : UnmarshalFromProtobuf(Keep(P, u)) = {Arriving(r)}
    BY <1>3, <2>3, Unpacked, StructKinds
  <2> QED
    BY <1>1, <2>2, <2>4 DEF Wire
<1>4. CASE r \in RetrievalRequest
  <2> DEFINE x == RetrievalRequestPart(r)
  <2>1. P = MessageOf(3, <<>>, <<>>, <<x>>, <<>>)
    BY <1>4, ProtobufForms
  <2>2. OnePart(P, 4, x)
    BY <1>4, <2>1, PartTypes, OnePartForms
  <2>3. \A u : Keep(P, u).type = 3 /\ Keep(P, u).retrieval_request = <<x>>
    <3> HIDE DEF x
    <3> QED
      BY <2>1 DEF MessageOf, Keep
  <2>4. \A u : UnmarshalFromProtobuf(Keep(P, u)) = {Arriving(r)}
    BY <1>4, <2>3, Unpacked, StructKinds
  <2> QED
    BY <1>1, <2>2, <2>4 DEF Wire
<1>5. CASE r \in RetrievalResponse
  <2> DEFINE x == RetrievalResponsePart(r)
  <2>1. P = MessageOf(4, <<>>, <<>>, <<>>, <<x>>)
    BY <1>5, ProtobufForms
  <2>2. OnePart(P, 5, x)
    BY <1>5, <2>1, PartTypes, OnePartForms
  <2>3. \A u : Keep(P, u).type = 4 /\ Keep(P, u).retrieval_response = <<x>>
    <3> HIDE DEF x
    <3> QED
      BY <2>1 DEF MessageOf, Keep
  <2>4. \A u : UnmarshalFromProtobuf(Keep(P, u)) = {Arriving(r)}
    BY <1>5, <2>3, Unpacked, StructKinds
  <2> QED
    BY <1>1, <2>2, <2>4 DEF Wire
<1> QED
  BY <1>2, <1>3, <1>4, <1>5 DEF Struct

\* A Read of the first n bytes of what was written for r, followed by fields
\* this version does not know, is decoded to the type alone or to all of r.
LEMMA ReadWritten ==
    ASSUME NEW r \in Struct, Fits(write(r)), NEW e \in UnknownTo("Message"),
           NEW n \in 1 .. Len(write(r)) + Len(e), NEW in \in receive(write(r) \o e, n)
    PROVE  \/ n = 2 /\ UnmarshalFromProtobuf(in) = {}
           \/ UnmarshalFromProtobuf(in) = {Arriving(r)}
<1>1. PICK P, k, x : OnePart(P, k, x) /\ Wire(r, P)
  BY Written
<1> DEFINE w == write(r)
           i == n - Len(w)
           c == SubSeq(e, 1, i)
           T == "Message"
<1>2. w = MarshalOf[<<T, P>>] /\ e \in Bytes
  BY <1>1 DEF Wire, UnknownTo
<1>3. in \in UnmarshalOf[<<T, New(T), SubSeq(w \o e, 1, n)>>]
  BY DEF receive, MessageUnmarshal, Unmarshal
<1>4. \/ n = 2 /\ in = Only(k)
      \/ i \in 0 .. Len(e) /\ in \in UnmarshalOf[<<T, P, c>>]
  <2>1. n \in 1 .. Len(w) + Len(e) /\ Fits(w)
    OBVIOUS
  <2> HIDE DEF w
  <2> QED
    BY <1>1, <1>2, <1>3, <2>1, PrefixRead
<1>5. k \in 2 .. 5 /\ P \in Msg(T) /\ T \in Types
  BY <1>1, MessageFieldTable DEF OnePart
<1>6. CASE n = 2 /\ in = Only(k)
  BY <1>5, <1>6, OnlyUnpacked
<1>7. CASE i \in 0 .. Len(e) /\ in \in UnmarshalOf[<<T, P, c>>]
  <2>1. c \in Bytes
    BY <1>2, <1>7, SplitBytes
  <2> HIDE DEF i
  <2>2. in = Keep(P, c)
    BY <1>5, <1>7, UnknownPrefix
  <2> QED
    BY <1>1, <2>1, <2>2 DEF Wire
<1> QED
  BY <1>4, <1>6, <1>7

\* What is unpacked from a request has values of the Go types.
LEMMA UnpackedTypes ==
    ASSUME NEW p \in Msg("Message"), p.type \in {STORAGE_REQUEST, RETRIEVAL_REQUEST},
           NEW r \in UnmarshalFromProtobuf(p), r.go = "StorageRequest"
    PROVE  /\ {r.contract.size, r.contract.cardinality, r.contract.datatype} \subseteq 0 .. W32 - 1
           /\ Unix(r.contract.expires) \in -(W64 \div 2) .. (W64 \div 2) - 1
<1>1. p.type = 1
  <2>1. p.type = 1 \/ p.type = 3
    BY DEF STORAGE_REQUEST, RETRIEVAL_REQUEST
  <2>2. ASSUME p.type = 3 PROVE r.go = "RetrievalRequest"
    BY <2>2, UnpackCases
  <2> QED
    BY <2>1, <2>2
<1>2. PICK b \in ToSet(p.storage_request) : b.contract # <<>> /\ r = StorageRequestOf(b, b.contract[1])
  BY <1>1, UnpackCases
<1>3. b \in MsgStorageRequest
  <2>1. p.storage_request \in Optional(MsgStorageRequest)
    <3>1. p \in Message
      BY MsgCases
    <3> QED
      BY <3>1 DEF Message
  <2> QED
    BY <2>1, ToSetOne
<1> DEFINE c == b.contract[1]
<1>4. c \in Contract
  BY <1>2, <1>3 DEF MsgStorageRequest, Optional
<1> HIDE DEF c
<1>5. /\ r.contract.size = c.size /\ r.contract.cardinality = c.cardinality
      /\ r.contract.datatype = c.datatype /\ r.contract.expires = FromUnix(c.expires)
  BY <1>2 DEF StorageRequestOf, c
<1>6. c.size \in Uint32 /\ c.cardinality \in Uint32 /\ c.datatype \in Uint32 /\ c.expires \in Int64
  BY <1>4 DEF Contract
<1>7. Unix(FromUnix(c.expires)) = c.expires
  <2>1. c.expires \in Int
    BY <1>6, Widths DEF Int64
  <2>2. ASSUME NEW i \in Int, NEW t \in Nat \ {0} PROVE (i * t) \div t = i
    OBVIOUS
  <2> QED
    BY <2>1, <2>2, ExchangeAssumption DEF Unix, FromUnix
<1> QED
  BY <1>5, <1>6, <1>7 DEF Uint32, Int64

\* Bytes that are kept whole hold only fields this version does not know.
LEMMA OnlyUnknownMeaning ==
    ASSUME NEW b \in Bytes, OnlyUnknown(b)
    PROVE  b \in UnknownTo("Message")
<1> DEFINE T == "Message"
           p == [New(T) EXCEPT !.unrecognized = b]
<1>1. T \in Types /\ New(T) \in Msg(T) /\ New(T).unrecognized = <<>>
  BY MessageFieldTable, NewProperties
<1>2. p.unrecognized = b /\ p \in UnmarshalOf[<<T, New(T), b>>]
  <2>1. p.unrecognized = b
    BY <1>1, MsgUnknown
  <2> QED
    BY <2>1 DEF OnlyUnknown, Unmarshal
<1>3. Len(b) \in Nat /\ Len(<<>>) = 0
  BY DEF Bytes
<1> HIDE DEF p
<1> QED
  BY <1>1, <1>2, <1>3, UnknownLength

-----------------------------------------------------------------------------
(* The inductive invariant. *)

\* What is on the wire to reader: the request, written once, and what another
\* version wrote behind it.
Asked ==
    /\ request = <<>> \/ \E r \in Requests : request = <<r>>
    /\ up = IF request = <<>> THEN <<>> ELSE write(request[1])
    /\ client = "idle" => request = <<>> /\ extra = <<>> /\ server = "reading" /\ ack = 2
    /\ client = "sent" => request # <<>>

\* What is on the wire to Send: the answer, once there is one.
Answered ==
    /\ server # "replied" => reply = <<>> /\ down = <<>>
    /\ server = "replied" => \E x \in Replies : reply = <<x>> /\ down = write(x)
    /\ response # <<>> => server = "replied"
    /\ served # <<>> => server \in {"serving", "replied"}

IInv == TypeOK /\ Asked /\ Answered /\ ServedAsSent /\ AckTruthful /\ CrashOnlyAfterType

\* The structs given to write, and the bytes it writes.
LEMMA WrittenBytes ==
    ASSUME NEW r \in Requests \cup Replies
    PROVE  /\ r \in Struct /\ Fits(write(r)) /\ Len(write(r)) < W64 \div 4
           /\ r \in Requests => Arriving(r) = Rounded(r)
           /\ r \in Replies => Arriving(r) = r
<1>1. /\ r \in Requests => r \in StorageRequest \cup RetrievalRequest
      /\ r \in Replies => r \in StorageResponse \cup RetrievalResponse
  BY ExchangeAssumption DEF Replies, RetrievalResponse
<1>2. r \in Struct
  BY <1>1 DEF Struct
<1>3. PICK P, k, x : OnePart(P, k, x) /\ Wire(r, P)
  BY <1>2, Written
<1>4. write(r) \in Bytes
  <2>1. P \in Msg("Message") /\ "Message" \in Types
    BY <1>3, MessageFieldTable DEF OnePart
  <2>2. MarshalOf[<<"Message", P>>] \in Bytes
    BY <2>1, MarshalOfDef, TypedMsgRule
  <2> QED
    BY <1>3, <2>2 DEF Wire
<1>5. Len(write(r)) < W64 \div 4 /\ W64 \div 4 <= W64 \div 2
  BY ExchangeAssumption, Widths
<1>6. Fits(write(r))
  BY <1>4, <1>5, Widths DEF Fits, Bytes
<1> QED
  BY <1>1, <1>2, <1>5, <1>6, StructKinds

\* What a Read yields is a Message.
LEMMA ReadTypes ==
    ASSUME NEW b \in Bytes, NEW n \in 1 .. Len(b), NEW in \in receive(b, n)
    PROVE  in \in Msg("Message")
<1> DEFINE T == "Message"
           c == SubSeq(b, 1, n)
<1>1. T \in Types /\ New(T) \in Msg(T)
  BY MessageFieldTable, NewProperties
<1>2. c \in Bytes
  BY SplitBytes
<1>3. in \in UnmarshalOf[<<T, New(T), c>>]
  BY DEF receive, MessageUnmarshal, Unmarshal
<1> HIDE DEF c, T
<1> QED
  BY <1>1, <1>2, <1>3, UnknownLength DEF T

\* The number of bytes a Read returns.
LEMMA ReadableNumber ==
    ASSUME NEW b \in Bytes, NEW n, Readable(b, n)
    PROVE  n \in 0 .. Len(b) /\ n \in 0 .. Limit /\ Len(b) \in Nat
BY ExchangeAssumption DEF Readable, Bytes

\* What reader makes of a Read of the request.
LEMMA RequestRead ==
    ASSUME TypeOK, Asked, NEW n, n > 0, Readable(up \o extra, n), NEW in \in receive(up \o extra, n)
    PROVE  /\ in \in Msg("Message") /\ n \in 0 .. Limit
           /\ extra = <<>> => request # <<>>
           /\ request # <<>> /\ (extra = <<>> \/ OnlyUnknown(extra)) =>
                \/ n = 2 /\ UnmarshalFromProtobuf(in) = {}
                \/ UnmarshalFromProtobuf(in) = {Rounded(request[1])}
<1>1. up \in Bytes /\ extra \in Bytes
  BY DEF TypeOK, Bytes
<1>2. up \o extra \in Bytes /\ Len(up \o extra) = Len(up) + Len(extra) /\ Len(up) \in Nat /\ Len(extra) \in Nat
  BY <1>1, BytesConcat
<1>3. n \in 1 .. Len(up) + Len(extra) /\ n \in 0 .. Limit
  <2> DEFINE b == up \o extra
  <2>1. b \in Bytes /\ Readable(b, n) /\ Len(b) = Len(up) + Len(extra)
    BY <1>2
  <2> HIDE DEF b
  <2>2. n \in 0 .. Len(b) /\ n \in 0 .. Limit
    BY <2>1, ReadableNumber
  <2> QED
    BY <1>2, <2>1, <2>2
<1>4. in \in Msg("Message")
  BY <1>2, <1>3, ReadTypes
<1>5. ASSUME extra = <<>>
      PROVE  request # <<>>
  <2>1. up # <<>>
    BY <1>1, <1>3, <1>5
  <2> QED
    BY <2>1 DEF Asked
<1>6. ASSUME request # <<>>, extra = <<>> \/ OnlyUnknown(extra)
      PROVE  \/ n = 2 /\ UnmarshalFromProtobuf(in) = {}
             \/ UnmarshalFromProtobuf(in) = {Rounded(request[1])}
  <2>1. PICK r \in Requests : request = <<r>>
    BY <1>6 DEF Asked
  <2>2. up = write(r) /\ request[1] = r
    BY <1>6, <2>1 DEF Asked
  <2>3. extra \in UnknownTo("Message")
    <3>1. <<>> \in UnknownTo("Message")
      BY MessageFieldTable, UnknownConcat
    <3> QED
      BY <1>1, <1>6, <3>1, OnlyUnknownMeaning
  <2>4. r \in Struct /\ Fits(write(r)) /\ Arriving(r) = Rounded(r)
    BY WrittenBytes
  <2> QED
    BY <1>3, <2>2, <2>3, <2>4, ReadWritten
<1> QED
  BY <1>3, <1>4, <1>5, <1>6

\* What Send makes of a Read of the answer.
LEMMA ReplyRead ==
    ASSUME TypeOK, Answered, NEW n, n > 0, Readable(down, n), NEW in \in receive(down, n)
    PROVE  /\ server = "replied" /\ n \in 0 .. Limit
           /\ \/ n = 2 /\ UnmarshalFromProtobuf(in) = {}
              \/ UnmarshalFromProtobuf(in) = {reply[1]} /\ reply = <<reply[1]>>
<1>1. down \in Bytes
  BY DEF TypeOK, Bytes
<1>2. n \in 1 .. Len(down) /\ n \in 0 .. Limit /\ Len(down) \in Nat
  BY <1>1, ReadableNumber
<1>3. server = "replied"
  BY <1>2 DEF Answered
<1>4. PICK x \in Replies : reply = <<x>> /\ down = write(x)
  BY <1>3 DEF Answered
<1>5. x \in Struct /\ Fits(write(x)) /\ Arriving(x) = x
  BY WrittenBytes
<1>6. <<>> \in UnknownTo("Message") /\ Len(<<>>) = 0
  BY MessageFieldTable, UnknownConcat
<1>7. write(x) \o <<>> = write(x)
  BY <1>1, <1>4, BytesConcat DEF Bytes
<1>8. n \in 1 .. Len(write(x)) + Len(<<>>) /\ in \in receive(write(x) \o <<>>, n)
  BY <1>2, <1>4, <1>6, <1>7
<1>9. \/ n = 2 /\ UnmarshalFromProtobuf(in) = {}
      \/ UnmarshalFromProtobuf(in) = {x}
  BY <1>5, <1>6, <1>8, ReadWritten
<1> QED
  BY <1>2, <1>3, <1>4, <1>9

\* The invariant holds at the start.
LEMMA InitInvariant == Init => IInv
<1> SUFFICES ASSUME Init PROVE IInv
  OBVIOUS
<1>1. TypeOK
  <2>1. MaxFragments \in Nat /\ Limit \in Nat
    BY ExchangeAssumption
  <2>2. ToSet(served) = {}
    BY ToSetOne DEF Init
  <2> QED
    BY <2>1, <2>2 DEF Init, TypeOK, Byte
<1>2. Asked /\ Answered /\ ServedAsSent /\ AckTruthful /\ CrashOnlyAfterType
  BY DEF Init, Asked, Answered, ServedAsSent, AckTruthful, CrashOnlyAfterType
<1> QED
  BY <1>1, <1>2 DEF IInv

\* What the first step of the asking node leaves behind.
LEMMA AskingStep ==
    ASSUME IInv, client = "idle", NEW rs, rs = <<>> \/ \E r \in Requests : rs = <<r>>,
           client' \in {"sent", "returned", "other"}, client' = "sent" => rs # <<>>,
           request' = rs, up' = IF rs = <<>> THEN <<>> ELSE write(rs[1]),
           ack' \in {0, 2}, UNCHANGED <<extra, pieces, heard, response>>, UNCHANGED serverVars
    PROVE  IInv'
<1> USE DEF IInv, serverVars
<1>1. server = "reading" /\ served = <<>> /\ response = <<>> /\ extra = <<>>
  BY DEF Asked, Answered
<1>2. up' \in Bytes
  <2>1. CASE rs = <<>>
    BY <2>1 DEF Bytes
  <2>2. CASE rs # <<>>
    <3>1. PICK r \in Requests : rs = <<r>>
      BY <2>2
    <3>2. write(r) \in Bytes
      BY WrittenBytes DEF Fits
    <3> QED
      BY <2>2, <3>1, <3>2
  <2> QED
    BY <2>1, <2>2
<1>3. TypeOK'
  <2>1. ToSet(served') = {}
    BY <1>1, ToSetOne
  <2> QED
    BY <1>2, <2>1 DEF TypeOK, Bytes
<1>4. Asked'
  BY DEF Asked
<1>5. Answered'
  BY DEF Answered
<1>6. ServedAsSent'
  BY <1>1 DEF ServedAsSent
<1>7. AckTruthful'
  BY <1>1 DEF AckTruthful
<1>8. CrashOnlyAfterType'
  BY <1>1 DEF CrashOnlyAfterType
<1> QED
  BY <1>3, <1>4, <1>5, <1>6, <1>7, <1>8

\* A later version adds fields.
LEMMA ExtendStep ==
    ASSUME IInv, NEW f \in Fragments, Extend(f)
    PROVE  IInv'
<1> USE DEF IInv, Extend, serverVars
<1>1. served = <<>>
  BY DEF Answered
<1>2. TypeOK'
  <2>1. extra \in Bytes /\ f \in Bytes
    BY ExchangeAssumption DEF TypeOK, Bytes
  <2>2. extra' \in Bytes
    BY <2>1, BytesConcat
  <2>3. pieces' \in 0 .. MaxFragments
    BY ExchangeAssumption DEF TypeOK
  <2>4. ToSet(served') = {}
    BY <1>1, ToSetOne
  <2> QED
    BY <2>2, <2>3, <2>4 DEF TypeOK, Bytes
<1>3. Asked'
  BY DEF Asked
<1>4. Answered'
  BY DEF Answered
<1>5. ServedAsSent' /\ AckTruthful' /\ CrashOnlyAfterType'
  BY <1>1 DEF ServedAsSent, AckTruthful, CrashOnlyAfterType
<1> QED
  BY <1>2, <1>3, <1>4, <1>5

\* reader gives up.
LEMMA ReadFailsStep ==
    ASSUME IInv, NEW n, ReadFails(n)
    PROVE  IInv'
<1> USE DEF IInv, ReadFails, clientVars
<1>1. served = <<>> /\ reply = <<>> /\ down = <<>>
  BY DEF Answered
<1>2. TypeOK'
  <2>1. n \in 0 .. Limit
    <3>1. up \in Bytes /\ extra \in Bytes
      BY DEF TypeOK, Bytes
    <3>2. up \o extra \in Bytes
      BY <3>1, BytesConcat
    <3> QED
      BY <3>2, ReadableNumber
  <2>2. ToSet(served') = {}
    BY <1>1, ToSetOne
  <2> QED
    BY <2>1, <2>2 DEF TypeOK
<1>3. Asked'
  BY DEF Asked
<1>4. Answered' /\ ServedAsSent' /\ AckTruthful' /\ CrashOnlyAfterType'
  BY <1>1 DEF Answered, ServedAsSent, AckTruthful, CrashOnlyAfterType
<1> QED
  BY <1>2, <1>3, <1>4

\* reader has read a request, or dereferences nil.
LEMMA ReadRequestStep ==
    ASSUME IInv, NEW n, ReadRequest(n)
    PROVE  IInv'
<1> USE DEF IInv, clientVars
<1>0. /\ server = "reading" /\ client # "idle" /\ n > 0 /\ Readable(up \o extra, n)
      /\ seen' = n /\ UNCHANGED <<reply, down, client, request, up, extra, pieces, heard, response, ack>>
  BY DEF ReadRequest
<1>1. served = <<>> /\ reply = <<>> /\ down = <<>> /\ response = <<>>
  BY <1>0 DEF Answered
<1>2. PICK in \in receive(up \o extra, n) :
        /\ in.type \in {STORAGE_REQUEST, RETRIEVAL_REQUEST}
        /\ \/ \E msg \in UnmarshalFromProtobuf(in) : served' = <<msg>> /\ server' = "serving"
           \/ UnmarshalFromProtobuf(in) = {} /\ server' = "panic" /\ served' = served
  BY DEF ReadRequest
<1>3. /\ in \in Msg("Message") /\ n \in 0 .. Limit
      /\ extra = <<>> => request # <<>>
      /\ request # <<>> /\ (extra = <<>> \/ OnlyUnknown(extra)) =>
            \/ n = 2 /\ UnmarshalFromProtobuf(in) = {}
            \/ UnmarshalFromProtobuf(in) = {Rounded(request[1])}
  BY <1>0, RequestRead
<1>4. Asked' /\ AckTruthful'
  BY <1>0, <1>1 DEF Asked, AckTruthful
<1>5. CASE \E msg \in UnmarshalFromProtobuf(in) : served' = <<msg>> /\ server' = "serving"
  <2>1. PICK msg \in UnmarshalFromProtobuf(in) : served' = <<msg>> /\ server' = "serving"
    BY <1>5
  <2>2. TypeOK'
    <3>1. \A r \in ToSet(served') : r.go = "StorageRequest" =>
            /\ {r.contract.size, r.contract.cardinality, r.contract.datatype} \subseteq 0 .. W32 - 1
            /\ Unix(r.contract.expires) \in -(W64 \div 2) .. (W64 \div 2) - 1
      <4>1. ToSet(served') = {msg}
        BY <2>1, ToSetOne
      <4> QED
        BY <1>2, <1>3, <4>1, UnpackedTypes
    <3> QED
      BY <1>0, <1>3, <2>1, <3>1 DEF TypeOK
  <2>3. Answered' /\ CrashOnlyAfterType'
    BY <1>0, <1>1, <2>1 DEF Answered, CrashOnlyAfterType
  <2>4. ServedAsSent'
    <3>1. ASSUME request # <<>>, extra = <<>> \/ OnlyUnknown(extra)
          PROVE  served' = <<Rounded(request[1])>>
      BY <1>3, <2>1, <3>1
    <3> QED
      BY <1>0, <3>1 DEF ServedAsSent, OnlyUnknown
  <2> QED
    BY <1>4, <2>2, <2>3, <2>4
<1>6. CASE UnmarshalFromProtobuf(in) = {} /\ server' = "panic" /\ served' = served
  <2>1. TypeOK'
    <3>1. ToSet(served') = {}
      BY <1>1, <1>6, ToSetOne
    <3> QED
      BY <1>0, <1>3, <1>6, <3>1 DEF TypeOK
  <2>2. Answered' /\ ServedAsSent'
    BY <1>0, <1>1, <1>6 DEF Answered, ServedAsSent
  <2>3. CrashOnlyAfterType'
    <3>1. extra = <<>> => n = 2
      BY <1>3, <1>6
    <3> QED
      BY <1>0, <3>1 DEF CrashOnlyAfterType
  <2> QED
    BY <1>4, <2>1, <2>2, <2>3
<1> QED
  BY <1>2, <1>5, <1>6

\* The answer is written.
LEMMA ReplyStep ==
    ASSUME IInv, NEW r \in Replies, Reply(r)
    PROVE  IInv'
<1> USE DEF IInv, Reply, clientVars
<1>1. write(r) \in Bytes
  BY WrittenBytes DEF Fits
<1>2. response = <<>>
  BY DEF Answered
<1>3. TypeOK'
  BY <1>1 DEF TypeOK, Bytes
<1>4. Asked' /\ Answered'
  BY <1>2 DEF Asked, Answered
<1>5. ServedAsSent' /\ AckTruthful' /\ CrashOnlyAfterType'
  BY <1>2 DEF ServedAsSent, AckTruthful, CrashOnlyAfterType, OnlyUnknown
<1> QED
  BY <1>3, <1>4, <1>5

\* Send gives up.
LEMMA ReplyFailsStep ==
    ASSUME IInv, NEW n, ReplyFails(n)
    PROVE  IInv'
<1> USE DEF IInv, ReplyFails, serverVars
<1>1. n \in 0 .. Limit
  <2>1. down \in Bytes
    BY DEF TypeOK, Bytes
  <2> QED
    BY <2>1, ReadableNumber
<1>2. TypeOK'
  BY <1>1 DEF TypeOK
<1>3. Asked' /\ Answered'
  BY DEF Asked, Answered
<1>4. ServedAsSent' /\ AckTruthful' /\ CrashOnlyAfterType'
  BY DEF ServedAsSent, AckTruthful, CrashOnlyAfterType, OnlyUnknown
<1> QED
  BY <1>2, <1>3, <1>4

\* Send has read an answer, or dereferences nil.
LEMMA ReadReplyStep ==
    ASSUME IInv, NEW n, ReadReply(n)
    PROVE  IInv'
<1> USE DEF IInv, serverVars
<1>0. /\ client = "sent" /\ n > 0 /\ Readable(down, n) /\ heard' = n
      /\ UNCHANGED <<request, up, extra, pieces, server, seen, served, reply, down>>
  BY DEF ReadReply
<1>1. PICK in \in receive(down, n) :
        \/ \E msg \in UnmarshalFromProtobuf(in) :
                response' = <<msg>> /\ ack' = AckOf(msg) /\ client' = "returned"
        \/ UnmarshalFromProtobuf(in) = {} /\ client' = "panic" /\ UNCHANGED <<response, ack>>
  BY DEF ReadReply
<1>2. /\ server = "replied" /\ n \in 0 .. Limit
      /\ \/ n = 2 /\ UnmarshalFromProtobuf(in) = {}
         \/ UnmarshalFromProtobuf(in) = {reply[1]} /\ reply = <<reply[1]>>
  BY <1>0, ReplyRead
<1>3. CASE \E msg \in UnmarshalFromProtobuf(in) :
                response' = <<msg>> /\ ack' = AckOf(msg) /\ client' = "returned"
  <2>1. PICK msg \in UnmarshalFromProtobuf(in) :
            response' = <<msg>> /\ ack' = AckOf(msg) /\ client' = "returned"
    BY <1>3
  <2>2. response' = reply
    BY <1>2, <2>1
  <2>3. ack' \in 0 .. 1 /\ (ack' = 1 /\ msg.go = "StorageResponse" => msg.done)
    BY <2>1 DEF AckOf
  <2>4. TypeOK' /\ Asked' /\ Answered'
    BY <1>0, <1>2, <2>1, <2>3 DEF TypeOK, Asked, Answered
  <2>5. ServedAsSent' /\ CrashOnlyAfterType'
    BY <1>0, <2>1 DEF ServedAsSent, CrashOnlyAfterType, OnlyUnknown
  <2>6. AckTruthful'
    <3>1. response' # <<>> /\ response'[1] = msg
      BY <2>1
    <3> QED
      BY <1>0, <2>2, <2>3, <3>1 DEF AckTruthful
  <2> QED
    BY <2>4, <2>5, <2>6
<1>4. CASE UnmarshalFromProtobuf(in) = {} /\ client' = "panic" /\ UNCHANGED <<response, ack>>
  <2>1. n = 2
    BY <1>2, <1>4
  <2>2. TypeOK' /\ Asked' /\ Answered'
    BY <1>0, <1>2, <1>4 DEF TypeOK, Asked, Answered
  <2>3. ServedAsSent' /\ AckTruthful' /\ CrashOnlyAfterType'
    BY <1>0, <1>4, <2>1 DEF ServedAsSent, AckTruthful, CrashOnlyAfterType, OnlyUnknown
  <2> QED
    BY <2>2, <2>3
<1> QED
  BY <1>1, <1>3, <1>4

\* Every step preserves the invariant.
LEMMA NextInvariant == IInv /\ [Next]_vars => IInv'
<1> SUFFICES ASSUME IInv, [Next]_vars PROVE IInv'
  OBVIOUS
<1>1. ASSUME NEW r \in Requests, SendRequest(r) \/ WriteFails(r) PROVE IInv'
  <2> DEFINE rs == <<r>>
  <2>1. rs # <<>> /\ rs[1] = r /\ \E q \in Requests : rs = <<q>>
    OBVIOUS
  <2>2. /\ client = "idle" /\ client' \in {"sent", "returned", "other"} /\ request' = rs
        /\ up' = IF rs = <<>> THEN <<>> ELSE write(rs[1])
        /\ UNCHANGED <<extra, pieces, heard, response>> /\ UNCHANGED serverVars
    BY <1>1, <2>1 DEF SendRequest, WriteFails
  <2>3. ack' \in {0, 2}
    <3>1. ack = 2
      BY <2>2 DEF IInv, Asked
    <3> QED
      BY <1>1, <3>1 DEF SendRequest, WriteFails
  <2> HIDE DEF rs
  <2> QED
    BY <2>1, <2>2, <2>3, AskingStep
<1>2. ASSUME NEW rs \in Extended, OtherAsks(rs) PROVE IInv'
  <2>1. rs = <<>> \/ \E r \in Requests : rs = <<r>>
    BY ExchangeAssumption
  <2>2. ack' \in {0, 2}
    BY <1>2 DEF OtherAsks, IInv, Asked
  <2>3. client' = "other" /\ client = "idle"
    BY <1>2 DEF OtherAsks
  <2> QED
    BY <1>2, <2>1, <2>2, <2>3, AskingStep DEF OtherAsks
<1>3. ASSUME NEW f \in Fragments, Extend(f) PROVE IInv'
  BY <1>3, ExtendStep
<1>4. ASSUME NEW n, ReadFails(n) PROVE IInv'
  BY <1>4, ReadFailsStep
<1>5. ASSUME NEW n, ReadRequest(n) PROVE IInv'
  BY <1>5, ReadRequestStep
<1>6. ASSUME NEW r \in Replies, Reply(r) PROVE IInv'
  BY <1>6, ReplyStep
<1>7. ASSUME NEW n, ReplyFails(n) PROVE IInv'
  BY <1>7, ReplyFailsStep
<1>8. ASSUME NEW n, ReadReply(n) PROVE IInv'
  BY <1>8, ReadReplyStep
<1>9. CASE UNCHANGED vars
  BY <1>9 DEF vars, IInv, TypeOK, Asked, Answered, ServedAsSent, AckTruthful, CrashOnlyAfterType,
              OnlyUnknown
<1> QED
  BY <1>1, <1>2, <1>3, <1>4, <1>5, <1>6, <1>7, <1>8, <1>9 DEF Next

\* The invariant holds in every reachable state.
LEMMA Invariant == Spec => []IInv
<1>1. Init => IInv
  BY InitInvariant
<1>2. IInv /\ [Next]_vars => IInv'
  BY NextInvariant
<1> QED
  BY <1>1, <1>2, PTL DEF Spec

-----------------------------------------------------------------------------
(* The theorems. *)

\* In every reachable state the values have the types of the code: bytes on the
\* wire, and in every request given to the OfferManager integers that fit their
\* Go types, whatever bytes another version of the program sent.
THEOREM Typed == Spec => []TypeOK
<1>1. IInv => TypeOK
  BY DEF IInv
<1> QED
  BY <1>1, Invariant, PTL

\* reader serves exactly the request that Send was called with, its times rounded
\* down, whatever number of bytes its Read returns and whatever unknown fields
\* follow the request.
THEOREM ServesWhatWasSent == Spec => []ServedAsSent
<1>1. IInv => ServedAsSent
  BY DEF IInv
<1> QED
  BY <1>1, Invariant, PTL

\* Send reports an acceptance only when the other node gave one.
THEOREM AcceptanceIsTrue == Spec => []AckTruthful
<1>1. IInv => AckTruthful
  BY DEF IInv
<1> QED
  BY <1>1, Invariant, PTL

\* UnmarshalFromProtobuf dereferences nil only behind a Read of two bytes.
THEOREM CrashesOnlyAfterType == Spec => []CrashOnlyAfterType
<1>1. IInv => CrashOnlyAfterType
  BY DEF IInv
<1> QED
  BY <1>1, Invariant, PTL

\* The messages decoded from bytes are messages.
LEMMA DecodedTypes ==
    ASSUME NEW T \in Types, NEW b \in Bytes, NEW m \in Unmarshal(T, b)
    PROVE  m \in Msg(T)
<1>1. New(T) \in Msg(T)
  BY NewProperties
<1>2. m \in UnmarshalOf[<<T, New(T), b>>]
  BY DEF Unmarshal
<1> QED
  BY <1>1, <1>2, UnknownLength

\* What is on the wire is bytes.
LEMMA InTransitBytes == TypeOK => InTransit \subseteq Bytes
BY DEF TypeOK, InTransit, Bytes

\* The buffer Marshal allocates by Size is filled exactly, for every message that
\* can be decoded from what is on the wire.
THEOREM SizesAreExact == Spec => []SizeExact
<1>1. ASSUME IInv PROVE SizeExact
  <2>1. ASSUME NEW b \in InTransit, NEW T \in Types, NEW m \in Unmarshal(T, b)
        PROVE  Size(T, m) = Len(Marshal(T, m))
    <3>1. b \in Bytes
      BY <1>1, InTransitBytes DEF IInv
    <3>2. m \in Msg(T)
      BY <3>1, DecodedTypes
    <3> QED
      BY <3>2, SizeIsExact
  <2>2. ASSUME NEW b \in InTransit
        PROVE  /\ \A m \in OfferUnmarshal(b) : OfferSize(m) = Len(OfferMarshal(m))
               /\ \A m \in ContractUnmarshal(b) : ContractSize(m) = Len(ContractMarshal(m))
               /\ \A m \in MessageUnmarshal(b) : MessageSize(m) = Len(MessageMarshal(m))
    BY <2>1 DEF Types, OfferUnmarshal, OfferSize, OfferMarshal, ContractUnmarshal, ContractSize,
                ContractMarshal, MessageUnmarshal, MessageSize, MessageMarshal
  <2>3. ASSUME NEW b \in InTransit
        PROVE  /\ \A m \in MsgStorageRequestUnmarshal(b) :
                      MsgStorageRequestSize(m) = Len(MsgStorageRequestMarshal(m))
               /\ \A m \in MsgStorageResponseUnmarshal(b) :
                      MsgStorageResponseSize(m) = Len(MsgStorageResponseMarshal(m))
    BY <2>1 DEF Types, MsgStorageRequestUnmarshal, MsgStorageRequestSize, MsgStorageRequestMarshal,
                MsgStorageResponseUnmarshal, MsgStorageResponseSize, MsgStorageResponseMarshal
  <2>4. ASSUME NEW b \in InTransit
        PROVE  /\ \A m \in MsgRetrievalRequestUnmarshal(b) :
                      MsgRetrievalRequestSize(m) = Len(MsgRetrievalRequestMarshal(m))
               /\ \A m \in MsgRetrievalResponseUnmarshal(b) :
                      MsgRetrievalResponseSize(m) = Len(MsgRetrievalResponseMarshal(m))
    BY <2>1 DEF Types, MsgRetrievalRequestUnmarshal, MsgRetrievalRequestSize, MsgRetrievalRequestMarshal,
                MsgRetrievalResponseUnmarshal, MsgRetrievalResponseSize, MsgRetrievalResponseMarshal
  <2> QED
    BY <2>2, <2>3, <2>4 DEF SizeExact
<1> QED
  BY <1>1, Invariant, PTL

\* What later versions may add is bounded: each of the at most MaxFragments
\* pieces is so short that all of them together are below a quarter of W64.
Short ==
    /\ pieces = 0 => extra = <<>>
    /\ MaxFragments * Len(extra) <= pieces * ((W64 \div 4) - 1)

\* A quarter of W64 is a number above zero.
LEMMA Quarter == (W64 \div 4) - 1 \in Nat
BY WidthAssumption

\* Extend keeps what was added short.
LEMMA ShortExtended ==
    ASSUME TypeOK, Short, NEW f \in Fragments, Extend(f)
    PROVE  Short'
<1> DEFINE q == (W64 \div 4) - 1
           M == MaxFragments
           e == Len(extra)
           l == Len(f)
<1>1. extra \in Bytes /\ f \in Bytes
  BY ExchangeAssumption DEF TypeOK, Bytes
<1>2. e \in Nat /\ l \in Nat /\ M \in Nat /\ q \in Nat /\ pieces \in Nat
  BY <1>1, ExchangeAssumption, Quarter DEF TypeOK, Bytes
<1>3. Len(extra') = e + l /\ pieces' = pieces + 1
  BY <1>1, BytesConcat DEF Extend
<1>4. M * l < W64 \div 4
  BY ExchangeAssumption
<1>5. M * l <= q
  <2>1. M * l \in Nat
    BY <1>2
  <2> QED
    BY <1>4, <2>1, WidthAssumption
<1>6. M * e <= pieces * q
  BY DEF Short
<1> HIDE DEF q, M, e, l
<1>7. M * (e + l) = M * e + M * l /\ (pieces + 1) * q = pieces * q + q
  BY <1>2
<1>8. M * e \in Nat /\ M * l \in Nat /\ pieces * q \in Nat
  BY <1>2
<1>9. M * (e + l) <= (pieces + 1) * q
  BY <1>2, <1>5, <1>6, <1>7, <1>8
<1> QED
  BY <1>2, <1>3, <1>9 DEF Short, M, q

\* Short holds in every reachable state.
LEMMA ShortAlways == Spec => [](IInv /\ Short)
<1>1. Init => Short
  <2> SUFFICES ASSUME Init PROVE Short
    OBVIOUS
  <2>1. extra = <<>> /\ pieces = 0 /\ Len(<<>>) = 0
    BY DEF Init
  <2> QED
    BY <2>1, Quarter, ExchangeAssumption DEF Short
<1>2. IInv /\ Short /\ [Next]_vars => Short'
  <2> SUFFICES ASSUME IInv, Short, [Next]_vars PROVE Short'
    OBVIOUS
  <2>1. ASSUME NEW f \in Fragments, Extend(f) PROVE Short'
    BY <2>1, ShortExtended DEF IInv
  <2>2. CASE UNCHANGED <<extra, pieces>>
    BY <2>2 DEF Short
  <2>3. CASE UNCHANGED vars
    BY <2>2, <2>3 DEF vars
  <2>4. ASSUME Next, \A f \in Fragments : ~Extend(f) PROVE UNCHANGED <<extra, pieces>>
    BY <2>4 DEF Next, SendRequest, WriteFails, OtherAsks, ReadFails, ReadRequest, Reply, ReplyFails,
                ReadReply, clientVars
  <2> QED
    BY <2>1, <2>2, <2>3, <2>4
<1> QED
  BY <1>1, <1>2, Invariant, PTL DEF Spec

\* All that was added is below a quarter of W64.
LEMMA ShortLength ==
    ASSUME TypeOK, Short
    PROVE  Len(extra) < W64 \div 4
<1> DEFINE q == (W64 \div 4) - 1
           M == MaxFragments
           e == Len(extra)
<1>1. extra \in Bytes
  BY DEF TypeOK, Bytes
<1>2. e \in Nat /\ M \in Nat /\ q \in Nat /\ pieces \in 0 .. M
  BY <1>1, ExchangeAssumption, Quarter DEF TypeOK, Bytes
<1>3. M * e <= pieces * q
  BY DEF Short
<1>4. q < W64 \div 4
  BY WidthAssumption
<1>5. e <= q
  <2>1. CASE pieces = 0
    <3>1. e = 0
      BY <2>1 DEF Short
    <3> QED
      BY <1>2, <3>1
  <2>2. CASE pieces # 0
    <3> HIDE DEF q, M, e
    <3>1. M >= 1 /\ M - pieces \in Nat
      BY <1>2, <2>2
    <3>2. (M - pieces) * q \in Nat /\ M * q \in Nat /\ pieces * q \in Nat /\ M * e \in Nat
      BY <1>2, <3>1
    <3>3. (M - pieces) * q = M * q - pieces * q
      BY <1>2
    <3>4. M * e <= M * q
      BY <1>3, <3>2, <3>3
    <3>5. ASSUME e >= q + 1 PROVE FALSE
      <4>1. e - (q + 1) \in Nat
        BY <1>2, <3>5
      <4>2. M * (e - (q + 1)) \in Nat
        BY <1>2, <4>1
      <4>3. M * (e - (q + 1)) = M * e - M * q - M
        BY <1>2
      <4> QED
        BY <1>2, <3>1, <3>2, <3>4, <4>2, <4>3
    <3> QED
      BY <1>2, <3>5
  <2> QED
    BY <2>1, <2>2
<1>6. W64 \div 4 \in Nat
  BY WidthAssumption
<1> HIDE DEF q
<1> QED
  BY <1>2, <1>4, <1>5, <1>6

\* So is everything on the wire.
LEMMA InTransitShort ==
    ASSUME IInv, Short, NEW b \in InTransit
    PROVE  b \in Bytes /\ Len(b) < W64 \div 4
<1>1. b \in Bytes
  <2>1. TypeOK
    BY DEF IInv
  <2> QED
    BY <2>1, InTransitBytes
<1>2. 0 < W64 \div 4 /\ Len(<<>>) = 0
  BY WidthAssumption
<1>3. CASE b = extra
  BY <1>1, <1>3, ShortLength DEF IInv
<1>4. CASE b = up
  <2>1. up = <<>> \/ \E r \in Requests : up = write(r)
    BY DEF IInv, Asked
  <2> QED
    BY <1>1, <1>2, <1>4, <2>1, WrittenBytes
<1>5. CASE server = "replied" /\ b = down
  <2>1. PICK x \in Replies : down = write(x)
    BY <1>5 DEF IInv, Answered
  <2> QED
    BY <1>1, <1>5, <2>1, WrittenBytes
<1> QED
  BY <1>3, <1>4, <1>5 DEF InTransit

\* Whatever bytes are on the wire, of this version or a later one: what Unmarshal
\* makes of them is marshalled and unmarshalled again without a change.
THEOREM DecodedStaysStable == Spec => []DecodedIsStable
<1>1. ASSUME IInv, Short PROVE DecodedIsStable
  <2>1. ASSUME NEW b \in InTransit, NEW T \in Types, NEW m \in Unmarshal(T, b)
        PROVE  Unmarshal(T, Marshal(T, m)) = {m}
    <3>1. b \in Bytes /\ Len(b) < W64 \div 4
      BY <1>1, InTransitShort
    <3> QED
      BY <3>1, DecodedRoundTrip
  <2>2. ASSUME NEW b \in InTransit
        PROVE  /\ \A m \in OfferUnmarshal(b) : OfferUnmarshal(OfferMarshal(m)) = {m}
               /\ \A m \in ContractUnmarshal(b) : ContractUnmarshal(ContractMarshal(m)) = {m}
               /\ \A m \in MessageUnmarshal(b) : MessageUnmarshal(MessageMarshal(m)) = {m}
    BY <2>1 DEF Types, OfferUnmarshal, OfferMarshal, ContractUnmarshal, ContractMarshal,
                MessageUnmarshal, MessageMarshal
  <2>3. ASSUME NEW b \in InTransit
        PROVE  /\ \A m \in MsgStorageRequestUnmarshal(b) :
                      MsgStorageRequestUnmarshal(MsgStorageRequestMarshal(m)) = {m}
               /\ \A m \in MsgStorageResponseUnmarshal(b) :
                      MsgStorageResponseUnmarshal(MsgStorageResponseMarshal(m)) = {m}
    BY <2>1 DEF Types, MsgStorageRequestUnmarshal, MsgStorageRequestMarshal,
                MsgStorageResponseUnmarshal, MsgStorageResponseMarshal
  <2>4. ASSUME NEW b \in InTransit
        PROVE  /\ \A m \in MsgRetrievalRequestUnmarshal(b) :
                      MsgRetrievalRequestUnmarshal(MsgRetrievalRequestMarshal(m)) = {m}
               /\ \A m \in MsgRetrievalResponseUnmarshal(b) :
                      MsgRetrievalResponseUnmarshal(MsgRetrievalResponseMarshal(m)) = {m}
    BY <2>1 DEF Types, MsgRetrievalRequestUnmarshal, MsgRetrievalRequestMarshal,
                MsgRetrievalResponseUnmarshal, MsgRetrievalResponseMarshal
  <2> QED
    BY <2>2, <2>3, <2>4 DEF DecodedIsStable
<1> QED
  BY <1>1, ShortAlways, PTL
=============================================================================
