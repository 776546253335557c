-------------------------- MODULE MsgCodec_proofs ---------------------------
(***************************************************************************)
(* Proofs about MsgCodec, for all messages and all bytes:                  *)
(*                                                                         *)
(*   SizeIsExact       Size is the number of bytes Marshal writes;         *)
(*   DecodeInParts     bytes are decoded field by field, so that decoding  *)
(*                     them in two parts at a field yields the same;       *)
(*   RoundTrip         what is written is read;                            *)
(*   DecodedRoundTrip  so is, once more, whatever has been read.           *)
(*                                                                         *)
(* The operators of MsgCodec are recursive functions.  That each has values *)
(* and what they are is proved first, from the theorem on recursion below; *)
(* a proof by induction shows that the set of the good numbers is Nat.     *)
(***************************************************************************)
EXTENDS MsgCodec, SequenceTheorems, WellFoundedInduction, TLAPS

-----------------------------------------------------------------------------
(* Induction and recursion. *)

\* Every set of numbers that is not empty has a least element.
LEMMA LeastNumber ==
    ASSUME NEW S \in SUBSET Nat, S # {}
    PROVE  \E n \in S : \A m \in S : n <= m
<1> DEFINE Less == {ss \in Nat \X Nat : ss[1] < ss[2]}
<1>1. Less = OpToRel(<, Nat)
  BY Zenon DEF OpToRel
<1>2. IsWellFoundedOn(Less, Nat)
  BY <1>1, NatLessThanWellFounded, Zenon
<1> HIDE DEF Less
<1>3. PICK n \in S : \A m \in S : <<m, n>> \notin Less
  BY <1>2, WFMin
<1>4. ASSUME NEW m \in S PROVE n <= m
  <2>1. m \in Nat /\ n \in Nat
    OBVIOUS
  <2>2. m < n => <<m, n>> \in Less
    BY <2>1 DEF Less
  <2> QED
    BY <1>3, <2>1, <2>2
<1> QED
  BY <1>4

\* Induction over the numbers, for a set instead of a predicate.
LEMMA Induction ==
    ASSUME NEW S, 0 \in S, \A n \in Nat : n \in S => n + 1 \in S
    PROVE  Nat \subseteq S
<1> SUFFICES ASSUME Nat \ S # {} PROVE FALSE
  OBVIOUS
<1>1. PICK n \in Nat \ S : \A m \in Nat \ S : n <= m
  BY LeastNumber
<1>2. n # 0 /\ n - 1 \in Nat
  OBVIOUS
<1>3. n - 1 \in S
  BY <1>1, <1>2
<1> QED
  BY <1>1, <1>2, <1>3

\* The functions on D whose value at x is in R[x].
Pi(D, V, R) == {g \in [D -> V] : \A x \in D : g[x] \in R[x]}

\* H[x][g] is the value at x computed from the function g: it is in R[x], and
\* depends only on the values of g at arguments of a lower rank.
IsRecursion(D, V, R, rank, H) ==
    /\ \A x \in D : R[x] # {} /\ R[x] \subseteq V
    /\ rank \in [D -> Nat]
    /\ \A x \in D : \A g \in Pi(D, V, R) : H[x][g] \in R[x]
    /\ \A x \in D : \A g, h \in Pi(D, V, R) :
          (\A y \in D : rank[y] < rank[x] => g[y] = h[y]) => H[x][g] = H[x][h]

\* A recursion along a rank has a solution; R bounds each of its values.
LEMMA RecursionTheorem ==
    ASSUME NEW D, NEW V, NEW R, NEW rank, NEW H, IsRecursion(D, V, R, rank, H)
    PROVE  \E f \in Pi(D, V, R) : \A x \in D : f[x] = H[x][f]
<1> USE DEF IsRecursion
<1> DEFINE G == Pi(D, V, R)
           Upto(g, n) == \A x \in D : rank[x] < n => g[x] = H[x][g]
           Good == {n \in Nat : \E g \in G : Upto(g, n)}
<1>1. 0 \in Good
  <2> DEFINE g == [x \in D |-> CHOOSE v \in R[x] : TRUE]
  <2>1. g \in G
    BY DEF Pi
  <2>2. Upto(g, 0)
    OBVIOUS
  <2> QED
    BY <2>1, <2>2
<1>2. ASSUME NEW n \in Nat, n \in Good PROVE n + 1 \in Good
  <2>1. PICK g \in G : Upto(g, n)
    BY <1>2
  <2> DEFINE h == [x \in D |-> IF rank[x] < n + 1 THEN H[x][g] ELSE g[x]]
  <2>2. h \in G
    BY DEF Pi
  <2>3. ASSUME NEW x \in D, rank[x] < n + 1 PROVE h[x] = H[x][h]
    <3>1. \A y \in D : rank[y] < rank[x] => g[y] = h[y]
      BY <2>1, <2>3
    <3>2. H[x][g] = H[x][h]
      BY <2>2, <3>1
    <3> QED
      BY <2>3, <3>2
  <2> HIDE DEF h
  <2> QED
    BY <2>2, <2>3
<1> HIDE DEF Good
<1>3. \A n \in Nat : \E g \in G : Upto(g, n)
  <2>1. Nat \subseteq Good
    BY <1>1, <1>2, Induction
  <2> QED
    BY <2>1 DEF Good
<1> DEFINE Ap(n) == CHOOSE g \in G : Upto(g, n)
<1>4. \A n \in Nat : Ap(n) \in G /\ Upto(Ap(n), n)
  BY <1>3
<1> HIDE DEF Ap
<1>5. ASSUME NEW n \in Nat, NEW k \in Nat PROVE \A x \in D : rank[x] < n /\ rank[x] < k => Ap(n)[x] = Ap(k)[x]
  <2> DEFINE Bad == {r \in Nat : \E x \in D : rank[x] = r /\ r < n /\ r < k /\ Ap(n)[x] # Ap(k)[x]}
  <2> SUFFICES ASSUME Bad # {} PROVE FALSE
    OBVIOUS
  <2>1. PICK r \in Bad : \A s \in Bad : r <= s
    BY LeastNumber
  <2>2. PICK x \in D : rank[x] = r /\ r < n /\ r < k /\ Ap(n)[x] # Ap(k)[x]
    BY <2>1
  <2>3. \A y \in D : rank[y] < rank[x] => Ap(n)[y] = Ap(k)[y]
    BY <2>1, <2>2
  <2>4. H[x][Ap(n)] = H[x][Ap(k)]
    BY <1>4, <2>3
  <2> QED
    BY <1>4, <2>2, <2>4
<1> DEFINE f == [x \in D |-> Ap(rank[x] + 1)[x]]
<1>6. f \in G
  BY <1>4 DEF Pi
<1>7. ASSUME NEW x \in D PROVE f[x] = H[x][f]
  <2>1. Ap(rank[x] + 1)[x] = H[x][Ap(rank[x] + 1)]
    BY <1>4
  <2>2. \A y \in D : rank[y] < rank[x] => Ap(rank[x] + 1)[y] = f[y]
    BY <1>5
  <2>3. Ap(rank[x] + 1) \in G
    BY <1>4
  <2>4. f[x] = Ap(rank[x] + 1)[x]
    OBVIOUS
  <2> HIDE DEF f
  <2>5. H[x][Ap(rank[x] + 1)] = H[x][f]
    BY <1>6, <2>2, <2>3
  <2> QED
    BY <2>1, <2>4, <2>5
<1> HIDE DEF f
<1> QED
  BY <1>6, <1>7

\* The same for a function with one range.
IsSimpleRecursion(D, V, rank, H) ==
    /\ V # {}
    /\ rank \in [D -> Nat]
    /\ \A x \in D : \A g \in [D -> V] : H[x][g] \in V
    /\ \A x \in D : \A g, h \in [D -> V] :
          (\A y \in D : rank[y] < rank[x] => g[y] = h[y]) => H[x][g] = H[x][h]

\* The same when V bounds all of them.
LEMMA SimpleRecursion ==
    ASSUME NEW D, NEW V, NEW rank, NEW H, IsSimpleRecursion(D, V, rank, H)
    PROVE  \E f \in [D -> V] : \A x \in D : f[x] = H[x][f]
<1> DEFINE R == [x \in D |-> V]
<1>1. Pi(D, V, R) = [D -> V]
  BY DEF Pi
<1>2. IsRecursion(D, V, R, rank, H)
  BY <1>1 DEF IsRecursion, IsSimpleRecursion
<1> HIDE DEF R
<1> QED
  BY <1>1, <1>2, RecursionTheorem


\* f, whatever its values may be, satisfies the equation.
Solves(f, D, V, rank, H) ==
    /\ f = [x \in D |-> f[x]]
    /\ \A x \in D : \A g \in [D -> V] :
          (\A y \in D : rank[y] < rank[x] => g[y] = f[y]) => f[x] = H[x][g]

\* A function that satisfies the equation has its values in V.
LEMMA RecursionType ==
    ASSUME NEW D, NEW V, NEW rank, NEW H, IsSimpleRecursion(D, V, rank, H),
           NEW f, Solves(f, D, V, rank, H)
    PROVE  f \in [D -> V]
<1> USE DEF Solves
<1>1. PICK g \in [D -> V] : \A x \in D : g[x] = H[x][g]
  BY SimpleRecursion
<1>2. rank \in [D -> Nat]
  BY DEF IsSimpleRecursion
<1> DEFINE Bad == {r \in Nat : \E x \in D : rank[x] = r /\ g[x] # f[x]}
<1>3. ASSUME Bad # {} PROVE FALSE
  <2>1. PICK r \in Bad : \A s \in Bad : r <= s
    BY <1>3, LeastNumber
  <2>2. PICK x \in D : rank[x] = r /\ g[x] # f[x]
    BY <2>1
  <2>3. \A y \in D : rank[y] < rank[x] => g[y] = f[y]
    BY <1>2, <2>1, <2>2
  <2> QED
    BY <1>1, <2>2, <2>3
<1> QED
  BY <1>2, <1>3

\* Strong induction over the numbers, for a set.
LEMMA StrongInduction ==
    ASSUME NEW S, \A n \in Nat : (\A k \in Nat : k < n => k \in S) => n \in S
    PROVE  Nat \subseteq S
<1> SUFFICES ASSUME Nat \ S # {} PROVE FALSE
  OBVIOUS
<1>1. PICK n \in Nat \ S : \A m \in Nat \ S : n <= m
  BY LeastNumber
<1>2. \A k \in Nat : k < n => k \in S
  BY <1>1
<1> QED
  BY <1>1, <1>2

-----------------------------------------------------------------------------
(* Sequences of bytes. *)

\* What Drop returns.
LEMMA DropProperties ==
    ASSUME NEW S, NEW b \in Seq(S), NEW n \in Nat
    PROVE  /\ Drop(b, n) \in Seq(S)
           /\ Len(Drop(b, n)) = IF n <= Len(b) THEN Len(b) - n ELSE 0
           /\ \A i \in 1 .. Len(b) - n : Drop(b, n)[i] = b[n + i]
BY DEF Drop

\* Dropping twice is dropping once.
LEMMA DropDrop ==
    ASSUME NEW S, NEW b \in Seq(S), NEW n \in Nat, NEW k \in Nat, n <= Len(b)
    PROVE  Drop(Drop(b, n), k) = Drop(b, n + k)
BY DEF Drop

\* Drop reaches into the first of two parts only.
LEMMA DropConcat ==
    ASSUME NEW S, NEW a \in Seq(S), NEW b \in Seq(S), NEW n \in 0 .. Len(a)
    PROVE  Drop(a \o b, n) = Drop(a, n) \o b
<1> DEFINE l == Drop(a \o b, n)
           r == Drop(a, n) \o b
<1>1. l \in Seq(S) /\ r \in Seq(S)
  BY DEF Drop
<1>2. Len(l) = Len(a) + Len(b) - n /\ Len(r) = Len(a) + Len(b) - n
  BY DEF Drop
<1>3. ASSUME NEW i \in 1 .. Len(a) - n PROVE l[i] = r[i]
  BY DEF Drop
<1>4. ASSUME NEW i \in 1 .. Len(b) PROVE l[Len(a) - n + i] = r[Len(a) - n + i]
  <2>1. l[Len(a) - n + i] = b[i]
    BY DEF Drop
  <2>2. Drop(a, n) \in Seq(S) /\ Len(Drop(a, n)) = Len(a) - n
    BY DEF Drop
  <2>3. r[Len(Drop(a, n)) + i] = b[i]
    BY <2>2
  <2> QED
    BY <2>1, <2>2, <2>3
<1>5. ASSUME NEW i \in 1 .. Len(l) PROVE l[i] = r[i]
  <2> HIDE DEF l, r
  <2>1. CASE i <= Len(a) - n
    BY <1>3, <2>1
  <2>2. CASE i > Len(a) - n
    <3>1. i - (Len(a) - n) \in 1 .. Len(b) /\ i = Len(a) - n + (i - (Len(a) - n))
      BY <1>2, <2>2
    <3>2. PICK j \in 1 .. Len(b) : i = Len(a) - n + j
      BY <3>1
    <3> QED
      BY <1>4, <3>2
  <2> QED
    BY <2>1, <2>2
<1> HIDE DEF l, r
<1>6. l = r
  BY <1>1, <1>2, <1>5, SeqEqual
<1> QED
  BY <1>6 DEF l, r

\* Drop at the ends of a sequence.
LEMMA DropAll ==
    ASSUME NEW S, NEW a \in Seq(S), NEW b \in Seq(S)
    PROVE  /\ Drop(a, Len(a)) = <<>>
           /\ Drop(a, 0) = a
           /\ Drop(a \o b, Len(a)) = b
<1>1. Drop(a, Len(a)) = <<>> /\ Drop(a, 0) = a
  BY DEF Drop
<1>2. Drop(a \o b, Len(a)) = Drop(a, Len(a)) \o b
  BY DropConcat
<1> QED
  BY <1>1, <1>2

\* Tail is the Drop of one element.
LEMMA TailIsDrop ==
    ASSUME NEW S, NEW b \in Seq(S), b # <<>>
    PROVE  Tail(b) = Drop(b, 1)
BY DEF Drop

\* b and c begin with the same n bytes.
Agree(b, c, n) == n <= Len(b) /\ n <= Len(c) /\ \A i \in 1 .. n : b[i] = c[i]

\* Sequences that agree still agree behind a common start.
LEMMA AgreeDrop ==
    ASSUME NEW S, NEW b \in Seq(S), NEW c \in Seq(S), NEW n \in Nat, NEW k \in Nat,
           Agree(b, c, n + k)
    PROVE  Agree(Drop(b, n), Drop(c, n), k)
BY DEF Agree, Drop

\* What is appended does not change the start.
LEMMA AgreeConcat ==
    ASSUME NEW S, NEW b \in Seq(S), NEW c \in Seq(S), NEW n \in 0 .. Len(b)
    PROVE  Agree(b, b \o c, n) /\ Agree(b \o c, b, n)
BY DEF Agree

\* Sequences that agree have the same parts.
LEMMA AgreeSubSeq ==
    ASSUME NEW S, NEW b \in Seq(S), NEW c \in Seq(S), NEW n \in Nat, NEW k \in 1 .. n + 1,
           Agree(b, c, n)
    PROVE  SubSeq(b, k, n) = SubSeq(c, k, n)
BY DEF Agree

\* A sequence is its start and the rest.
LEMMA SplitAt ==
    ASSUME NEW S, NEW b \in Seq(S), NEW n \in 0 .. Len(b)
    PROVE  /\ SubSeq(b, 1, n) \in Seq(S)
           /\ Len(SubSeq(b, 1, n)) = n
           /\ b = SubSeq(b, 1, n) \o Drop(b, n)
<1>1. SubSeq(b, 1, n) \in Seq(S) /\ Len(SubSeq(b, 1, n)) = n
  OBVIOUS
<1>2. 1 \in 1 .. Len(b) + 1 /\ n \in 1 - 1 .. Len(b) /\ Len(b) \in n .. Len(b)
  OBVIOUS
<1>3. SubSeq(b, 1, n) \o SubSeq(b, n + 1, Len(b)) = SubSeq(b, 1, Len(b))
  BY <1>2, ConcatAdjacentSubSeq
<1> QED
  BY <1>1, <1>3, SubSeqFull DEF Drop

\* Drop on bytes.
LEMMA DropBytes ==
    ASSUME NEW b \in Bytes, NEW n \in 0 .. Len(b)
    PROVE  Drop(b, n) \in Bytes /\ Len(Drop(b, n)) = Len(b) - n /\ Len(b) \in Nat
BY DEF Drop, Bytes

\* The first byte and the rest.
LEMMA HeadAndTail ==
    ASSUME NEW b \in Bytes, b # <<>>
    PROVE  /\ Len(b) \in Nat \ {0} /\ b[1] \in 0 .. 255
           /\ Tail(b) \in Bytes /\ Len(Tail(b)) = Len(b) - 1
<1>1. Len(b) \in Nat \ {0} /\ Tail(b) \in Bytes /\ Len(Tail(b)) = Len(b) - 1
  BY DEF Bytes
<1>2. b[1] \in Byte
  BY <1>1, ElementOfSeq DEF Bytes
<1> QED
  BY <1>1, <1>2 DEF Byte

-----------------------------------------------------------------------------
(* Varints. *)

\* encodeVarintMsg solves its recursion.
LEMMA EncodeVarintDef ==
    /\ encodeVarintMsg \in [Nat -> Bytes]
    /\ \A v \in Nat : encodeVarintMsg[v] =
            IF v < 128 THEN <<v>> ELSE <<128 + (v % 128)>> \o encodeVarintMsg[v \div 128]
<1> DEFINE e(x, g) == IF x < 128 THEN <<x>> ELSE <<128 + (x % 128)>> \o g[x \div 128]
           G == [Nat -> Bytes]
           H == [x \in Nat |-> [g \in G |-> e(x, g)]]
           rank == [x \in Nat |-> x]
<1>1. \A x \in Nat : \A g \in G : H[x][g] = e(x, g)
  OBVIOUS
<1>2. ASSUME NEW x \in Nat, NEW g \in G PROVE e(x, g) \in Bytes
  <2>1. CASE x < 128
    BY <2>1 DEF Bytes, Byte
  <2>2. CASE ~(x < 128)
    <3>1. g[x \div 128] \in Bytes
      OBVIOUS
    <3>2. <<128 + (x % 128)>> \in Bytes
      BY DEF Bytes, Byte
    <3> QED
      BY <2>2, <3>1, <3>2 DEF Bytes
  <2> QED
    BY <2>1, <2>2
<1>3. ASSUME NEW x \in Nat, NEW g, NEW h, \A y \in Nat : rank[y] < rank[x] => g[y] = h[y]
      PROVE  e(x, g) = e(x, h)
  BY <1>3
<1>4. rank \in [Nat -> Nat] /\ <<>> \in Bytes
  BY DEF Bytes
<1> HIDE DEF H, rank, e
<1>5. IsSimpleRecursion(Nat, Bytes, rank, H)
  <2>1. \A x \in Nat : \A g \in [Nat -> Bytes] : H[x][g] \in Bytes
    BY <1>1, <1>2
  <2>2. \A x \in Nat : \A g, h \in [Nat -> Bytes] :
            (\A y \in Nat : rank[y] < rank[x] => g[y] = h[y]) => H[x][g] = H[x][h]
    BY <1>1, <1>3
  <2> QED
    BY <1>4, <2>1, <2>2 DEF IsSimpleRecursion
<1>6. PICK f \in G : \A x \in Nat : f[x] = H[x][f]
  BY <1>5, SimpleRecursion
<1>7. f = [x \in Nat |-> e(x, f)]
  BY <1>1, <1>6
<1>8. encodeVarintMsg = [x \in Nat |-> e(x, encodeVarintMsg)]
  BY <1>7, Zenon DEF encodeVarintMsg, e
<1>9. encodeVarintMsg \in G
  <2>1. encodeVarintMsg = [x \in Nat |-> encodeVarintMsg[x]]
    BY <1>8
  <2>2. \A x \in Nat : \A g \in G :
            (\A y \in Nat : rank[y] < rank[x] => g[y] = encodeVarintMsg[y])
                => encodeVarintMsg[x] = H[x][g]
    BY <1>1, <1>3, <1>8
  <2>3. Solves(encodeVarintMsg, Nat, Bytes, rank, H)
    BY <2>1, <2>2 DEF Solves
  <2> QED
    BY <1>5, <2>3, RecursionType
<1>10. \A x \in Nat : encodeVarintMsg[x] = e(x, encodeVarintMsg)
  BY <1>8
<1> QED
  BY <1>9, <1>10 DEF e

\* bits.Len64 solves its recursion.
LEMMA Len64Def ==
    /\ Len64 \in [Nat -> Nat]
    /\ \A x \in Nat : Len64[x] = IF x = 0 THEN 0 ELSE 1 + Len64[x \div 2]
<1> DEFINE e(x, g) == IF x = 0 THEN 0 ELSE 1 + g[x \div 2]
           G == [Nat -> Nat]
           H == [x \in Nat |-> [g \in G |-> e(x, g)]]
           rank == [x \in Nat |-> x]
<1>1. \A x \in Nat : \A g \in G : H[x][g] = e(x, g)
  OBVIOUS
<1>2. \A x \in Nat : \A g \in G : e(x, g) \in Nat
  OBVIOUS
<1>3. ASSUME NEW x \in Nat, NEW g, NEW h, \A y \in Nat : rank[y] < rank[x] => g[y] = h[y]
      PROVE  e(x, g) = e(x, h)
  BY <1>3
<1>4. rank \in [Nat -> Nat] /\ 0 \in Nat
  OBVIOUS
<1> HIDE DEF H, rank, e
<1>5. IsSimpleRecursion(Nat, Nat, rank, H)
  <2>1. \A x \in Nat : \A g \in [Nat -> Nat] : H[x][g] \in Nat
    BY <1>1, <1>2
  <2>2. \A x \in Nat : \A g, h \in [Nat -> Nat] :
            (\A y \in Nat : rank[y] < rank[x] => g[y] = h[y]) => H[x][g] = H[x][h]
    <3> SUFFICES ASSUME NEW x \in Nat, NEW g \in G, NEW h \in G,
                        \A y \in Nat : rank[y] < rank[x] => g[y] = h[y]
                 PROVE  H[x][g] = H[x][h]
      OBVIOUS
    <3>1. e(x, g) = e(x, h)
      BY <1>3
    <3> QED
      BY <1>1, <3>1
  <2> QED
    BY <1>4, <2>1, <2>2 DEF IsSimpleRecursion
<1>6. PICK f \in G : \A x \in Nat : f[x] = H[x][f]
  BY <1>5, SimpleRecursion
<1>7. f = [x \in Nat |-> e(x, f)]
  BY <1>1, <1>6
<1>8. Len64 = [x \in Nat |-> e(x, Len64)]
  BY <1>7, Zenon DEF Len64, e
<1>9. Len64 \in G
  <2>1. Len64 = [x \in Nat |-> Len64[x]]
    BY <1>8
  <2>2. \A x \in Nat : \A g \in G :
            (\A y \in Nat : rank[y] < rank[x] => g[y] = Len64[y]) => Len64[x] = H[x][g]
    BY <1>1, <1>3, <1>8
  <2>3. Solves(Len64, Nat, Nat, rank, H)
    BY <2>1, <2>2 DEF Solves
  <2> QED
    BY <1>5, <2>3, RecursionType
<1>10. \A x \in Nat : Len64[x] = e(x, Len64)
  BY <1>8
<1> QED
  BY <1>9, <1>10 DEF e

\* The reading of a varint solves its recursion.
LEMMA VarintAtDef ==
    /\ VarintAt \in [Bytes -> SUBSET [v : Nat, n : Nat]]
    /\ \A b \in Bytes : VarintAt[b] =
            IF b = <<>> THEN {}
            ELSE IF b[1] < 128 THEN {[v |-> b[1], n |-> 1]}
            ELSE {[v |-> b[1] - 128 + 128 * r.v, n |-> r.n + 1] : r \in VarintAt[Tail(b)]}
<1> DEFINE e(b, g) ==
               IF b = <<>> THEN {}
               ELSE IF b[1] < 128 THEN {[v |-> b[1], n |-> 1]}
               ELSE {[v |-> b[1] - 128 + 128 * r.v, n |-> r.n + 1] : r \in g[Tail(b)]}
           V == SUBSET [v : Nat, n : Nat]
           G == [Bytes -> V]
           H == [x \in Bytes |-> [g \in G |-> e(x, g)]]
           rank == [x \in Bytes |-> Len(x)]
<1>1. \A x \in Bytes : \A g \in G : H[x][g] = e(x, g)
  OBVIOUS
<1>2. ASSUME NEW x \in Bytes, NEW g \in G PROVE e(x, g) \in V
  <2>1. CASE x = <<>>
    BY <2>1
  <2>2. CASE x # <<>>
    <3>1. x[1] \in 0 .. 255 /\ Tail(x) \in Bytes
      BY <2>2, HeadAndTail
    <3>2. g[Tail(x)] \subseteq [v : Nat, n : Nat]
      BY <3>1
    <3>3. CASE x[1] < 128
      <4>1. [v |-> x[1], n |-> 1] \in [v : Nat, n : Nat]
        BY <3>1
      <4> QED
        BY <2>2, <3>3, <4>1
    <3>4. CASE ~(x[1] < 128)
      <4>1. \A r \in g[Tail(x)] : [v |-> x[1] - 128 + 128 * r.v, n |-> r.n + 1] \in [v : Nat, n : Nat]
        BY <3>1, <3>2, <3>4
      <4> QED
        BY <2>2, <3>4, <4>1
    <3> QED
      BY <3>3, <3>4
  <2> QED
    BY <2>1, <2>2
<1>3. ASSUME NEW x \in Bytes, NEW g, NEW h, \A y \in Bytes : rank[y] < rank[x] => g[y] = h[y]
      PROVE  e(x, g) = e(x, h)
  <2>1. x # <<>> => Tail(x) \in Bytes /\ Len(Tail(x)) < Len(x)
    BY DEF Bytes
  <2>2. x # <<>> => g[Tail(x)] = h[Tail(x)]
    BY <1>3, <2>1
  <2> QED
    BY <2>2
<1>4. rank \in [Bytes -> Nat] /\ {} \in V
  BY DEF Bytes
<1> HIDE DEF H, rank, e, V
<1>5. IsSimpleRecursion(Bytes, V, rank, H)
  <2>1. \A x \in Bytes : \A g \in [Bytes -> V] : H[x][g] \in V
    BY <1>1, <1>2
  <2>2. \A x \in Bytes : \A g, h \in [Bytes -> V] :
            (\A y \in Bytes : rank[y] < rank[x] => g[y] = h[y]) => H[x][g] = H[x][h]
    BY <1>1, <1>3
  <2> QED
    BY <1>4, <2>1, <2>2 DEF IsSimpleRecursion
<1>6. PICK f \in G : \A x \in Bytes : f[x] = H[x][f]
  BY <1>5, SimpleRecursion
<1>7. f = [x \in Bytes |-> e(x, f)]
  BY <1>1, <1>6
<1>8. VarintAt = [x \in Bytes |-> e(x, VarintAt)]
  BY <1>7, Zenon DEF VarintAt, e
<1>9. VarintAt \in G
  <2>1. VarintAt = [x \in Bytes |-> VarintAt[x]]
    BY <1>8
  <2>2. \A x \in Bytes : \A g \in G :
            (\A y \in Bytes : rank[y] < rank[x] => g[y] = VarintAt[y]) => VarintAt[x] = H[x][g]
    BY <1>1, <1>3, <1>8
  <2>3. Solves(VarintAt, Bytes, V, rank, H)
    BY <2>1, <2>2 DEF Solves
  <2> QED
    BY <1>5, <2>3, RecursionType
<1>10. \A x \in Bytes : VarintAt[x] = e(x, VarintAt)
  BY <1>8
<1> QED
  BY <1>9, <1>10 DEF e, V

\* x | 1 is as long as x.
LEMMA Len64Odd ==
    ASSUME NEW x \in Nat, x # 0
    PROVE  x + 1 - (x % 2) \in Nat \ {0} /\ Len64[x + 1 - (x % 2)] = Len64[x]
<1> DEFINE y == x + 1 - (x % 2)
<1>1. y \in Nat /\ y # 0 /\ y \div 2 = x \div 2
  OBVIOUS
<1> HIDE DEF y
<1>2. Len64[y] = 1 + Len64[y \div 2] /\ Len64[x] = 1 + Len64[x \div 2]
  BY <1>1, Len64Def
<1> QED
  BY <1>1, <1>2 DEF y

\* A number below 128 takes at most seven bits.
LEMMA Len64Small ==
    ASSUME NEW x \in 1 .. 127
    PROVE  Len64[x] \in 1 .. 7
<1> DEFINE L(y, n) == \A z \in 0 .. y : Len64[z] \in 0 .. n
<1>0. L(0, 0)
  BY Len64Def
<1>1. L(1, 1)
  BY <1>0, Len64Def
<1>2. L(3, 2)
  BY <1>1, Len64Def
<1>3. L(7, 3)
  BY <1>2, Len64Def
<1>4. L(15, 4)
  BY <1>3, Len64Def
<1>5. L(31, 5)
  BY <1>4, Len64Def
<1>6. L(63, 6)
  BY <1>5, Len64Def
<1> QED
  BY <1>6, Len64Def

\* Each byte of a varint carries seven bits.
LEMMA Len64Seven ==
    ASSUME NEW x \in Nat, x >= 128
    PROVE  Len64[x] = 7 + Len64[x \div 128]
<1> DEFINE U(y, z) == y \in Nat /\ y > 0 /\ z = y \div 2
<1>1. ASSUME NEW y, NEW z, U(y, z) PROVE Len64[y] = 1 + Len64[z] /\ Len64[z] \in Nat
  BY <1>1, Len64Def
<1>2. /\ U(x, x \div 2) /\ U(x \div 2, x \div 4) /\ U(x \div 4, x \div 8)
      /\ U(x \div 8, x \div 16) /\ U(x \div 16, x \div 32) /\ U(x \div 32, x \div 64)
      /\ U(x \div 64, x \div 128)
  OBVIOUS
<1> HIDE DEF U
<1>3. /\ Len64[x] = 1 + Len64[x \div 2] /\ Len64[x \div 2] = 1 + Len64[x \div 4]
      /\ Len64[x \div 4] = 1 + Len64[x \div 8] /\ Len64[x \div 8] = 1 + Len64[x \div 16]
      /\ Len64[x \div 16] = 1 + Len64[x \div 32] /\ Len64[x \div 32] = 1 + Len64[x \div 64]
      /\ Len64[x \div 64] = 1 + Len64[x \div 128] /\ Len64[x \div 128] \in Nat
  BY <1>1, <1>2
<1> QED
  BY <1>3

\* sovMsg counts one byte for each seven bits, and one for zero.
LEMMA SovDef ==
    ASSUME NEW v \in Nat
    PROVE  /\ sovMsg(v) \in Nat
           /\ sovMsg(v) = IF v < 128 THEN 1 ELSE 1 + sovMsg(v \div 128)
<1> DEFINE w == v + 1 - (v % 2)
<1>1. w \in Nat \ {0}
  OBVIOUS
<1>2. CASE v < 128
  <2>1. w \in 1 .. 127
    BY <1>2
  <2>2. Len64[w] \in 1 .. 7
    BY <2>1, Len64Small
  <2> HIDE DEF w
  <2>3. (Len64[w] + 6) \div 7 = 1
    BY <2>2
  <2> QED
    BY <1>2, <2>3 DEF sovMsg, w
<1>3. CASE v >= 128
  <2>1. w >= 128 /\ w \div 128 = v \div 128 /\ v \div 128 \in Nat \ {0}
    BY <1>3
  <2>2. Len64[w] = 7 + Len64[v \div 128] /\ Len64[v \div 128] \in Nat
    BY <1>1, <2>1, Len64Seven, Len64Def
  <2>3. Len64[(v \div 128) + 1 - ((v \div 128) % 2)] = Len64[v \div 128]
    BY <2>1, Len64Odd
  <2> DEFINE l == Len64[v \div 128]
  <2>4. sovMsg(v) = (7 + l + 6) \div 7 /\ sovMsg(v \div 128) = (l + 6) \div 7 /\ l \in Nat
    BY <2>2, <2>3 DEF sovMsg
  <2> HIDE DEF l
  <2>5. (7 + l + 6) \div 7 = 1 + (l + 6) \div 7 /\ (l + 6) \div 7 \in Nat
    BY <2>4
  <2> QED
    BY <1>3, <2>4, <2>5
<1> QED
  BY <1>2, <1>3

\* The generated size function never gets smaller for a larger number.
LEMMA SovMonotonic ==
    ASSUME NEW v \in Nat
    PROVE  \A u \in 0 .. v : sovMsg(u) \in 1 .. sovMsg(v)
<1> DEFINE Good == {n \in Nat : \A u \in 0 .. n : sovMsg(u) \in 1 .. sovMsg(n)}
<1>1. ASSUME NEW n \in Nat, \A k \in Nat : k < n => k \in Good PROVE n \in Good
  <2> SUFFICES ASSUME NEW u \in 0 .. n PROVE sovMsg(u) \in 1 .. sovMsg(n)
    OBVIOUS
  <2>1. CASE u < 128
    BY <2>1, SovDef
  <2>2. CASE u >= 128
    <3>1. n \div 128 \in Good /\ u \div 128 \in 0 .. n \div 128 /\ n >= 128
      BY <1>1, <2>2
    <3>2. sovMsg(u \div 128) \in 1 .. sovMsg(n \div 128)
      BY <3>1
    <3> QED
      BY <2>2, <3>1, <3>2, SovDef
  <2> QED
    BY <2>1, <2>2
<1> HIDE DEF Good
<1>2. Nat \subseteq Good
  BY <1>1, StrongInduction
<1> QED
  BY <1>2 DEF Good

\* encodeVarintMsg writes as many bytes as sovMsg says.
LEMMA EncodeLen ==
    ASSUME NEW v \in Nat
    PROVE  /\ encodeVarintMsg[v] \in Bytes
           /\ Len(encodeVarintMsg[v]) = sovMsg(v)
<1> DEFINE Good == {n \in Nat : Len(encodeVarintMsg[n]) = sovMsg(n)}
<1>1. ASSUME NEW n \in Nat, \A k \in Nat : k < n => k \in Good PROVE n \in Good
  <2>1. CASE n < 128
    BY <2>1, EncodeVarintDef, SovDef
  <2>2. CASE n >= 128
    <3>1. n \div 128 \in Nat /\ Len(encodeVarintMsg[n \div 128]) = sovMsg(n \div 128)
      BY <1>1, <2>2
    <3>2. encodeVarintMsg[n \div 128] \in Bytes
      BY <3>1, EncodeVarintDef
    <3>3. <<128 + (n % 128)>> \in Bytes
      BY DEF Bytes, Byte
    <3>4. Len(<<128 + (n % 128)>> \o encodeVarintMsg[n \div 128]) = 1 + sovMsg(n \div 128)
      BY <3>1, <3>2, <3>3 DEF Bytes
    <3> QED
      BY <2>2, <3>4, EncodeVarintDef, SovDef
  <2> QED
    BY <2>1, <2>2
<1> HIDE DEF Good
<1>2. Nat \subseteq Good
  BY <1>1, StrongInduction
<1> QED
  BY <1>2, EncodeVarintDef DEF Good

\* What one byte adds to the value of a varint.
LEMMA ContinuedByte ==
    ASSUME NEW x \in 0 .. 255, ~(x < 128), NEW y \in Nat
    PROVE  x - 128 + 128 * y \in Nat
OBVIOUS

\* A varint that was read lies within the bytes.
LEMMA VarintAtLength ==
    ASSUME NEW b \in Bytes
    PROVE  \A r \in VarintAt[b] : r \in [v : Nat, n : 1 .. Len(b)]
<1> DEFINE Good == {l \in Nat : \A a \in Bytes : Len(a) = l =>
                        \A r \in VarintAt[a] : r \in [v : Nat, n : 1 .. Len(a)]}
<1>1. ASSUME NEW l \in Nat, \A k \in Nat : k < l => k \in Good PROVE l \in Good
  <2> SUFFICES ASSUME NEW a \in Bytes, Len(a) = l, NEW r \in VarintAt[a]
               PROVE  r \in [v : Nat, n : 1 .. Len(a)]
    OBVIOUS
  <2> HIDE DEF Good
  <2>1. a # <<>>
    BY VarintAtDef
  <2>2. /\ Len(a) \in Nat \ {0} /\ a[1] \in 0 .. 255
        /\ Tail(a) \in Bytes /\ Len(Tail(a)) = Len(a) - 1
    BY <2>1, HeadAndTail
  <2>3. CASE a[1] < 128
    BY <2>1, <2>2, <2>3, VarintAtDef
  <2>4. CASE ~(a[1] < 128)
    <3>1. PICK q \in VarintAt[Tail(a)] : r = [v |-> a[1] - 128 + 128 * q.v, n |-> q.n + 1]
      BY <2>1, <2>4, VarintAtDef
    <3>2. Len(Tail(a)) \in Good
      BY <1>1, <2>2
    <3>3. q \in [v : Nat, n : 1 .. Len(Tail(a))]
      BY <2>2, <3>2 DEF Good
    <3>4. q.v \in Nat /\ q.n \in 1 .. Len(a) - 1
      BY <2>2, <3>3
    <3>5. a[1] - 128 + 128 * q.v \in Nat
      BY <2>2, <2>4, <3>4, ContinuedByte
    <3>6. q.n + 1 \in 1 .. Len(a)
      BY <2>2, <3>4
    <3> QED
      BY <3>1, <3>5, <3>6
  <2> QED
    BY <2>3, <2>4
<1> HIDE DEF Good
<1>2. Nat \subseteq Good
  BY <1>1, StrongInduction
<1>3. Len(b) \in Nat
  BY DEF Bytes
<1> QED
  BY <1>2, <1>3 DEF Good

\* What is read depends on the bytes of the varint only.
LEMMA VarintAtLocal ==
    ASSUME NEW b \in Bytes, NEW c \in Bytes, NEW r \in VarintAt[b], Agree(b, c, r.n)
    PROVE  VarintAt[c] = {r}
<1> DEFINE Good == {l \in Nat : \A x, y \in Bytes : Len(x) = l =>
                        \A q \in VarintAt[x] : Agree(x, y, q.n) => VarintAt[y] = {q}}
<1>1. ASSUME NEW l \in Nat, \A k \in Nat : k < l => k \in Good PROVE l \in Good
  <2> SUFFICES ASSUME NEW x \in Bytes, NEW y \in Bytes, Len(x) = l, NEW q \in VarintAt[x],
                      Agree(x, y, q.n)
               PROVE  VarintAt[y] = {q}
    OBVIOUS
  <2>1. q \in [v : Nat, n : 1 .. Len(x)] /\ x # <<>>
    BY VarintAtLength, VarintAtDef
  <2>2. Len(y) \in Nat /\ y # <<>> /\ y[1] = x[1]
    BY <2>1 DEF Agree, Bytes
  <2>3. /\ Tail(x) \in Bytes /\ Len(Tail(x)) = Len(x) - 1 /\ x[1] \in 0 .. 255
        /\ Tail(y) \in Bytes /\ Tail(x) = Drop(x, 1) /\ Tail(y) = Drop(y, 1)
    BY <2>1, <2>2, HeadAndTail, TailIsDrop DEF Bytes
  <2>4. CASE x[1] < 128
    <3>1. VarintAt[x] = {[v |-> x[1], n |-> 1]}
      BY <2>1, <2>4, VarintAtDef
    <3>2. VarintAt[y] = {[v |-> x[1], n |-> 1]}
      BY <2>2, <2>4, VarintAtDef
    <3> QED
      BY <3>1, <3>2
  <2>5. CASE ~(x[1] < 128)
    <3>1. PICK p \in VarintAt[Tail(x)] : q = [v |-> x[1] - 128 + 128 * p.v, n |-> p.n + 1]
      BY <2>1, <2>5, VarintAtDef
    <3>2. p.n \in Nat /\ q.n = 1 + p.n
      BY <2>3, <3>1, VarintAtLength
    <3>3. Agree(Tail(x), Tail(y), p.n)
      BY <2>3, <3>2, AgreeDrop DEF Bytes
    <3>4. Len(Tail(x)) \in Nat /\ Len(Tail(x)) < l
      BY <2>1, <2>3
    <3>5. VarintAt[Tail(y)] = {p}
      BY <1>1, <2>3, <3>1, <3>3, <3>4
    <3>6. VarintAt[y] = {[v |-> x[1] - 128 + 128 * s.v, n |-> s.n + 1] : s \in VarintAt[Tail(y)]}
      BY <2>2, <2>5, VarintAtDef
    <3> QED
      BY <3>1, <3>5, <3>6
  <2> QED
    BY <2>4, <2>5
<1> HIDE DEF Good
<1>2. Nat \subseteq Good
  BY <1>1, StrongInduction
<1>3. Len(b) \in Nat
  BY DEF Bytes
<1> QED
  BY <1>2, <1>3 DEF Good

\* What encodeVarintMsg wrote is read back.
LEMMA VarintAtEncode ==
    ASSUME NEW v \in Nat
    PROVE  VarintAt[encodeVarintMsg[v]] = {[v |-> v, n |-> sovMsg(v)]}
<1> DEFINE Good == {x \in Nat : VarintAt[encodeVarintMsg[x]] = {[v |-> x, n |-> sovMsg(x)]}}
<1>1. ASSUME NEW x \in Nat, \A k \in Nat : k < x => k \in Good PROVE x \in Good
  <2> DEFINE b == encodeVarintMsg[x]
  <2>1. CASE x < 128
    <3>1. b = <<x>> /\ sovMsg(x) = 1 /\ b \in Bytes
      BY <2>1, EncodeVarintDef, SovDef
    <3>2. b # <<>> /\ b[1] = x
      BY <3>1
    <3> HIDE DEF b
    <3>3. VarintAt[b] = {[v |-> x, n |-> 1]}
      BY <2>1, <3>1, <3>2, VarintAtDef
    <3> QED
      BY <3>1, <3>3 DEF b
  <2>2. CASE ~(x < 128)
    <3> DEFINE c == encodeVarintMsg[x \div 128]
    <3>1. x \div 128 \in Nat /\ x \div 128 < x /\ c \in Bytes /\ b \in Bytes
      BY <2>2, EncodeVarintDef
    <3>2. b = <<128 + (x % 128)>> \o c
      BY <2>2, EncodeVarintDef
    <3>3. VarintAt[c] = {[v |-> x \div 128, n |-> sovMsg(x \div 128)]}
      BY <1>1, <3>1
    <3> HIDE DEF b, c
    <3>4. b # <<>> /\ b[1] = 128 + (x % 128) /\ Tail(b) = c
      BY <3>1, <3>2 DEF Bytes
    <3>5. ~(b[1] < 128)
      BY <3>4
    <3>6. VarintAt[b] = {[v |-> b[1] - 128 + 128 * s.v, n |-> s.n + 1] : s \in VarintAt[c]}
      BY <3>1, <3>4, <3>5, VarintAtDef
    <3>7. VarintAt[b] = {[v |-> b[1] - 128 + 128 * (x \div 128), n |-> sovMsg(x \div 128) + 1]}
      BY <3>3, <3>6
    <3>8. b[1] - 128 + 128 * (x \div 128) = x /\ sovMsg(x) = sovMsg(x \div 128) + 1
      BY <2>2, <3>1, <3>4, SovDef
    <3> QED
      BY <3>7, <3>8 DEF b
  <2> QED
    BY <2>1, <2>2
<1> HIDE DEF Good
<1>2. Nat \subseteq Good
  BY <1>1, StrongInduction
<1> QED
  BY <1>2 DEF Good

\* What the proofs use of the widths.
LEMMA Widths ==
    /\ W32 \in Nat /\ W64 \in Nat /\ W32 > 128 /\ W64 > W32
    /\ W32 \div 2 \in Nat /\ W64 \div 2 \in Nat
    /\ W32 = 2 * (W32 \div 2) /\ W64 = 2 * (W64 \div 2)
BY WidthAssumption DEF WidthAssumption

\* The bytes Varint looks at.
Most(b) == IF Len(b) < sovMsg(W64 - 1) THEN Len(b) ELSE sovMsg(W64 - 1)

\* The bytes in which a varint is looked for.
LEMMA MostProperties ==
    ASSUME NEW b \in Bytes
    PROVE  /\ Most(b) \in 0 .. Len(b)
           /\ \A n \in Nat : n <= Len(b) /\ n <= sovMsg(W64 - 1) => n <= Most(b)
           /\ Most(b) <= sovMsg(W64 - 1)
           /\ SubSeq(b, 1, Most(b)) \in Bytes /\ Len(SubSeq(b, 1, Most(b))) = Most(b)
           /\ \A i \in 1 .. Most(b) : SubSeq(b, 1, Most(b))[i] = b[i]
           /\ Varint(b) = {[v |-> r.v % W64, n |-> r.n] : r \in VarintAt[SubSeq(b, 1, Most(b))]}
<1>1. Len(b) \in Nat /\ sovMsg(W64 - 1) \in Nat
  BY Widths, SovDef DEF Bytes
<1>2. /\ Most(b) \in 0 .. Len(b) /\ Most(b) <= sovMsg(W64 - 1)
      /\ \A n \in Nat : n <= Len(b) /\ n <= sovMsg(W64 - 1) => n <= Most(b)
  BY <1>1 DEF Most
<1>3. /\ SubSeq(b, 1, Most(b)) \in Bytes /\ Len(SubSeq(b, 1, Most(b))) = Most(b)
      /\ \A i \in 1 .. Most(b) : SubSeq(b, 1, Most(b))[i] = b[i]
  BY <1>2 DEF Bytes
<1>4. Varint(b) = {[v |-> r.v % W64, n |-> r.n] : r \in VarintAt[SubSeq(b, 1, Most(b))]}
  BY Zenon DEF Varint, Most
<1> QED
  BY <1>2, <1>3, <1>4

\* A varint that is read fits 64 bits and lies in the bytes read.
LEMMA VarintType ==
    ASSUME NEW b \in Bytes, NEW w \in Varint(b)
    PROVE  w \in [v : 0 .. W64 - 1, n : 1 .. Len(b)]
<1>1. PICK r \in VarintAt[SubSeq(b, 1, Most(b))] : w = [v |-> r.v % W64, n |-> r.n]
  BY MostProperties
<1>2. r.v \in Nat /\ r.n \in 1 .. Most(b)
  BY MostProperties, VarintAtLength
<1>3. r.n \in 1 .. Len(b)
  BY <1>2, MostProperties DEF Bytes
<1>4. r.v % W64 \in 0 .. W64 - 1
  BY <1>2, Widths
<1> QED
  BY <1>1, <1>3, <1>4

\* Reading a varint depends on its own bytes only.
LEMMA VarintLocal ==
    ASSUME NEW b \in Bytes, NEW c \in Bytes, NEW w \in Varint(b), Agree(b, c, w.n)
    PROVE  Varint(c) = {w}
<1> DEFINE x == SubSeq(b, 1, Most(b))
           y == SubSeq(c, 1, Most(c))
<1>1. PICK r \in VarintAt[x] : w = [v |-> r.v % W64, n |-> r.n]
  BY MostProperties
<1>2. x \in Bytes /\ y \in Bytes /\ Len(x) = Most(b) /\ Len(y) = Most(c)
  BY MostProperties
<1>3. r.n \in 1 .. Most(b) /\ w.n = r.n
  BY <1>1, <1>2, VarintAtLength
<1>4. r.n \in Nat /\ r.n <= Most(b) /\ r.n <= Len(b) /\ r.n <= Len(c) /\ r.n <= sovMsg(W64 - 1)
  <2>1. Most(b) \in 0 .. Len(b) /\ Most(b) <= sovMsg(W64 - 1) /\ sovMsg(W64 - 1) \in Nat
    BY MostProperties, SovDef, Widths
  <2>2. Len(b) \in Nat /\ Len(c) \in Nat /\ r.n <= Len(c)
    BY <1>3 DEF Agree, Bytes
  <2> QED
    BY <1>3, <2>1, <2>2
<1>5. r.n <= Most(c) /\ Most(c) \in 0 .. Len(c)
  BY <1>4, MostProperties
<1>6. Agree(x, y, r.n)
  <2>1. ASSUME NEW i \in 1 .. r.n PROVE x[i] = y[i]
    <3>1. i \in 1 .. Most(b) /\ i \in 1 .. Most(c) /\ b[i] = c[i]
      BY <1>3, <1>4, <1>5, MostProperties DEF Agree, Bytes
    <3> QED
      BY <3>1, MostProperties
  <2> HIDE DEF x, y
  <2> QED
    BY <1>2, <1>4, <1>5, <2>1 DEF Agree
<1>7. VarintAt[y] = {r}
  BY <1>1, <1>2, <1>6, VarintAtLocal
<1>8. Varint(c) = {[v |-> s.v % W64, n |-> s.n] : s \in VarintAt[y]}
  BY MostProperties
<1> QED
  BY <1>1, <1>7, <1>8

\* A varint is read as it was written, whatever follows.
LEMMA VarintEncode ==
    ASSUME NEW u \in 0 .. W64 - 1, NEW c \in Bytes
    PROVE  /\ encodeVarintMsg[u] \in Bytes /\ Len(encodeVarintMsg[u]) = sovMsg(u)
           /\ sovMsg(u) \in 1 .. sovMsg(W64 - 1)
           /\ Varint(encodeVarintMsg[u] \o c) = {[v |-> u, n |-> sovMsg(u)]}
<1> DEFINE a == encodeVarintMsg[u]
           b == a \o c
           y == SubSeq(b, 1, Most(b))
<1>1. a \in Bytes /\ Len(a) = sovMsg(u) /\ u \in Nat /\ W64 - 1 \in Nat
  BY Widths, EncodeLen
<1>2. sovMsg(u) \in 1 .. sovMsg(W64 - 1) /\ sovMsg(W64 - 1) \in Nat
  BY <1>1, SovMonotonic, SovDef
<1>3. VarintAt[a] = {[v |-> u, n |-> sovMsg(u)]}
  BY <1>1, VarintAtEncode
<1> HIDE DEF a
<1>4. b \in Bytes /\ Len(b) = sovMsg(u) + Len(c) /\ Len(c) \in Nat /\ \A i \in 1 .. sovMsg(u) : b[i] = a[i]
  BY <1>1, <1>2 DEF Bytes
<1> HIDE DEF b
<1>5. y \in Bytes /\ Len(y) = Most(b) /\ \A i \in 1 .. Most(b) : y[i] = b[i]
  BY <1>4, MostProperties
<1>6. sovMsg(u) <= Most(b) /\ Most(b) \in Nat
  BY <1>2, <1>4, MostProperties
<1> HIDE DEF y
<1>7. Agree(a, y, sovMsg(u))
  BY <1>1, <1>2, <1>4, <1>5, <1>6 DEF Agree
<1>8. VarintAt[y] = {[v |-> u, n |-> sovMsg(u)]}
  BY <1>1, <1>3, <1>5, <1>7, VarintAtLocal
<1>9. Varint(b) = {[v |-> s.v % W64, n |-> s.n] : s \in VarintAt[y]}
  BY <1>4, MostProperties DEF y
<1>10. u % W64 = u
  BY <1>1, Widths
<1>11. Varint(b) = {[v |-> u, n |-> sovMsg(u)]}
  BY <1>8, <1>9, <1>10
<1> QED
  BY <1>1, <1>2, <1>11 DEF a, b

\* SkipValue for each wire type.
LEMMA SkipValueCases ==
    ASSUME NEW b, NEW i
    PROVE  /\ SkipValue(b, i, 0) = {i + v.n : v \in Varint(Drop(b, i))}
           /\ SkipValue(b, i, 1) = {i + 8}
           /\ SkipValue(b, i, 2) = {i + l.n + l.v : l \in Length(Drop(b, i))}
           /\ SkipValue(b, i, 3) = {i}
           /\ SkipValue(b, i, 4) = {i}
           /\ SkipValue(b, i, 5) = {i + 4}
           /\ SkipValue(b, i, 6) = {}
           /\ SkipValue(b, i, 7) = {}
<1>1. /\ 0 # 1 /\ 0 # 2 /\ 0 # 3 /\ 0 # 4 /\ 0 # 5 /\ 0 # 6 /\ 0 # 7
      /\ 1 # 2 /\ 1 # 3 /\ 1 # 4 /\ 1 # 5 /\ 1 # 6 /\ 1 # 7
      /\ 2 # 3 /\ 2 # 4 /\ 2 # 5 /\ 2 # 6 /\ 2 # 7
      /\ 3 # 5 /\ 3 # 6 /\ 3 # 7 /\ 4 # 5 /\ 4 # 6 /\ 4 # 7 /\ 5 # 6 /\ 5 # 7
  OBVIOUS
<1>2. SkipValue(b, i, 0) = {i + v.n : v \in Varint(Drop(b, i))}
  BY <1>1, Zenon DEF SkipValue
<1>3. SkipValue(b, i, 1) = {i + 8}
  BY <1>1, Zenon DEF SkipValue
<1>4. SkipValue(b, i, 2) = {i + l.n + l.v : l \in Length(Drop(b, i))}
  BY <1>1, Zenon DEF SkipValue
<1>5. SkipValue(b, i, 3) = {i} /\ SkipValue(b, i, 4) = {i}
  BY <1>1, Zenon DEF SkipValue
<1>6. SkipValue(b, i, 5) = {i + 4}
  BY <1>1, Zenon DEF SkipValue
<1>7. SkipValue(b, i, 6) = {} /\ SkipValue(b, i, 7) = {}
  BY <1>1, Zenon DEF SkipValue
<1> QED
  BY <1>2, <1>3, <1>4, <1>5, <1>6, <1>7

-----------------------------------------------------------------------------
(* Tags, lengths and the skipping of unknown fields. *)

\* Two's complement.
LEMMA SignedProperties ==
    ASSUME NEW h \in Nat \ {0}, NEW u \in Nat
    PROVE  /\ Signed(2 * h, u) \in -h .. h - 1
           /\ Signed(2 * h, u) % (2 * h) = u % (2 * h)
           /\ Signed(2 * h, u) >= 0 => u % (2 * h) < h /\ Signed(2 * h, u) = u % (2 * h)
           /\ u < h => Signed(2 * h, u) = u
<1>1. u % (2 * h) \in 0 .. 2 * h - 1 /\ (2 * h) \div 2 = h
  OBVIOUS
<1>2. PICK k \in 0 .. 2 * h - 1 : k = u % (2 * h)
  BY <1>1
<1>3. Signed(2 * h, u) = IF k >= h THEN k - 2 * h ELSE k
  BY <1>1, <1>2 DEF Signed
<1>4. k < 2 * h /\ k % (2 * h) = k /\ (k - 2 * h) % (2 * h) = k
  <2>1. k % (2 * h) = k
    OBVIOUS
  <2>2. (k - 2 * h) % (2 * h) = k
    OBVIOUS
  <2> QED
    BY <2>1, <2>2
<1>5. u < h => u % (2 * h) = u
  OBVIOUS
<1> QED
  BY <1>1, <1>2, <1>3, <1>4, <1>5

\* Lengths are not negative.
LEMMA LengthProperties ==
    ASSUME NEW b \in Bytes
    PROVE  /\ Length(b) \subseteq Varint(b)
           /\ \A l \in Length(b) : l.v \in 0 .. (W64 \div 2) - 1 /\ l.n \in 1 .. Len(b)
<1>1. \A l \in Length(b) : l \in Varint(b) /\ Signed(W64, l.v) >= 0
  BY DEF Length
<1>2. ASSUME NEW l \in Length(b) PROVE l.v \in 0 .. (W64 \div 2) - 1 /\ l.n \in 1 .. Len(b)
  <2>1. l.v \in 0 .. W64 - 1 /\ l.n \in 1 .. Len(b)
    BY <1>1, VarintType
  <2>2. W64 = 2 * (W64 \div 2) /\ W64 \div 2 \in Nat \ {0} /\ l.v \in Nat
    BY <2>1, Widths
  <2>3. l.v % W64 < W64 \div 2
    BY <1>1, <2>2, SignedProperties
  <2>4. l.v % W64 = l.v
    BY <2>1, Widths
  <2> QED
    BY <2>1, <2>2, <2>3, <2>4
<1> QED
  BY <1>1, <1>2

\* Reading a length depends on its own bytes only.
LEMMA LengthLocal ==
    ASSUME NEW b \in Bytes, NEW c \in Bytes, NEW l \in Length(b), Agree(b, c, l.n)
    PROVE  Length(c) = {l}
<1>1. l \in Varint(b) /\ Signed(W64, l.v) >= 0
  BY DEF Length
<1>2. Varint(c) = {l}
  BY <1>1, VarintLocal
<1> QED
  BY <1>1, <1>2 DEF Length

\* A length is read as it was written.
LEMMA LengthEncode ==
    ASSUME NEW u \in Nat, u < W64 \div 2, NEW c \in Bytes
    PROVE  Length(encodeVarintMsg[u] \o c) = {[v |-> u, n |-> sovMsg(u)]}
<1>1. W64 = 2 * (W64 \div 2) /\ W64 \div 2 \in Nat \ {0} /\ u \in 0 .. W64 - 1
  BY Widths
<1>2. Signed(W64, u) = u
  BY <1>1, SignedProperties
<1>3. Varint(encodeVarintMsg[u] \o c) = {[v |-> u, n |-> sovMsg(u)]}
  BY <1>1, VarintEncode
<1> QED
  BY <1>2, <1>3 DEF Length

\* Where a value ends depends on its own bytes only.
LEMMA SkipValueProperties ==
    ASSUME NEW b \in Bytes, NEW i \in Nat, i <= Len(b), NEW wt \in 0 .. 7,
           NEW e \in SkipValue(b, i, wt)
    PROVE  /\ e \in Nat /\ i <= e
           /\ \A c \in Bytes : Agree(b, c, e) => SkipValue(c, i, wt) = {e}
<1>1. Drop(b, i) \in Bytes /\ Len(Drop(b, i)) = Len(b) - i
  BY DropProperties DEF Bytes
<1>2. CASE wt = 0
  <2>1. PICK v \in Varint(Drop(b, i)) : e = i + v.n
    BY <1>2, SkipValueCases
  <2>2. v.n \in Nat
    BY <1>1, <2>1, VarintType
  <2>3. ASSUME NEW c \in Bytes, Agree(b, c, e) PROVE SkipValue(c, i, wt) = {e}
    <3>1. Drop(c, i) \in Bytes /\ Agree(Drop(b, i), Drop(c, i), v.n)
      BY <2>1, <2>2, <2>3, AgreeDrop, DropProperties DEF Bytes
    <3>2. Varint(Drop(c, i)) = {v}
      BY <1>1, <2>1, <3>1, VarintLocal
    <3> QED
      BY <1>2, <2>1, <3>2, SkipValueCases
  <2> QED
    BY <2>1, <2>2, <2>3
<1>3. CASE wt = 2
  <2>1. PICK l \in Length(Drop(b, i)) : e = i + l.n + l.v
    BY <1>3, SkipValueCases
  <2>2. l.n \in Nat /\ l.v \in Nat
    BY <1>1, <2>1, LengthProperties, Widths
  <2>3. ASSUME NEW c \in Bytes, Agree(b, c, e) PROVE SkipValue(c, i, wt) = {e}
    <3>1. Agree(b, c, i + l.n)
      BY <2>1, <2>2, <2>3 DEF Agree, Bytes
    <3>2. Drop(c, i) \in Bytes /\ Agree(Drop(b, i), Drop(c, i), l.n)
      BY <2>2, <3>1, AgreeDrop, DropProperties DEF Bytes
    <3>3. Length(Drop(c, i)) = {l}
      BY <1>1, <2>1, <3>2, LengthLocal
    <3> QED
      BY <1>3, <2>1, <3>3, SkipValueCases
  <2> QED
    BY <2>1, <2>2, <2>3
<1>4. CASE wt \in {1, 3, 4, 5}
  BY <1>4, SkipValueCases
<1>5. CASE wt \in {6, 7}
  BY <1>5, SkipValueCases
<1> QED
  BY <1>2, <1>3, <1>4, <1>5

\* For bytes shorter than n: g yields numbers; g and h are the same.
SkipTyped(g, n) == \A y \in Bytes \X Nat : Len(y[1]) < n => g[y] \in SUBSET Nat
SkipSame(g, h, n) == \A y \in Bytes \X Nat : Len(y[1]) < n => g[y] = h[y]

\* SkipField yields numbers, and looks only at what is behind the tag.
LEMMA SkipFieldProperties ==
    ASSUME NEW b \in Bytes, NEW d \in Nat, NEW w \in Varint(b), NEW g, SkipTyped(g, Len(b))
    PROVE  /\ SkipField(b, d, w, g) \in SUBSET Nat
           /\ \A h : SkipSame(g, h, Len(b)) => SkipField(b, d, w, g) = SkipField(b, d, w, h)
<1> DEFINE wt == w.v % 8
           k == Depth(d, wt)
<1>1. w.n \in 1 .. Len(b) /\ w.v \in Nat /\ Len(b) \in Nat
  BY VarintType, Widths DEF Bytes
<1>2. wt \in 0 .. 7
  BY <1>1
<1> HIDE DEF wt
<1>3. k \in Int
  BY <1>2 DEF Depth
<1> HIDE DEF k
<1>4. SkipField(b, d, w, g) = IF k < 0 THEN {} ELSE UNION {SkipRest(b, k, e, g) : e \in SkipValue(b, w.n, wt)}
  BY DEF SkipField, k, wt
<1>5. \A e \in SkipValue(b, w.n, wt) : e \in Nat /\ w.n <= e
  BY <1>1, <1>2, SkipValueProperties
<1>6. ASSUME NEW e \in SkipValue(b, w.n, wt), k \in Nat \ {0}
      PROVE  <<Drop(b, e), k>> \in Bytes \X Nat /\ Len(Drop(b, e)) < Len(b)
  <2>1. e \in Nat /\ w.n <= e
    BY <1>5
  <2>2. Drop(b, e) \in Bytes /\ Len(Drop(b, e)) = IF e <= Len(b) THEN Len(b) - e ELSE 0
    BY <2>1, DropProperties DEF Bytes
  <2> QED
    BY <1>1, <1>6, <2>1, <2>2
<1>7. ASSUME NEW e \in SkipValue(b, w.n, wt), k >= 0 PROVE SkipRest(b, k, e, g) \in SUBSET Nat
  <2>1. CASE k = 0
    BY <1>5, <2>1 DEF SkipRest
  <2>2. CASE k # 0
    <3>1. g[<<Drop(b, e), k>>] \in SUBSET Nat
      BY <1>3, <1>6, <1>7, <2>2 DEF SkipTyped
    <3> QED
      BY <1>5, <2>2, <3>1 DEF SkipRest
  <2> QED
    BY <2>1, <2>2
<1>8. ASSUME NEW h, SkipSame(g, h, Len(b))
      PROVE  SkipField(b, d, w, g) = SkipField(b, d, w, h)
  <2>1. SkipField(b, d, w, h) = IF k < 0 THEN {} ELSE UNION {SkipRest(b, k, e, h) : e \in SkipValue(b, w.n, wt)}
    BY DEF SkipField, k, wt
  <2>2. ASSUME NEW e \in SkipValue(b, w.n, wt), k >= 0 PROVE SkipRest(b, k, e, g) = SkipRest(b, k, e, h)
    <3>1. CASE k = 0
      BY <3>1 DEF SkipRest
    <3>2. CASE k # 0
      <4>1. g[<<Drop(b, e), k>>] = h[<<Drop(b, e), k>>]
        BY <1>3, <1>6, <1>8, <2>2, <3>2 DEF SkipSame
      <4> QED
        BY <3>2, <4>1 DEF SkipRest
    <3> QED
      BY <3>1, <3>2
  <2>3. CASE k < 0
    BY <1>4, <2>1, <2>3
  <2>4. CASE k >= 0
    <3>1. {SkipRest(b, k, e, g) : e \in SkipValue(b, w.n, wt)}
            = {SkipRest(b, k, e, h) : e \in SkipValue(b, w.n, wt)}
      BY <2>2, <2>4
    <3> QED
      BY <1>3, <1>4, <2>1, <2>4, <3>1
  <2> QED
    BY <1>3, <2>3, <2>4
<1>9. SkipField(b, d, w, g) \in SUBSET Nat
  BY <1>3, <1>4, <1>7
<1> QED
  BY <1>8, <1>9

\* skipMsg solves its recursion: each round is left with fewer bytes.
LEMMA SkipFromDef ==
    /\ skipFrom \in [Bytes \X Nat -> SUBSET Nat]
    /\ \A b \in Bytes, d \in Nat :
            skipFrom[<<b, d>>] = UNION {SkipField(b, d, w, skipFrom) : w \in Varint(b)}
<1> DEFINE D == Bytes \X Nat
           V == SUBSET Nat
           e(x, g) == UNION {SkipField(x[1], x[2], w, g) : w \in Varint(x[1])}
           G == [D -> V]
           H == [x \in D |-> [g \in G |-> e(x, g)]]
           rank == [x \in D |-> Len(x[1])]
<1>1. \A x \in D : \A g \in G : H[x][g] = e(x, g)
  OBVIOUS
<1>2. ASSUME NEW x \in D, NEW g \in G PROVE e(x, g) \in V
  <2>1. x[1] \in Bytes /\ x[2] \in Nat
    OBVIOUS
  <2>2. \A w \in Varint(x[1]) : SkipField(x[1], x[2], w, g) \in V
    BY <2>1, SkipFieldProperties DEF SkipTyped
  <2> QED
    BY <2>2
<1>3. rank \in [D -> Nat] /\ {} \in V
  BY DEF Bytes
<1>4. ASSUME NEW x \in D, NEW g \in G, NEW h, \A y \in D : rank[y] < rank[x] => g[y] = h[y]
      PROVE  e(x, g) = e(x, h)
  <2>1. x[1] \in Bytes /\ x[2] \in Nat
    OBVIOUS
  <2>2. SkipSame(g, h, Len(x[1]))
    BY <1>4 DEF SkipSame
  <2>3. SkipTyped(g, Len(x[1]))
    BY DEF SkipTyped
  <2>4. \A w \in Varint(x[1]) : SkipField(x[1], x[2], w, g) = SkipField(x[1], x[2], w, h)
    BY <2>1, <2>2, <2>3, SkipFieldProperties
  <2> QED
    BY <2>4
<1> HIDE DEF H, rank, e, D, V
<1>5. IsSimpleRecursion(D, V, rank, H)
  <2>1. \A x \in D : \A g \in [D -> V] : H[x][g] \in V
    BY <1>1, <1>2
  <2>2. \A x \in D : \A g, h \in [D -> V] :
            (\A y \in D : rank[y] < rank[x] => g[y] = h[y]) => H[x][g] = H[x][h]
    BY <1>1, <1>4
  <2> QED
    BY <1>3, <2>1, <2>2 DEF IsSimpleRecursion
<1>6. PICK f \in G : \A x \in D : f[x] = H[x][f]
  BY <1>5, SimpleRecursion
<1>7. f = [x \in D |-> e(x, f)]
  BY <1>1, <1>6
<1>8. skipFrom = [x \in D |-> e(x, skipFrom)]
  <2>1. \E g : g = [x \in Bytes \X Nat |-> UNION {SkipField(x[1], x[2], w, g) : w \in Varint(x[1])}]
    BY <1>7, Zenon DEF D, e
  <2>2. skipFrom = [x \in Bytes \X Nat |->
                        UNION {SkipField(x[1], x[2], w, skipFrom) : w \in Varint(x[1])}]
    BY <2>1, Zenon DEF skipFrom
  <2> QED
    BY <2>2, Zenon DEF D, e
<1>9. skipFrom \in G
  <2>1. skipFrom = [x \in D |-> skipFrom[x]]
    BY <1>8
  <2>2. \A x \in D : \A g \in G :
            (\A y \in D : rank[y] < rank[x] => g[y] = skipFrom[y]) => skipFrom[x] = H[x][g]
    BY <1>1, <1>4, <1>8
  <2>3. Solves(skipFrom, D, V, rank, H)
    BY <2>1, <2>2 DEF Solves
  <2> QED
    BY <1>5, <2>3, RecursionType
<1>10. \A x \in D : skipFrom[x] = e(x, skipFrom)
  BY <1>8
<1>11. ASSUME NEW b \in Bytes, NEW d \in Nat
       PROVE  skipFrom[<<b, d>>] = UNION {SkipField(b, d, w, skipFrom) : w \in Varint(b)}
  <2>1. <<b, d>> \in D
    BY DEF D
  <2> QED
    BY <1>10, <2>1 DEF e
<1> QED
  BY <1>9, <1>11 DEF D, V

\* The end of a field depends on the bytes of the field only.
LEMMA SkipLocal ==
    ASSUME NEW b \in Bytes, NEW d \in Nat, NEW e \in skipFrom[<<b, d>>]
    PROVE  /\ e \in Nat \ {0}
           /\ \A c \in Bytes : Agree(b, c, e) => skipFrom[<<c, d>>] = {e}
<1> DEFINE P(x, k, q) == /\ q \in Nat \ {0}
                         /\ \A y \in Bytes : Agree(x, y, q) => skipFrom[<<y, k>>] = {q}
           Good == {l \in Nat : \A x \in Bytes, k \in Nat : Len(x) = l =>
                        \A q \in skipFrom[<<x, k>>] : P(x, k, q)}
<1>1. ASSUME NEW l \in Nat, \A i \in Nat : i < l => i \in Good PROVE l \in Good
  <2> SUFFICES ASSUME NEW x \in Bytes, NEW k \in Nat, Len(x) = l, NEW q \in skipFrom[<<x, k>>]
               PROVE  P(x, k, q)
    OBVIOUS
  <2> HIDE DEF Good
  <2>1. PICK w \in Varint(x) : q \in SkipField(x, k, w, skipFrom)
    BY SkipFromDef
  <2> DEFINE wt == w.v % 8
             m == Depth(k, wt)
  <2>2. w.n \in 1 .. Len(x) /\ w.v \in Nat /\ Len(x) \in Nat
    BY <2>1, VarintType, Widths DEF Bytes
  <2>3. wt \in 0 .. 7
    BY <2>2
  <2> HIDE DEF wt
  <2>4. m \in Int
    BY <2>3 DEF Depth
  <2> HIDE DEF m
  <2>5. \A y : SkipField(y, k, w, skipFrom) =
              IF m < 0 THEN {} ELSE UNION {SkipRest(y, m, i, skipFrom) : i \in SkipValue(y, w.n, wt)}
    BY DEF SkipField, m, wt
  <2>6. m >= 0
    BY <2>1, <2>4, <2>5
  <2>7. PICK i \in SkipValue(x, w.n, wt) : q \in SkipRest(x, m, i, skipFrom)
    <3>1. SkipField(x, k, w, skipFrom) = UNION {SkipRest(x, m, i, skipFrom) : i \in SkipValue(x, w.n, wt)}
      BY <2>4, <2>5, <2>6
    <3> QED
      BY <2>1, <3>1
  <2>8. /\ i \in Nat /\ w.n <= i /\ i # 0
        /\ \A y \in Bytes : Agree(x, y, i) => SkipValue(y, w.n, wt) = {i}
    BY <2>2, <2>3, <2>7, SkipValueProperties
  <2>9. /\ q \in Nat /\ i <= q
        /\ \A y \in Bytes : Agree(x, y, q) => SkipRest(y, m, i, skipFrom) = {q}
    <3>1. CASE m = 0
      BY <2>7, <2>8, <3>1 DEF SkipRest
    <3>2. CASE m # 0
      <4>1. PICK s \in skipFrom[<<Drop(x, i), m>>] : q = i + s
        BY <2>7, <3>2 DEF SkipRest
      <4>2. Drop(x, i) \in Bytes /\ Len(Drop(x, i)) \in Nat /\ Len(Drop(x, i)) < l /\ m \in Nat
        <5>1. Drop(x, i) \in Bytes /\ Len(Drop(x, i)) = IF i <= Len(x) THEN Len(x) - i ELSE 0
          BY <2>8, DropProperties DEF Bytes
        <5> QED
          BY <2>2, <2>4, <2>6, <2>8, <5>1
      <4>3. P(Drop(x, i), m, s)
        <5>1. Len(Drop(x, i)) \in Good
          BY <1>1, <4>2
        <5> QED
          BY <4>1, <4>2, <5>1 DEF Good
      <4>4. ASSUME NEW y \in Bytes, Agree(x, y, q) PROVE SkipRest(y, m, i, skipFrom) = {q}
        <5>1. Drop(y, i) \in Bytes /\ Agree(Drop(x, i), Drop(y, i), s)
          BY <2>8, <4>1, <4>3, <4>4, AgreeDrop, DropProperties DEF Bytes
        <5>2. skipFrom[<<Drop(y, i), m>>] = {s}
          BY <4>3, <5>1
        <5> QED
          BY <3>2, <4>1, <5>2 DEF SkipRest
      <4> QED
        BY <2>8, <4>1, <4>3, <4>4
    <3> QED
      BY <3>1, <3>2
  <2>10. ASSUME NEW y \in Bytes, Agree(x, y, q) PROVE skipFrom[<<y, k>>] = {q}
    <3>1. Agree(x, y, i) /\ Agree(x, y, w.n)
      BY <2>2, <2>8, <2>9, <2>10 DEF Agree, Bytes
    <3>2. Varint(y) = {w}
      BY <2>1, <3>1, VarintLocal
    <3>3. SkipValue(y, w.n, wt) = {i}
      BY <2>8, <3>1
    <3>4. SkipRest(y, m, i, skipFrom) = {q}
      BY <2>9, <2>10
    <3>5. SkipField(y, k, w, skipFrom) = UNION {SkipRest(y, m, j, skipFrom) : j \in SkipValue(y, w.n, wt)}
      BY <2>4, <2>5, <2>6
    <3>6. SkipField(y, k, w, skipFrom) = {q}
      BY <3>3, <3>4, <3>5
    <3>7. skipFrom[<<y, k>>] = UNION {SkipField(y, k, v, skipFrom) : v \in Varint(y)}
      BY SkipFromDef
    <3> QED
      BY <3>2, <3>6, <3>7
  <2> QED
    BY <2>8, <2>9, <2>10
<1> HIDE DEF Good
<1>2. Nat \subseteq Good
  BY <1>1, StrongInduction
<1>3. Len(b) \in Nat
  BY DEF Bytes
<1> QED
  BY <1>2, <1>3 DEF Good

-----------------------------------------------------------------------------
(* The messages and their fields. *)

\* The values of a field.
Value(kind) ==
    CASE kind = "bool" -> BOOLEAN
      [] kind = "uint32" -> Uint32
      [] kind = "int64" -> Int64
      [] kind = "enum" -> Int32
      [] kind = "string" -> Bytes
      [] kind = "strings" -> Seq(Bytes)
      [] OTHER -> Optional(Msg(kind))

Scalars == {"bool", "uint32", "int64", "enum"}
Parts == {"Contract", "MsgStorageRequest", "MsgStorageResponse", "MsgRetrievalRequest",
          "MsgRetrievalResponse"}
Kinds == Scalars \cup {"string", "strings"} \cup Parts

Names(T) == {NameOf(T, k) : k \in DOMAIN Fields[T]} \cup {"unrecognized"}

\* Msg for each type.
LEMMA MsgCases ==
    /\ Msg("Offer") = Offer
    /\ Msg("Contract") = Contract
    /\ Msg("MsgStorageRequest") = MsgStorageRequest
    /\ Msg("MsgStorageResponse") = MsgStorageResponse
    /\ Msg("MsgRetrievalRequest") = MsgRetrievalRequest
    /\ Msg("MsgRetrievalResponse") = MsgRetrievalResponse
    /\ Msg("Message") = Message
<1>1. Msg("Offer") = Offer
  BY DEF Msg
<1>2. Msg("Contract") = Contract
  BY DEF Msg
<1>3. Msg("MsgStorageRequest") = MsgStorageRequest
  BY DEF Msg
<1>4. Msg("MsgStorageResponse") = MsgStorageResponse
  BY DEF Msg
<1>5. Msg("MsgRetrievalRequest") = MsgRetrievalRequest
  BY DEF Msg
<1>6. Msg("MsgRetrievalResponse") = MsgRetrievalResponse
  BY DEF Msg
<1>7. Msg("Message") = Message
  BY DEF Msg
<1> QED
  BY <1>1, <1>2, <1>3, <1>4, <1>5, <1>6, <1>7

\* Value for each kind.
LEMMA ValueCases ==
    /\ Value("bool") = BOOLEAN
    /\ Value("uint32") = Uint32
    /\ Value("int64") = Int64
    /\ Value("enum") = Int32
    /\ Value("string") = Bytes
    /\ Value("strings") = Seq(Bytes)
    /\ \A T \in Parts : Value(T) = Optional(Msg(T))
<1>1. Value("bool") = BOOLEAN
  BY DEF Value
<1>2. Value("uint32") = Uint32
  BY DEF Value
<1>3. Value("int64") = Int64
  BY DEF Value
<1>4. Value("enum") = Int32
  BY DEF Value
<1>5. Value("string") = Bytes
  BY DEF Value
<1>6. Value("strings") = Seq(Bytes)
  BY DEF Value
<1>7. \A T \in Parts : Value(T) = Optional(Msg(T))
  BY DEF Value, Parts
<1> QED
  BY <1>1, <1>2, <1>3, <1>4, <1>5, <1>6, <1>7

\* ZeroOf for each kind.
LEMMA ZeroCases ==
    /\ ZeroOf("bool") = FALSE
    /\ ZeroOf("uint32") = 0 /\ ZeroOf("int64") = 0 /\ ZeroOf("enum") = 0
    /\ ZeroOf("string") = <<>> /\ ZeroOf("strings") = <<>>
    /\ \A T \in Parts : ZeroOf(T) = <<>>
<1>1. ZeroOf("bool") = FALSE
  BY DEF ZeroOf
<1>2. ZeroOf("uint32") = 0 /\ ZeroOf("int64") = 0 /\ ZeroOf("enum") = 0
  BY DEF ZeroOf
<1>3. ZeroOf("string") = <<>> /\ ZeroOf("strings") = <<>>
  BY DEF ZeroOf
<1>4. \A T \in Parts : ZeroOf(T) = <<>>
  BY DEF ZeroOf, Parts
<1> QED
  BY <1>1, <1>2, <1>3, <1>4

\* The table of the fields, and the types of the messages, agree.
LEMMA FieldTable ==
    ASSUME NEW T \in Types
    PROVE  /\ Len(Fields[T]) \in 1 .. 6 /\ DOMAIN Fields[T] = 1 .. Len(Fields[T])
           /\ \A k \in 1 .. Len(Fields[T]) : KindOf(T, k) \in Kinds /\ NameOf(T, k) # "unrecognized"
           /\ \A j, k \in 1 .. Len(Fields[T]) : NameOf(T, j) = NameOf(T, k) => j = k
<1>1. CASE T = "Offer"
  BY <1>1 DEF Fields, OfferFields, F, KindOf, NameOf, Kinds, Scalars, Parts
<1>2. CASE T = "Contract"
  BY <1>2 DEF Fields, ContractFields, F, KindOf, NameOf, Kinds, Scalars, Parts
<1>3. CASE T = "MsgStorageRequest"
  BY <1>3 DEF Fields, MsgStorageRequestFields, F, KindOf, NameOf, Kinds, Scalars, Parts
<1>4. CASE T = "MsgStorageResponse"
  BY <1>4 DEF Fields, MsgStorageResponseFields, F, KindOf, NameOf, Kinds, Scalars, Parts
<1>5. CASE T = "MsgRetrievalRequest"
  BY <1>5 DEF Fields, MsgRetrievalRequestFields, F, KindOf, NameOf, Kinds, Scalars, Parts
<1>6. CASE T = "MsgRetrievalResponse"
  BY <1>6 DEF Fields, MsgRetrievalResponseFields, F, KindOf, NameOf, Kinds, Scalars, Parts
<1>7. CASE T = "Message"
  BY <1>7 DEF Fields, MessageFields, F, KindOf, NameOf, Kinds, Scalars, Parts
<1> QED
  BY <1>1, <1>2, <1>3, <1>4, <1>5, <1>6, <1>7 DEF Types

\* Field numbers are at most six.
LEMMA Between ==
    ASSUME NEW n \in Nat, n <= 6, NEW k \in 1 .. n
    PROVE  k \in 1 .. 6
OBVIOUS

\* The same for a field of a message.
LEMMA FieldNumber ==
    ASSUME NEW T \in Types, NEW k \in 1 .. Len(Fields[T])
    PROVE  k \in 1 .. 6
<1>1. Len(Fields[T]) \in 1 .. 6
  BY FieldTable, Zenon
<1>2. \A n \in 1 .. 6 : n \in Nat /\ n <= 6
  OBVIOUS
<1>3. Len(Fields[T]) \in Nat /\ Len(Fields[T]) <= 6
  BY <1>1, <1>2, Zenon
<1> QED
  BY <1>3, Between

\* A message is a record over the field table.
LEMMA MsgTable ==
    ASSUME NEW T \in Types, NEW m
    PROVE  m \in Msg(T) <=>
                /\ m = [x \in Names(T) |-> m[x]]
                /\ m.unrecognized \in Bytes
                /\ \A k \in 1 .. Len(Fields[T]) : m[NameOf(T, k)] \in Value(KindOf(T, k))
<1>1. CASE T = "Offer"
  <2>1. Names(T) = {"multiaddr", "capacity", "timestamp", "signature", "unrecognized"}
    BY <1>1 DEF Names, NameOf, Fields, OfferFields, F
  <2>2. /\ Len(Fields[T]) = 4
        /\ NameOf(T, 1) = "multiaddr" /\ KindOf(T, 1) = "string"
        /\ NameOf(T, 2) = "capacity" /\ KindOf(T, 2) = "uint32"
        /\ NameOf(T, 3) = "timestamp" /\ KindOf(T, 3) = "int64"
        /\ NameOf(T, 4) = "signature" /\ KindOf(T, 4) = "string"
    BY <1>1 DEF NameOf, KindOf, Fields, OfferFields, F
  <2>3. (\A k \in 1 .. Len(Fields[T]) : m[NameOf(T, k)] \in Value(KindOf(T, k))) <=>
          /\ m.multiaddr \in Bytes
          /\ m.capacity \in Uint32
          /\ m.timestamp \in Int64
          /\ m.signature \in Bytes
    BY <2>2, ValueCases
  <2>4. Msg(T) = Offer
    BY <1>1, MsgCases
  <2> QED
    BY <2>1, <2>3, <2>4 DEF Offer
<1>2. CASE T = "Contract"
  <2>1. Names(T) = {"owner_id", "size", "cid", "expires", "cardinality", "datatype", "unrecognized"}
    BY <1>2 DEF Names, NameOf, Fields, ContractFields, F
  <2>2. /\ Len(Fields[T]) = 6
        /\ NameOf(T, 1) = "owner_id" /\ KindOf(T, 1) = "string"
        /\ NameOf(T, 2) = "size" /\ KindOf(T, 2) = "uint32"
        /\ NameOf(T, 3) = "cid" /\ KindOf(T, 3) = "string"
        /\ NameOf(T, 4) = "expires" /\ KindOf(T, 4) = "int64"
        /\ NameOf(T, 5) = "cardinality" /\ KindOf(T, 5) = "uint32"
        /\ NameOf(T, 6) = "datatype" /\ KindOf(T, 6) = "uint32"
    BY <1>2 DEF NameOf, KindOf, Fields, ContractFields, F
  <2>3. (\A k \in 1 .. Len(Fields[T]) : m[NameOf(T, k)] \in Value(KindOf(T, k))) <=>
          /\ m.owner_id \in Bytes
          /\ m.size \in Uint32
          /\ m.cid \in Bytes
          /\ m.expires \in Int64
          /\ m.cardinality \in Uint32
          /\ m.datatype \in Uint32
    BY <2>2, ValueCases
  <2>4. Msg(T) = Contract
    BY <1>2, MsgCases
  <2> QED
    BY <2>1, <2>3, <2>4 DEF Contract
<1>3. CASE T = "MsgStorageRequest"
  <2>1. Names(T) = {"multiaddr", "contract", "unrecognized"}
    BY <1>3 DEF Names, NameOf, Fields, MsgStorageRequestFields, F
  <2>2. /\ Len(Fields[T]) = 2
        /\ NameOf(T, 1) = "multiaddr" /\ KindOf(T, 1) = "string"
        /\ NameOf(T, 2) = "contract" /\ KindOf(T, 2) = "Contract"
    BY <1>3 DEF NameOf, KindOf, Fields, MsgStorageRequestFields, F
  <2>3. (\A k \in 1 .. Len(Fields[T]) : m[NameOf(T, k)] \in Value(KindOf(T, k))) <=>
          /\ m.multiaddr \in Bytes
          /\ m.contract \in Optional(Contract)
    BY <2>2, ValueCases, MsgCases DEF Parts
  <2>4. Msg(T) = MsgStorageRequest
    BY <1>3, MsgCases
  <2> QED
    BY <2>1, <2>3, <2>4 DEF MsgStorageRequest
<1>4. CASE T = "MsgStorageResponse"
  <2>1. Names(T) = {"multiaddr", "done", "unrecognized"}
    BY <1>4 DEF Names, NameOf, Fields, MsgStorageResponseFields, F
  <2>2. /\ Len(Fields[T]) = 2
        /\ NameOf(T, 1) = "multiaddr" /\ KindOf(T, 1) = "string"
        /\ NameOf(T, 2) = "done" /\ KindOf(T, 2) = "bool"
    BY <1>4 DEF NameOf, KindOf, Fields, MsgStorageResponseFields, F
  <2>3. (\A k \in 1 .. Len(Fields[T]) : m[NameOf(T, k)] \in Value(KindOf(T, k))) <=>
          /\ m.multiaddr \in Bytes
          /\ m.done \in BOOLEAN
    BY <2>2, ValueCases
  <2>4. Msg(T) = MsgStorageResponse
    BY <1>4, MsgCases
  <2> QED
    BY <2>1, <2>3, <2>4 DEF MsgStorageResponse
<1>5. CASE T = "MsgRetrievalRequest"
  <2>1. Names(T) = {"multiaddr", "owner_id", "timestamp", "signature", "unrecognized"}
    BY <1>5 DEF Names, NameOf, Fields, MsgRetrievalRequestFields, F
  <2>2. /\ Len(Fields[T]) = 4
        /\ NameOf(T, 1) = "multiaddr" /\ KindOf(T, 1) = "string"
        /\ NameOf(T, 2) = "owner_id" /\ KindOf(T, 2) = "string"
        /\ NameOf(T, 3) = "timestamp" /\ KindOf(T, 3) = "int64"
        /\ NameOf(T, 4) = "signature" /\ KindOf(T, 4) = "string"
    BY <1>5 DEF NameOf, KindOf, Fields, MsgRetrievalRequestFields, F
  <2>3. (\A k \in 1 .. Len(Fields[T]) : m[NameOf(T, k)] \in Value(KindOf(T, k))) <=>
          /\ m.multiaddr \in Bytes
          /\ m.owner_id \in Bytes
          /\ m.timestamp \in Int64
          /\ m.signature \in Bytes
    BY <2>2, ValueCases
  <2>4. Msg(T) = MsgRetrievalRequest
    BY <1>5, MsgCases
  <2> QED
    BY <2>1, <2>3, <2>4 DEF MsgRetrievalRequest
<1>6. CASE T = "MsgRetrievalResponse"
  <2>1. Names(T) = {"ipfs_links", "unrecognized"}
    BY <1>6 DEF Names, NameOf, Fields, MsgRetrievalResponseFields, F
  <2>2. /\ Len(Fields[T]) = 1
        /\ NameOf(T, 1) = "ipfs_links" /\ KindOf(T, 1) = "strings"
    BY <1>6 DEF NameOf, KindOf, Fields, MsgRetrievalResponseFields, F
  <2>3. (\A k \in 1 .. Len(Fields[T]) : m[NameOf(T, k)] \in Value(KindOf(T, k))) <=>
          /\ m.ipfs_links \in Seq(Bytes)
    BY <2>2, ValueCases
  <2>4. Msg(T) = MsgRetrievalResponse
    BY <1>6, MsgCases
  <2> QED
    BY <2>1, <2>3, <2>4 DEF MsgRetrievalResponse
<1>7. CASE T = "Message"
  <2>1. Names(T) = {"type", "storage_request", "storage_response", "retrieval_request", "retrieval_response", "unrecognized"}
    BY <1>7 DEF Names, NameOf, Fields, MessageFields, F
  <2>2. /\ Len(Fields[T]) = 5
        /\ NameOf(T, 1) = "type" /\ KindOf(T, 1) = "enum"
        /\ NameOf(T, 2) = "storage_request" /\ KindOf(T, 2) = "MsgStorageRequest"
        /\ NameOf(T, 3) = "storage_response" /\ KindOf(T, 3) = "MsgStorageResponse"
        /\ NameOf(T, 4) = "retrieval_request" /\ KindOf(T, 4) = "MsgRetrievalRequest"
        /\ NameOf(T, 5) = "retrieval_response" /\ KindOf(T, 5) = "MsgRetrievalResponse"
    BY <1>7 DEF NameOf, KindOf, Fields, MessageFields, F
  <2>3. (\A k \in 1 .. Len(Fields[T]) : m[NameOf(T, k)] \in Value(KindOf(T, k))) <=>
          /\ m.type \in Int32
          /\ m.storage_request \in Optional(MsgStorageRequest)
          /\ m.storage_response \in Optional(MsgStorageResponse)
          /\ m.retrieval_request \in Optional(MsgRetrievalRequest)
          /\ m.retrieval_response \in Optional(MsgRetrievalResponse)
    BY <2>2, ValueCases, MsgCases DEF Parts
  <2>4. Msg(T) = Message
    BY <1>7, MsgCases
  <2> QED
    BY <2>1, <2>3, <2>4 DEF Message
<1> QED
  BY <1>1, <1>2, <1>3, <1>4, <1>5, <1>6, <1>7 DEF Types

\* The values in a message have their types.
LEMMA MsgField ==
    ASSUME NEW T \in Types, NEW m \in Msg(T)
    PROVE  /\ m.unrecognized \in Bytes
           /\ \A k \in 1 .. Len(Fields[T]) : m[NameOf(T, k)] \in Value(KindOf(T, k))
BY MsgTable

\* Two messages with the same fields are the same.
LEMMA MsgEqual ==
    ASSUME NEW T \in Types, NEW m \in Msg(T), NEW n \in Msg(T),
           m.unrecognized = n.unrecognized,
           \A k \in 1 .. Len(Fields[T]) : m[NameOf(T, k)] = n[NameOf(T, k)]
    PROVE  m = n
<1>1. m = [x \in Names(T) |-> m[x]] /\ n = [x \in Names(T) |-> n[x]]
  BY MsgTable
<1>2. \A x \in Names(T) : m[x] = n[x]
  BY FieldTable DEF Names
<1> QED
  BY <1>1, <1>2

\* A field of a message is set, and nothing else changes.
LEMMA MsgExcept ==
    ASSUME NEW T \in Types, NEW m \in Msg(T), NEW k \in 1 .. Len(Fields[T]),
           NEW v \in Value(KindOf(T, k))
    PROVE  LET n == [m EXCEPT ![NameOf(T, k)] = v]
           IN  /\ n \in Msg(T)
               /\ n.unrecognized = m.unrecognized
               /\ n[NameOf(T, k)] = v
               /\ \A j \in 1 .. Len(Fields[T]) : j # k => n[NameOf(T, j)] = m[NameOf(T, j)]
<1> DEFINE n == [m EXCEPT ![NameOf(T, k)] = v]
<1>1. m = [x \in Names(T) |-> m[x]] /\ NameOf(T, k) \in Names(T) /\ "unrecognized" \in Names(T)
  BY MsgTable, FieldTable DEF Names
<1>2. n = [x \in Names(T) |-> n[x]]
  BY <1>1
<1>3. n.unrecognized = m.unrecognized
  BY <1>1, FieldTable
<1>4. n[NameOf(T, k)] = v
  BY <1>1
<1>5. \A j \in 1 .. Len(Fields[T]) : j # k => n[NameOf(T, j)] = m[NameOf(T, j)]
  BY <1>1, FieldTable DEF Names
<1> HIDE DEF n
<1>6. n \in Msg(T)
  BY <1>2, <1>3, <1>4, <1>5, MsgField, MsgTable
<1> QED
  BY <1>3, <1>4, <1>5, <1>6 DEF n

\* Setting the unknown bytes leaves the fields alone.
LEMMA MsgUnknown ==
    ASSUME NEW T \in Types, NEW m \in Msg(T), NEW u \in Bytes
    PROVE  LET n == [m EXCEPT !.unrecognized = u]
           IN  /\ n \in Msg(T)
               /\ n.unrecognized = u
               /\ \A j \in 1 .. Len(Fields[T]) : n[NameOf(T, j)] = m[NameOf(T, j)]
<1> DEFINE n == [m EXCEPT !.unrecognized = u]
<1>1. m = [x \in Names(T) |-> m[x]] /\ "unrecognized" \in Names(T)
  BY MsgTable DEF Names
<1>2. n = [x \in Names(T) |-> n[x]]
  BY <1>1
<1>3. n.unrecognized = u
  BY <1>1
<1>4. \A j \in 1 .. Len(Fields[T]) : n[NameOf(T, j)] = m[NameOf(T, j)]
  BY <1>1, FieldTable DEF Names
<1> HIDE DEF n
<1>5. n \in Msg(T)
  BY <1>2, <1>3, <1>4, MsgField, MsgTable
<1> QED
  BY <1>3, <1>4, <1>5 DEF n

\* A field that is not set has a value of its type.
LEMMA ZeroIsValue ==
    ASSUME NEW kind \in Kinds
    PROVE  ZeroOf(kind) \in Value(kind)
<1>1. CASE kind = "bool"
  BY <1>1, ZeroCases, ValueCases
<1>2. CASE kind \in {"uint32", "int64", "enum"}
  <2>1. 0 \in Uint32 /\ 0 \in Int64 /\ 0 \in Int32
    BY Widths DEF Uint32, Int64, Int32
  <2> QED
    BY <1>2, <2>1, ZeroCases, ValueCases
<1>3. CASE kind \in {"string", "strings"}
  <2>1. <<>> \in Bytes /\ <<>> \in Seq(Bytes)
    BY DEF Bytes
  <2> QED
    BY <1>3, <2>1, ZeroCases, ValueCases
<1>4. CASE kind \in Parts
  <2>1. <<>> \in Optional(Msg(kind))
    BY DEF Optional
  <2> QED
    BY <1>4, <2>1, ZeroCases, ValueCases
<1> QED
  BY <1>1, <1>2, <1>3, <1>4 DEF Kinds, Scalars

\* The message with no field set.
LEMMA NewProperties ==
    ASSUME NEW T \in Types
    PROVE  /\ New(T) \in Msg(T)
           /\ New(T).unrecognized = <<>>
           /\ \A k \in 1 .. Len(Fields[T]) : New(T)[NameOf(T, k)] = ZeroOf(KindOf(T, k))
<1> DEFINE At(x) == CHOOSE k \in DOMAIN Fields[T] : NameOf(T, k) = x
<1>1. New(T) = [x \in Names(T) |-> IF x = "unrecognized" THEN <<>> ELSE ZeroOf(KindOf(T, At(x)))]
  BY DEF New, Names
<1>2. ASSUME NEW k \in 1 .. Len(Fields[T]) PROVE At(NameOf(T, k)) = k
  <2>1. \E j \in DOMAIN Fields[T] : NameOf(T, j) = NameOf(T, k)
    BY FieldTable
  <2>2. At(NameOf(T, k)) \in DOMAIN Fields[T] /\ NameOf(T, At(NameOf(T, k))) = NameOf(T, k)
    BY <2>1
  <2> QED
    BY <2>2, FieldTable
<1> HIDE DEF At
<1>3. New(T).unrecognized = <<>>
  BY <1>1 DEF Names
<1>4. ASSUME NEW k \in 1 .. Len(Fields[T]) PROVE New(T)[NameOf(T, k)] = ZeroOf(KindOf(T, k))
  <2>1. NameOf(T, k) \in Names(T) /\ NameOf(T, k) # "unrecognized"
    BY FieldTable DEF Names
  <2> QED
    BY <1>1, <1>2, <2>1
<1>5. New(T) = [x \in Names(T) |-> New(T)[x]]
  BY <1>1
<1>6. <<>> \in Bytes /\ \A k \in 1 .. Len(Fields[T]) : KindOf(T, k) \in Kinds
  BY FieldTable DEF Bytes
<1>7. New(T) \in Msg(T)
  BY <1>3, <1>4, <1>5, <1>6, MsgTable, ZeroIsValue
<1> QED
  BY <1>3, <1>4, <1>7

-----------------------------------------------------------------------------
(* The values of the integer fields. *)

\* ToUint64 and FromUint64 for each kind.
LEMMA Uint64Cases ==
    ASSUME NEW x
    PROVE  /\ ToUint64("bool", x) = IF x THEN 1 ELSE 0
           /\ \A kind \in {"uint32", "int64", "enum"} : ToUint64(kind, x) = x % W64
           /\ FromUint64("bool", x) = (x # 0)
           /\ FromUint64("uint32", x) = x % W32
           /\ FromUint64("enum", x) = Signed(W32, x)
           /\ FromUint64("int64", x) = Signed(W64, x)
<1>1. ToUint64("bool", x) = IF x THEN 1 ELSE 0
  BY DEF ToUint64
<1>2. \A kind \in {"uint32", "int64", "enum"} : ToUint64(kind, x) = x % W64
  BY DEF ToUint64
<1>3. FromUint64("bool", x) = (x # 0)
  BY Zenon DEF FromUint64
<1>4. FromUint64("uint32", x) = x % W32
  BY Zenon DEF FromUint64
<1>5. FromUint64("enum", x) = Signed(W32, x)
  BY Zenon DEF FromUint64
<1>6. FromUint64("int64", x) = Signed(W64, x)
  BY Zenon DEF FromUint64
<1> QED
  BY <1>1, <1>2, <1>3, <1>4, <1>5, <1>6

\* Division with remainder is unique.
LEMMA ModUnique ==
    ASSUME NEW n \in Nat \ {0}, NEW q \in Int, NEW r \in 0 .. n - 1
    PROVE  (q * n + r) % n = r
OBVIOUS

\* A value that is read fits its Go type.
LEMMA FromUint64Type ==
    ASSUME NEW kind \in Scalars, NEW u \in 0 .. W64 - 1
    PROVE  FromUint64(kind, u) \in Value(kind)
<1>1. u \in Nat /\ W32 \div 2 \in Nat \ {0} /\ W64 \div 2 \in Nat \ {0}
  BY Widths
<1>2. u % W32 \in Uint32
  BY <1>1, Widths DEF Uint32
<1>3. Signed(W32, u) \in Int32
  BY <1>1, Widths, SignedProperties DEF Int32
<1>4. Signed(W64, u) \in Int64
  BY <1>1, Widths, SignedProperties DEF Int64
<1>5. CASE kind = "bool"
  BY <1>5, Uint64Cases, ValueCases
<1>6. CASE kind # "bool"
  BY <1>2, <1>3, <1>4, <1>6, Uint64Cases, ValueCases DEF Scalars
<1> QED
  BY <1>5, <1>6

\* A signed number in a wider unsigned word, cut to its own width.
LEMMA SignedRoundTrip ==
    ASSUME NEW h \in Nat \ {0}, NEW q \in Nat \ {0}, NEW x \in -h .. h - 1
    PROVE  /\ x % (q * (2 * h)) \in Nat
           /\ Signed(2 * h, x % (q * (2 * h))) = x
<1> DEFINE n == 2 * h
           w == q * n
           u == x % w
<1>1. n \in Nat \ {0} /\ w \in Nat /\ w >= n
  OBVIOUS
<1>2. CASE x >= 0
  <2>1. x \in 0 .. w - 1 /\ x \in 0 .. n - 1 /\ x \in Nat
    BY <1>1, <1>2
  <2>2. u = x
    <3> HIDE DEF w
    <3> QED
      BY <1>1, <2>1
  <2>3. Signed(n, x) = x
    <3>1. x \in Nat /\ x < h
      BY <1>2
    <3> QED
      BY <3>1, SignedProperties
  <2> QED
    BY <2>1, <2>2, <2>3
<1>3. CASE x < 0
  <2>1. x + w \in 0 .. w - 1 /\ x + n \in 0 .. n - 1 /\ x + n >= h
    <3> HIDE DEF w
    <3> QED
      BY <1>1, <1>3
  <2>2. u = x + w
    <3>1. x = (-1) * w + (x + w)
      <4> HIDE DEF w
      <4> QED
        BY <1>1
    <3>2. w \in Nat \ {0} /\ ((-1) * w + (x + w)) % w = x + w
      <4> HIDE DEF w
      <4> QED
        BY <1>1, <2>1, ModUnique
    <3> QED
      BY <3>1, <3>2
  <2>3. u = (q - 1) * n + (x + n)
    BY <2>2
  <2>4. u % n = x + n /\ u \in Nat
    <3>1. ((q - 1) * n + (x + n)) % n = x + n
      <4> HIDE DEF n
      <4>1. q - 1 \in Int
        OBVIOUS
      <4> QED
        BY <1>1, <2>1, <4>1, ModUnique
    <3> QED
      BY <2>1, <2>2, <2>3, <3>1
  <2> HIDE DEF u, w
  <2>5. Signed(n, u) = x + n - n
    <3>1. n \div 2 = h
      OBVIOUS
    <3>2. Signed(n, u) = IF u % n >= n \div 2 THEN (u % n) - n ELSE u % n
      BY DEF Signed
    <3> HIDE DEF n
    <3> QED
      BY <1>1, <2>1, <2>4, <3>1, <3>2
  <2>6. x + n - n = x
    OBVIOUS
  <2> QED
    BY <2>4, <2>5, <2>6 DEF u, w, n
<1> QED
  BY <1>2, <1>3

\* A value that is written is read back.
LEMMA Uint64RoundTrip ==
    ASSUME NEW kind \in Scalars, NEW x \in Value(kind)
    PROVE  /\ ToUint64(kind, x) \in 0 .. W64 - 1
           /\ FromUint64(kind, ToUint64(kind, x)) = x
<1>1. CASE kind = "bool"
  <2>1. x \in BOOLEAN
    BY <1>1, ValueCases
  <2>2. 1 # 0 /\ 0 \in 0 .. W64 - 1 /\ 1 \in 0 .. W64 - 1
    BY Widths
  <2>3. CASE x = TRUE
    <3>1. ToUint64(kind, x) = 1
      BY <1>1, <2>3, Uint64Cases, Zenon
    <3>2. FromUint64(kind, 1) = TRUE
      BY <1>1, <2>2, Uint64Cases, Zenon
    <3> QED
      BY <2>2, <2>3, <3>1, <3>2, Zenon
  <2>4. CASE x = FALSE
    <3>1. ToUint64(kind, x) = 0
      BY <1>1, <2>4, Uint64Cases, Zenon
    <3>2. FromUint64(kind, 0) = FALSE
      BY <1>1, Uint64Cases, Zenon
    <3> QED
      BY <2>2, <2>4, <3>1, <3>2, Zenon
  <2> QED
    BY <2>1, <2>3, <2>4, Zenon
<1>2. CASE kind = "uint32"
  <2>1. x \in 0 .. W32 - 1
    BY <1>2, ValueCases DEF Uint32
  <2>2. x % W64 = x /\ x % W32 = x /\ x \in 0 .. W64 - 1
    BY <2>1, Widths
  <2> QED
    BY <1>2, <2>2, Uint64Cases
<1>3. CASE kind = "int64"
  <2>1. x \in -(W64 \div 2) .. (W64 \div 2) - 1 /\ W64 \div 2 \in Nat \ {0} /\ 2 * (W64 \div 2) = W64
    BY <1>3, ValueCases, Widths DEF Int64
  <2>2. PICK q \in Nat \ {0} : q = 1
    OBVIOUS
  <2>3. Signed(2 * (W64 \div 2), x % (q * (2 * (W64 \div 2)))) = x
    BY <2>1, SignedRoundTrip
  <2>4. q * W64 = W64
    BY <2>2, Widths
  <2>5. Signed(W64, x % W64) = x
    BY <2>1, <2>3, <2>4
  <2>6. x % W64 \in 0 .. W64 - 1
    BY <2>1, Widths
  <2> QED
    BY <1>3, <2>5, <2>6, Uint64Cases
<1>4. CASE kind = "enum"
  <2>1. x \in -(W32 \div 2) .. (W32 \div 2) - 1 /\ W32 \div 2 \in Nat \ {0} /\ 2 * (W32 \div 2) = W32
    BY <1>4, ValueCases, Widths DEF Int32
  <2>2. PICK q \in Nat \ {0} : W64 = q * W32
    <3>1. W64 % W32 = 0 /\ W32 \in Nat \ {0} /\ W64 \in Nat \ {0}
      BY Widths, WidthAssumption DEF WidthAssumption
    <3>2. W64 \div W32 \in Nat /\ W64 = (W64 \div W32) * W32 + (W64 % W32)
      BY <3>1
    <3>3. PICK q \in Nat : q = W64 \div W32
      BY <3>2
    <3>4. W64 = q * W32 /\ q # 0
      BY <3>1, <3>2, <3>3
    <3> QED
      BY <3>4
  <2>3. Signed(2 * (W32 \div 2), x % (q * (2 * (W32 \div 2)))) = x
    BY <2>1, <2>2, SignedRoundTrip
  <2>4. Signed(W32, x % W64) = x
    BY <2>1, <2>2, <2>3
  <2>5. x % W64 \in 0 .. W64 - 1
    BY <2>1, Widths
  <2> QED
    BY <1>4, <2>4, <2>5, Uint64Cases
<1> QED
  BY <1>1, <1>2, <1>3, <1>4 DEF Scalars

-----------------------------------------------------------------------------
(* Size and Marshal. *)

\* SumOf solves its recursion.
LEMMA SumOfDef ==
    /\ SumOf \in [Seq(Nat) -> Nat]
    /\ \A s \in Seq(Nat) : SumOf[s] = IF s = <<>> THEN 0 ELSE s[1] + SumOf[Tail(s)]
<1> DEFINE D == Seq(Nat)
           e(s, g) == IF s = <<>> THEN 0 ELSE s[1] + g[Tail(s)]
           G == [D -> Nat]
           H == [x \in D |-> [g \in G |-> e(x, g)]]
           rank == [x \in D |-> Len(x)]
<1>1. \A x \in D : \A g \in G : H[x][g] = e(x, g)
  OBVIOUS
<1>2. ASSUME NEW x \in D PROVE x # <<>> => x[1] \in Nat /\ Tail(x) \in D /\ Len(Tail(x)) < Len(x)
  OBVIOUS
<1>3. ASSUME NEW x \in D, NEW g \in G PROVE e(x, g) \in Nat
  <2>1. CASE x = <<>>
    BY <2>1
  <2>2. CASE x # <<>>
    <3>1. x[1] \in Nat /\ g[Tail(x)] \in Nat
      BY <1>2, <2>2
    <3> QED
      BY <2>2, <3>1
  <2> QED
    BY <2>1, <2>2
<1>4. rank \in [D -> Nat] /\ 0 \in Nat
  OBVIOUS
<1>5. ASSUME NEW x \in D, NEW g, NEW h, \A y \in D : rank[y] < rank[x] => g[y] = h[y]
      PROVE  e(x, g) = e(x, h)
  <2>1. x # <<>> => g[Tail(x)] = h[Tail(x)]
    BY <1>2, <1>5
  <2> QED
    BY <2>1
<1> HIDE DEF H, rank, e, D
<1>6. IsSimpleRecursion(D, Nat, rank, H)
  <2>1. \A x \in D : \A g \in [D -> Nat] : H[x][g] \in Nat
    BY <1>1, <1>3
  <2>2. \A x \in D : \A g, h \in [D -> Nat] :
            (\A y \in D : rank[y] < rank[x] => g[y] = h[y]) => H[x][g] = H[x][h]
    <3> SUFFICES ASSUME NEW x \in D, NEW g \in G, NEW h \in G,
                        \A y \in D : rank[y] < rank[x] => g[y] = h[y]
                 PROVE  H[x][g] = H[x][h]
      OBVIOUS
    <3>1. e(x, g) = e(x, h)
      BY <1>5
    <3> QED
      BY <1>1, <3>1
  <2> QED
    BY <1>4, <2>1, <2>2 DEF IsSimpleRecursion
<1>7. PICK f \in G : \A x \in D : f[x] = H[x][f]
  BY <1>6, SimpleRecursion
<1>8. f = [x \in D |-> e(x, f)]
  BY <1>1, <1>7
<1>9. SumOf = [x \in D |-> e(x, SumOf)]
  <2>1. \E g : g = [s \in Seq(Nat) |-> IF s = <<>> THEN 0 ELSE s[1] + g[Tail(s)]]
    BY <1>8, Zenon DEF D, e
  <2>2. SumOf = [s \in Seq(Nat) |-> IF s = <<>> THEN 0 ELSE s[1] + SumOf[Tail(s)]]
    BY <2>1, Zenon DEF SumOf
  <2> QED
    BY <2>2, Zenon DEF D, e
<1>10. SumOf \in G
  <2>1. SumOf = [x \in D |-> SumOf[x]]
    BY <1>9
  <2>2. \A x \in D : \A g \in G :
            (\A y \in D : rank[y] < rank[x] => g[y] = SumOf[y]) => SumOf[x] = H[x][g]
    <3> SUFFICES ASSUME NEW x \in D, NEW g \in G, \A y \in D : rank[y] < rank[x] => g[y] = SumOf[y]
                 PROVE  SumOf[x] = H[x][g]
      OBVIOUS
    <3>1. e(x, g) = e(x, SumOf)
      BY <1>5
    <3> QED
      BY <1>1, <1>9, <3>1
  <2>3. Solves(SumOf, D, Nat, rank, H)
    BY <2>1, <2>2 DEF Solves
  <2> QED
    BY <1>6, <2>3, RecursionType
<1>11. \A x \in D : SumOf[x] = e(x, SumOf)
  BY <1>9
<1> QED
  BY <1>10, <1>11 DEF e, D

\* Concat solves its recursion.
LEMMA ConcatDef ==
    /\ Concat \in [Seq(Bytes) -> Bytes]
    /\ \A s \in Seq(Bytes) : Concat[s] = IF s = <<>> THEN <<>> ELSE s[1] \o Concat[Tail(s)]
<1> DEFINE D == Seq(Bytes)
           e(s, g) == IF s = <<>> THEN <<>> ELSE s[1] \o g[Tail(s)]
           G == [D -> Bytes]
           H == [x \in D |-> [g \in G |-> e(x, g)]]
           rank == [x \in D |-> Len(x)]
<1>1. \A x \in D : \A g \in G : H[x][g] = e(x, g)
  OBVIOUS
<1>2. ASSUME NEW x \in D PROVE x # <<>> => x[1] \in Bytes /\ Tail(x) \in D /\ Len(Tail(x)) < Len(x)
  OBVIOUS
<1>3. ASSUME NEW x \in D, NEW g \in G PROVE e(x, g) \in Bytes
  <2>1. CASE x = <<>>
    BY <2>1 DEF Bytes
  <2>2. CASE x # <<>>
    <3>1. x[1] \in Bytes /\ g[Tail(x)] \in Bytes
      BY <1>2, <2>2
    <3>2. x[1] \o g[Tail(x)] \in Bytes
      BY <3>1 DEF Bytes
    <3> QED
      BY <2>2, <3>2
  <2> QED
    BY <2>1, <2>2
<1>4. rank \in [D -> Nat] /\ <<>> \in Bytes
  BY DEF Bytes
<1>5. ASSUME NEW x \in D, NEW g, NEW h, \A y \in D : rank[y] < rank[x] => g[y] = h[y]
      PROVE  e(x, g) = e(x, h)
  <2>1. x # <<>> => g[Tail(x)] = h[Tail(x)]
    BY <1>2, <1>5
  <2> QED
    BY <2>1
<1> HIDE DEF H, rank, e, D
<1>6. IsSimpleRecursion(D, Bytes, rank, H)
  <2>1. \A x \in D : \A g \in [D -> Bytes] : H[x][g] \in Bytes
    BY <1>1, <1>3
  <2>2. \A x \in D : \A g, h \in [D -> Bytes] :
            (\A y \in D : rank[y] < rank[x] => g[y] = h[y]) => H[x][g] = H[x][h]
    BY <1>1, <1>5
  <2> QED
    BY <1>4, <2>1, <2>2 DEF IsSimpleRecursion
<1>7. PICK f \in G : \A x \in D : f[x] = H[x][f]
  BY <1>6, SimpleRecursion
<1>8. f = [x \in D |-> e(x, f)]
  BY <1>1, <1>7
<1>9. Concat = [x \in D |-> e(x, Concat)]
  <2>1. \E g : g = [s \in Seq(Bytes) |-> IF s = <<>> THEN <<>> ELSE s[1] \o g[Tail(s)]]
    BY <1>8, Zenon DEF D, e
  <2>2. Concat = [s \in Seq(Bytes) |-> IF s = <<>> THEN <<>> ELSE s[1] \o Concat[Tail(s)]]
    BY <2>1, Zenon DEF Concat
  <2> QED
    BY <2>2, Zenon DEF D, e
<1>10. Concat \in G
  <2>1. Concat = [x \in D |-> Concat[x]]
    BY <1>9
  <2>2. \A x \in D : \A g \in G :
            (\A y \in D : rank[y] < rank[x] => g[y] = Concat[y]) => Concat[x] = H[x][g]
    BY <1>1, <1>5, <1>9
  <2>3. Solves(Concat, D, Bytes, rank, H)
    BY <2>1, <2>2 DEF Solves
  <2> QED
    BY <1>6, <2>3, RecursionType
<1>11. \A x \in D : Concat[x] = e(x, Concat)
  BY <1>9
<1> QED
  BY <1>10, <1>11 DEF e, D

\* The lengths of the pieces add up.
LEMMA ConcatLen ==
    ASSUME NEW s \in Seq(Bytes)
    PROVE  /\ [k \in DOMAIN s |-> Len(s[k])] \in Seq(Nat)
           /\ Len(Concat[s]) = SumOf[[k \in DOMAIN s |-> Len(s[k])]]
<1> DEFINE Lens(t) == [k \in DOMAIN t |-> Len(t[k])]
           Good == {n \in Nat : \A t \in Seq(Bytes) : Len(t) = n => Len(Concat[t]) = SumOf[Lens(t)]}
<1>1. ASSUME NEW t \in Seq(Bytes)
      PROVE  /\ Lens(t) \in Seq(Nat) /\ Len(Lens(t)) = Len(t)
             /\ \A k \in 1 .. Len(t) : Lens(t)[k] = Len(t[k])
  <2>1. DOMAIN t = 1 .. Len(t) /\ Len(t) \in Nat
    OBVIOUS
  <2>2. \A k \in 1 .. Len(t) : Len(t[k]) \in Nat
    <3>1. \A k \in 1 .. Len(t) : t[k] \in Bytes
      OBVIOUS
    <3> QED
      BY <3>1 DEF Bytes
  <2> QED
    BY <2>1, <2>2
<1>2. ASSUME NEW n \in Nat, \A k \in Nat : k < n => k \in Good PROVE n \in Good
  <2> SUFFICES ASSUME NEW t \in Seq(Bytes), Len(t) = n PROVE Len(Concat[t]) = SumOf[Lens(t)]
    OBVIOUS
  <2>1. CASE t = <<>>
    <3>1. Concat[t] = <<>>
      BY <2>1, ConcatDef
    <3>2. Lens(t) = <<>>
      BY <2>1
    <3>3. SumOf[<<>>] = 0
      <4>1. <<>> \in Seq(Nat)
        OBVIOUS
      <4> QED
        BY <4>1, SumOfDef
    <3> QED
      BY <3>1, <3>2, <3>3
  <2>2. CASE t # <<>>
    <3>1. t[1] \in Bytes /\ Tail(t) \in Seq(Bytes) /\ Len(Tail(t)) \in Nat /\ Len(Tail(t)) < n
      BY <2>2
    <3>2. Len(Concat[Tail(t)]) = SumOf[Lens(Tail(t))]
      BY <1>2, <3>1
    <3>3. Concat[Tail(t)] \in Bytes /\ Concat[t] = t[1] \o Concat[Tail(t)]
      BY <2>2, <3>1, ConcatDef
    <3>4. Len(Concat[t]) = Len(t[1]) + SumOf[Lens(Tail(t))]
      <4>1. Len(t[1] \o Concat[Tail(t)]) = Len(t[1]) + Len(Concat[Tail(t)])
        BY <3>1, <3>3 DEF Bytes
      <4> QED
        BY <3>2, <3>3, <4>1
    <3> DEFINE l == Lens(t)
               r == Lens(Tail(t))
    <3>5. l \in Seq(Nat) /\ l # <<>> /\ l[1] = Len(t[1]) /\ r \in Seq(Nat) /\ Len(r) = Len(t) - 1
      BY <1>1, <2>2, <3>1
    <3>6. Tail(l) = r
      <4>1. Len(l) = Len(t) /\ \A k \in 1 .. Len(t) : l[k] = Len(t[k])
        BY <1>1
      <4>2. Len(r) = Len(Tail(t)) /\ \A k \in 1 .. Len(Tail(t)) : r[k] = Len(Tail(t)[k])
        BY <1>1, <3>1
      <4>3. \A k \in 1 .. Len(Tail(t)) : Tail(t)[k] = t[k + 1]
        BY <2>2
      <4> HIDE DEF l, r
      <4>4. Tail(l) \in Seq(Nat) /\ Len(Tail(l)) = Len(r) /\ \A k \in 1 .. Len(r) : Tail(l)[k] = l[k + 1]
        BY <3>5, <4>1
      <4>5. \A k \in 1 .. Len(r) : Tail(l)[k] = r[k]
        BY <3>1, <3>5, <4>1, <4>2, <4>3, <4>4
      <4> QED
        BY <3>5, <4>4, <4>5, SeqEqual
    <3> HIDE DEF l, r
    <3>7. SumOf[l] = l[1] + SumOf[r]
      BY <3>5, <3>6, SumOfDef
    <3> QED
      BY <3>4, <3>5, <3>7 DEF l, r
  <2> QED
    BY <2>1, <2>2
<1> HIDE DEF Good
<1>3. Nat \subseteq Good
  BY <1>2, StrongInduction
<1>4. Len(s) \in Nat
  OBVIOUS
<1> QED
  BY <1>1, <1>3, <1>4 DEF Good

\* Messages are nested at most this deep in a message of type T.
Rank(T) == IF T = "Message" THEN 2 ELSE IF T = "MsgStorageRequest" THEN 1 ELSE 0

\* A message contains messages of lower rank only, so that Size and Marshal
\* end.
LEMMA PartRank ==
    ASSUME NEW T \in Types, NEW k \in 1 .. Len(Fields[T]), KindOf(T, k) \in Parts
    PROVE  KindOf(T, k) \in Types /\ Rank(KindOf(T, k)) < Rank(T)
<1>1. CASE T = "Offer"
  BY <1>1 DEF Fields, OfferFields, F, KindOf, Parts
<1>2. CASE T = "Contract"
  BY <1>2 DEF Fields, ContractFields, F, KindOf, Parts
<1>3. CASE T = "MsgStorageRequest"
  BY <1>3 DEF Fields, MsgStorageRequestFields, F, KindOf, Parts, Types, Rank
<1>4. CASE T = "MsgStorageResponse"
  BY <1>4 DEF Fields, MsgStorageResponseFields, F, KindOf, Parts
<1>5. CASE T = "MsgRetrievalRequest"
  BY <1>5 DEF Fields, MsgRetrievalRequestFields, F, KindOf, Parts
<1>6. CASE T = "MsgRetrievalResponse"
  BY <1>6 DEF Fields, MsgRetrievalResponseFields, F, KindOf, Parts
<1>7. CASE T = "Message"
  BY <1>7 DEF Fields, MessageFields, F, KindOf, Parts, Types, Rank
<1> QED
  BY <1>1, <1>2, <1>3, <1>4, <1>5, <1>6, <1>7 DEF Types

\* A field that contains a message, and the message in it.
LEMMA PartValue ==
    ASSUME NEW kind \in Parts, NEW v \in Value(kind), v # ZeroOf(kind)
    PROVE  /\ kind \in Types /\ v[1] \in Msg(kind) /\ v = <<v[1]>>
           /\ <<kind, v[1]>> \in TypedMsg
<1>1. v \in Seq(Msg(kind)) /\ Len(v) <= 1 /\ v # <<>>
  BY ValueCases, ZeroCases DEF Optional
<1>2. v[1] \in Msg(kind) /\ v = <<v[1]>>
  <2>1. Len(v) = 1 /\ v[1] \in Msg(kind)
    BY <1>1
  <2>2. <<v[1]>> \in Seq(Msg(kind)) /\ Len(<<v[1]>>) = 1
    BY <2>1
  <2>3. \A i \in 1 .. 1 : v[i] = <<v[1]>>[i]
    OBVIOUS
  <2> QED
    BY <1>1, <2>1, <2>2, <2>3, SeqEqual
<1>3. kind \in Types
  BY DEF Parts, Types
<1>4. \A T \in Types : Msg(T) \subseteq AnyMsg
  BY MsgCases DEF Types, AnyMsg
<1>5. v[1] \in AnyMsg
  BY <1>2, <1>3, <1>4
<1> QED
  BY <1>2, <1>3, <1>5 DEF TypedMsg

\* Messages with their types.
LEMMA TypedMsgRule ==
    /\ \A T \in Types : \A m \in Msg(T) : <<T, m>> \in TypedMsg
    /\ \A x \in TypedMsg : x = <<x[1], x[2]>> /\ x[1] \in Types /\ x[2] \in Msg(x[1])
<1>1. \A T \in Types : Msg(T) \subseteq AnyMsg
  BY MsgCases DEF Types, AnyMsg
<1> QED
  BY <1>1 DEF TypedMsg

\* FieldBytes and FieldSize, kind by kind.
LEMMA FieldBytesZero ==
    ASSUME NEW num, NEW kind, NEW v, NEW g, v = ZeroOf(kind)
    PROVE  FieldBytes(num, kind, v, g) = <<>>
BY Zenon DEF FieldBytes

\* FieldBytes for integers and booleans.
LEMMA FieldBytesScalar ==
    ASSUME NEW num, NEW kind, NEW v, NEW g, v # ZeroOf(kind), kind \in Scalars
    PROVE  FieldBytes(num, kind, v, g) = <<8 * num>> \o encodeVarintMsg[ToUint64(kind, v)]
<1>1. IsVarint(kind) /\ kind # "string" /\ kind # "strings"
  BY DEF Scalars, IsVarint
<1> QED
  BY <1>1, Zenon DEF FieldBytes

\* FieldBytes for strings.
LEMMA FieldBytesString ==
    ASSUME NEW num, NEW kind, NEW v, NEW g, v # ZeroOf(kind), kind = "string"
    PROVE  FieldBytes(num, kind, v, g) = Delimited(num, v)
<1>1. ~IsVarint(kind) /\ kind # "strings"
  BY DEF IsVarint
<1> QED
  BY <1>1, Zenon DEF FieldBytes

\* FieldBytes for lists of strings.
LEMMA FieldBytesStrings ==
    ASSUME NEW num, NEW kind, NEW v, NEW g, v # ZeroOf(kind), kind = "strings"
    PROVE  FieldBytes(num, kind, v, g) = Concat[[k \in DOMAIN v |-> Delimited(num, v[k])]]
<1>1. ~IsVarint(kind) /\ kind # "string"
  BY DEF IsVarint
<1> QED
  BY <1>1, Zenon DEF FieldBytes

\* FieldBytes for messages in a message.
LEMMA FieldBytesPart ==
    ASSUME NEW num, NEW kind, NEW v, NEW g, v # ZeroOf(kind), kind \in Parts
    PROVE  FieldBytes(num, kind, v, g) = Delimited(num, g[<<kind, v[1]>>])
<1>1. ~IsVarint(kind) /\ kind # "string" /\ kind # "strings"
  BY DEF IsVarint, Parts
<1> QED
  BY <1>1, Zenon DEF FieldBytes

\* A field that is not set takes no bytes.
LEMMA FieldSizeZero ==
    ASSUME NEW kind, NEW v, NEW g, v = ZeroOf(kind)
    PROVE  FieldSize(kind, v, g) = 0
BY Zenon DEF FieldSize

\* FieldSize for booleans.
LEMMA FieldSizeBool ==
    ASSUME NEW kind, NEW v, NEW g, v # ZeroOf(kind), kind = "bool"
    PROVE  FieldSize(kind, v, g) = 2
<1>1. kind \notin {"uint32", "int64", "enum"} /\ kind # "string" /\ kind # "strings"
  OBVIOUS
<1> QED
  BY <1>1, Zenon DEF FieldSize

\* FieldSize for integers.
LEMMA FieldSizeInteger ==
    ASSUME NEW kind, NEW v, NEW g, v # ZeroOf(kind), kind \in Scalars \ {"bool"}
    PROVE  FieldSize(kind, v, g) = 1 + sovMsg(ToUint64(kind, v))
<1>1. kind \in {"uint32", "int64", "enum"}
          /\ kind # "bool" /\ kind # "string" /\ kind # "strings"
  BY DEF Scalars
<1> QED
  BY <1>1, Zenon DEF FieldSize

\* FieldSize for strings.
LEMMA FieldSizeString ==
    ASSUME NEW kind, NEW v, NEW g, v # ZeroOf(kind), kind = "string"
    PROVE  FieldSize(kind, v, g) = 1 + Len(v) + sovMsg(Len(v))
<1>1. kind \notin {"uint32", "int64", "enum"} /\ kind # "bool" /\ kind # "strings"
  OBVIOUS
<1> QED
  BY <1>1, Zenon DEF FieldSize

\* FieldSize for lists of strings.
LEMMA FieldSizeStrings ==
    ASSUME NEW kind, NEW v, NEW g, v # ZeroOf(kind), kind = "strings"
    PROVE  FieldSize(kind, v, g)
            = SumOf[[k \in DOMAIN v |-> 1 + Len(v[k]) + sovMsg(Len(v[k]))]]
<1>1. kind \notin {"uint32", "int64", "enum"} /\ kind # "bool" /\ kind # "string"
  OBVIOUS
<1> QED
  BY <1>1, Zenon DEF FieldSize

\* FieldSize for messages in a message.
LEMMA FieldSizePart ==
    ASSUME NEW kind, NEW v, NEW g, v # ZeroOf(kind), kind \in Parts
    PROVE  FieldSize(kind, v, g) = 1 + g[<<kind, v[1]>>] + sovMsg(g[<<kind, v[1]>>])
<1>1. kind \notin {"uint32", "int64", "enum"}
          /\ kind # "bool" /\ kind # "string" /\ kind # "strings"
  BY DEF Parts
<1> QED
  BY <1>1, Zenon DEF FieldSize

\* A field with a length: its bytes, and where they end.
LEMMA DelimitedProperties ==
    ASSUME NEW num \in 1 .. 6, NEW b \in Bytes
    PROVE  /\ Delimited(num, b) \in Bytes
           /\ Len(Delimited(num, b)) = 1 + Len(b) + sovMsg(Len(b))
<1>1. Len(b) \in Nat
  BY DEF Bytes
<1>2. encodeVarintMsg[Len(b)] \in Bytes /\ Len(encodeVarintMsg[Len(b)]) = sovMsg(Len(b))
  BY <1>1, EncodeLen
<1>3. <<8 * num + 2>> \in Bytes
  BY DEF Bytes, Byte
<1> QED
  BY <1>1, <1>2, <1>3 DEF Delimited, Bytes

\* The pieces of a list of strings.
LEMMA StringsPieces ==
    ASSUME NEW num \in 1 .. 6, NEW v \in Seq(Bytes)
    PROVE  LET s == [k \in DOMAIN v |-> Delimited(num, v[k])]
           IN  /\ s \in Seq(Bytes) /\ Len(s) = Len(v)
               /\ \A k \in 1 .. Len(v) : s[k] = Delimited(num, v[k])
<1>1. Len(v) \in Nat /\ DOMAIN v = 1 .. Len(v) /\ \A k \in 1 .. Len(v) : v[k] \in Bytes
  OBVIOUS
<1>2. \A k \in 1 .. Len(v) : Delimited(num, v[k]) \in Bytes
  BY <1>1, DelimitedProperties
<1> QED
  BY <1>1, <1>2

\* The bytes of a field, if those of the message in it are bytes.
LEMMA FieldBytesType ==
    ASSUME NEW num \in 1 .. 6, NEW kind \in Kinds, NEW v \in Value(kind), NEW g,
           kind \in Parts /\ v # ZeroOf(kind) => g[<<kind, v[1]>>] \in Bytes
    PROVE  FieldBytes(num, kind, v, g) \in Bytes
<1>1. CASE v = ZeroOf(kind)
  <2>1. FieldBytes(num, kind, v, g) = <<>>
    BY <1>1, FieldBytesZero
  <2> QED
    BY <2>1 DEF Bytes
<1>2. CASE v # ZeroOf(kind) /\ kind \in Scalars
  <2>0. FieldBytes(num, kind, v, g) = <<8 * num>> \o encodeVarintMsg[ToUint64(kind, v)]
    BY <1>2, FieldBytesScalar
  <2>1. ToUint64(kind, v) \in Nat
    BY <1>2, Uint64RoundTrip
  <2>2. encodeVarintMsg[ToUint64(kind, v)] \in Bytes
    BY <2>1, EncodeLen
  <2>3. <<8 * num>> \in Bytes
    BY DEF Bytes, Byte
  <2> QED
    BY <2>0, <2>2, <2>3 DEF Bytes
<1>3. CASE v # ZeroOf(kind) /\ kind = "string"
  <2>1. v \in Bytes
    BY <1>3, ValueCases
  <2>2. FieldBytes(num, kind, v, g) = Delimited(num, v)
    BY <1>3, FieldBytesString
  <2> QED
    BY <2>1, <2>2, DelimitedProperties
<1>4. CASE v # ZeroOf(kind) /\ kind = "strings"
  <2>1. v \in Seq(Bytes)
    BY <1>4, ValueCases
  <2>2. [k \in DOMAIN v |-> Delimited(num, v[k])] \in Seq(Bytes)
    BY <2>1, StringsPieces
  <2>3. FieldBytes(num, kind, v, g) = Concat[[k \in DOMAIN v |-> Delimited(num, v[k])]]
    BY <1>4, FieldBytesStrings
  <2> QED
    BY <2>2, <2>3, ConcatDef
<1>5. CASE v # ZeroOf(kind) /\ kind \in Parts
  <2>1. FieldBytes(num, kind, v, g) = Delimited(num, g[<<kind, v[1]>>])
    BY <1>5, FieldBytesPart
  <2> QED
    BY <1>5, <2>1, DelimitedProperties
<1> QED
  BY <1>1, <1>2, <1>3, <1>4, <1>5 DEF Kinds

\* The bytes of each field of m.
Pieces(T, m, g) ==
    [k \in DOMAIN Fields[T] |-> FieldBytes(k, KindOf(T, k), m[NameOf(T, k)], g)]

\* g yields bytes for messages that can be inside one of type T; g and h the same.
MarshalTyped(g, T) == \A y \in TypedMsg : Rank(y[1]) < Rank(T) => g[y] \in Bytes
MarshalSame(g, h, T) == \A y \in TypedMsg : Rank(y[1]) < Rank(T) => g[y] = h[y]

\* The bytes of the fields.
LEMMA PiecesType ==
    ASSUME NEW T \in Types, NEW m \in Msg(T), NEW g, MarshalTyped(g, T)
    PROVE  /\ Pieces(T, m, g) \in Seq(Bytes)
           /\ Len(Pieces(T, m, g)) = Len(Fields[T])
           /\ \A k \in 1 .. Len(Fields[T]) :
                Pieces(T, m, g)[k] = FieldBytes(k, KindOf(T, k), m[NameOf(T, k)], g)
<1>1. Len(Fields[T]) \in 1 .. 6 /\ DOMAIN Fields[T] = 1 .. Len(Fields[T])
  BY FieldTable
<1>2. ASSUME NEW k \in 1 .. Len(Fields[T])
      PROVE  FieldBytes(k, KindOf(T, k), m[NameOf(T, k)], g) \in Bytes
  <2> DEFINE kind == KindOf(T, k)
             v == m[NameOf(T, k)]
  <2>1. kind \in Kinds /\ v \in Value(kind) /\ k \in 1 .. 6
    <3>1. kind \in Kinds /\ v \in Value(kind)
      BY FieldTable, MsgField
    <3> HIDE DEF kind, v
    <3> QED
      BY <3>1, FieldNumber
  <2>2. ASSUME kind \in Parts, v # ZeroOf(kind) PROVE g[<<kind, v[1]>>] \in Bytes
    <3>1. <<kind, v[1]>> \in TypedMsg
      BY <2>1, <2>2, PartValue
    <3>2. Rank(kind) < Rank(T)
      BY <2>2, PartRank
    <3>3. <<kind, v[1]>>[1] = kind
      OBVIOUS
    <3> HIDE DEF kind, v
    <3> QED
      BY <3>1, <3>2, <3>3 DEF MarshalTyped
  <2> HIDE DEF kind, v
  <2>3. FieldBytes(k, kind, v, g) \in Bytes
    BY <2>1, <2>2, FieldBytesType
  <2> QED
    BY <2>3 DEF kind, v
<1> QED
  BY <1>1, <1>2 DEF Pieces

\* The bytes of the fields depend on the messages inside only.
LEMMA PiecesSame ==
    ASSUME NEW T \in Types, NEW m \in Msg(T), NEW g, NEW h, MarshalSame(g, h, T)
    PROVE  Pieces(T, m, g) = Pieces(T, m, h)
<1>1. DOMAIN Fields[T] = 1 .. Len(Fields[T])
  BY FieldTable
<1>2. ASSUME NEW k \in 1 .. Len(Fields[T])
      PROVE  FieldBytes(k, KindOf(T, k), m[NameOf(T, k)], g)
                = FieldBytes(k, KindOf(T, k), m[NameOf(T, k)], h)
  <2> DEFINE kind == KindOf(T, k)
             v == m[NameOf(T, k)]
  <2>1. kind \in Kinds /\ v \in Value(kind)
    BY FieldTable, MsgField
  <2>2. ASSUME kind \in Parts, v # ZeroOf(kind) PROVE g[<<kind, v[1]>>] = h[<<kind, v[1]>>]
    <3>1. <<kind, v[1]>> \in TypedMsg
      BY <2>1, <2>2, PartValue
    <3>2. Rank(kind) < Rank(T)
      BY <2>2, PartRank
    <3>3. <<kind, v[1]>>[1] = kind
      OBVIOUS
    <3> HIDE DEF kind, v
    <3> QED
      BY <3>1, <3>2, <3>3 DEF MarshalSame
  <2> HIDE DEF kind, v
  <2>3. FieldBytes(k, kind, v, g) = FieldBytes(k, kind, v, h)
    <3>1. CASE v = ZeroOf(kind)
      BY <3>1, FieldBytesZero
    <3>2. CASE v # ZeroOf(kind) /\ kind \in Scalars
      BY <3>2, FieldBytesScalar
    <3>3. CASE v # ZeroOf(kind) /\ kind = "string"
      BY <3>3, FieldBytesString
    <3>4. CASE v # ZeroOf(kind) /\ kind = "strings"
      <4>1. \A f : FieldBytes(k, kind, v, f) = Concat[[i \in DOMAIN v |-> Delimited(k, v[i])]]
        BY <3>4, FieldBytesStrings
      <4> QED
        BY <4>1
    <3>5. CASE v # ZeroOf(kind) /\ kind \in Parts
      BY <2>2, <3>5, FieldBytesPart
    <3> QED
      BY <2>1, <3>1, <3>2, <3>3, <3>4, <3>5 DEF Kinds
  <2> QED
    BY <2>3 DEF kind, v
<1> QED
  BY <1>1, <1>2 DEF Pieces

\* Ranks are numbers.
LEMMA RankType ==
    ASSUME NEW T
    PROVE  Rank(T) \in 0 .. 2
BY DEF Rank

\* What Marshal computes.
LEMMA MarshalOfDef ==
    /\ MarshalOf \in [TypedMsg -> Bytes]
    /\ \A T \in Types : \A m \in Msg(T) :
            MarshalOf[<<T, m>>] = Concat[Pieces(T, m, MarshalOf)] \o m.unrecognized
<1> DEFINE D == TypedMsg
           e(x, g) == Concat[Pieces(x[1], x[2], g)] \o x[2].unrecognized
           G == [D -> Bytes]
           H == [x \in D |-> [g \in G |-> e(x, g)]]
           rank == [x \in D |-> Rank(x[1])]
<1>1. \A x \in D : \A g \in G : H[x][g] = e(x, g)
  OBVIOUS
<1>2. ASSUME NEW x \in D PROVE x = <<x[1], x[2]>> /\ x[1] \in Types /\ x[2] \in Msg(x[1])
  BY TypedMsgRule
<1>3. ASSUME NEW x \in D, NEW g \in G PROVE e(x, g) \in Bytes
  <2>1. MarshalTyped(g, x[1])
    BY DEF MarshalTyped
  <2>2. Pieces(x[1], x[2], g) \in Seq(Bytes)
    BY <1>2, <2>1, PiecesType
  <2>3. Concat[Pieces(x[1], x[2], g)] \in Bytes
    BY <2>2, ConcatDef
  <2>4. x[2].unrecognized \in Bytes
    BY <1>2, MsgField
  <2> QED
    BY <2>3, <2>4 DEF Bytes
<1>4. rank \in [D -> Nat] /\ <<>> \in Bytes
  BY RankType DEF Bytes
<1>5. ASSUME NEW x \in D, NEW g, NEW h, \A y \in D : rank[y] < rank[x] => g[y] = h[y]
      PROVE  e(x, g) = e(x, h)
  <2>1. MarshalSame(g, h, x[1])
    BY <1>5 DEF MarshalSame
  <2>2. Pieces(x[1], x[2], g) = Pieces(x[1], x[2], h)
    BY <1>2, <2>1, PiecesSame
  <2> QED
    BY <2>2
<1> HIDE DEF H, rank, e, D
<1>6. IsSimpleRecursion(D, Bytes, rank, H)
  <2>1. \A x \in D : \A g \in [D -> Bytes] : H[x][g] \in Bytes
    BY <1>1, <1>3
  <2>2. \A x \in D : \A g, h \in [D -> Bytes] :
            (\A y \in D : rank[y] < rank[x] => g[y] = h[y]) => H[x][g] = H[x][h]
    <3> SUFFICES ASSUME NEW x \in D, NEW g \in G, NEW h \in G,
                        \A y \in D : rank[y] < rank[x] => g[y] = h[y]
                 PROVE  H[x][g] = H[x][h]
      OBVIOUS
    <3>1. e(x, g) = e(x, h)
      BY <1>5
    <3> QED
      BY <1>1, <3>1
  <2> QED
    BY <1>4, <2>1, <2>2 DEF IsSimpleRecursion
<1>7. PICK f \in G : \A x \in D : f[x] = H[x][f]
  BY <1>6, SimpleRecursion
<1>8. f = [x \in D |-> e(x, f)]
  BY <1>1, <1>7
<1>9. MarshalOf = [x \in D |-> e(x, MarshalOf)]
  <2>1. \E g : g = [x \in TypedMsg |->
            Concat[[k \in DOMAIN Fields[x[1]] |->
                FieldBytes(k, KindOf(x[1], k), x[2][NameOf(x[1], k)], g)]] \o x[2].unrecognized]
    BY <1>8, Zenon DEF D, e, Pieces
  <2>2. MarshalOf = [x \in TypedMsg |->
            Concat[[k \in DOMAIN Fields[x[1]] |->
                FieldBytes(k, KindOf(x[1], k), x[2][NameOf(x[1], k)], MarshalOf)]] \o x[2].unrecognized]
    BY <2>1, Zenon DEF MarshalOf
  <2> QED
    BY <2>2, Zenon DEF D, e, Pieces
<1>10. MarshalOf \in G
  <2>1. MarshalOf = [x \in D |-> MarshalOf[x]]
    BY <1>9
  <2>2. \A x \in D : \A g \in G :
            (\A y \in D : rank[y] < rank[x] => g[y] = MarshalOf[y]) => MarshalOf[x] = H[x][g]
    <3> SUFFICES ASSUME NEW x \in D, NEW g \in G,
                        \A y \in D : rank[y] < rank[x] => g[y] = MarshalOf[y]
                 PROVE  MarshalOf[x] = H[x][g]
      OBVIOUS
    <3>1. e(x, g) = e(x, MarshalOf)
      BY <1>5
    <3> QED
      BY <1>1, <1>9, <3>1
  <2>3. Solves(MarshalOf, D, Bytes, rank, H)
    BY <2>1, <2>2 DEF Solves
  <2> QED
    BY <1>6, <2>3, RecursionType
<1>11. \A x \in D : MarshalOf[x] = e(x, MarshalOf)
  BY <1>9
<1>12. \A T \in Types : \A m \in Msg(T) : <<T, m>> \in D
  BY TypedMsgRule DEF D
<1> QED
  BY <1>10, <1>11, <1>12 DEF e, D

\* Marshal yields bytes.
LEMMA MarshalTypedRule ==
    ASSUME NEW T
    PROVE  MarshalTyped(MarshalOf, T)
BY MarshalOfDef DEF MarshalTyped

\* The sizes of the fields of m.
Sizes(T, m, g) ==
    [k \in DOMAIN Fields[T] |-> FieldSize(KindOf(T, k), m[NameOf(T, k)], g)]

\* FieldSize computes the length of FieldBytes, if size computes that of marshal.
LEMMA FieldSizeExact ==
    ASSUME NEW num \in 1 .. 6, NEW kind \in Kinds, NEW v \in Value(kind), NEW size, NEW marshal,
           kind \in Parts /\ v # ZeroOf(kind) =>
                /\ marshal[<<kind, v[1]>>] \in Bytes
                /\ size[<<kind, v[1]>>] = Len(marshal[<<kind, v[1]>>])
    PROVE  FieldSize(kind, v, size) = Len(FieldBytes(num, kind, v, marshal))
<1>1. CASE v = ZeroOf(kind)
  BY <1>1, FieldBytesZero, FieldSizeZero
<1>2. CASE v # ZeroOf(kind) /\ kind \in Scalars
  <2>1. ToUint64(kind, v) \in Nat
    BY <1>2, Uint64RoundTrip
  <2>2. Len(FieldBytes(num, kind, v, marshal)) = 1 + sovMsg(ToUint64(kind, v))
    <3>1. encodeVarintMsg[ToUint64(kind, v)] \in Bytes
          /\ Len(encodeVarintMsg[ToUint64(kind, v)]) = sovMsg(ToUint64(kind, v))
      BY <2>1, EncodeLen
    <3>2. Len(<<8 * num>> \o encodeVarintMsg[ToUint64(kind, v)]) = 1 + sovMsg(ToUint64(kind, v))
      BY <3>1 DEF Bytes
    <3> QED
      BY <1>2, <3>2, FieldBytesScalar
  <2>3. CASE kind = "bool"
    <3>1. v = TRUE
      BY <1>2, <2>3, ValueCases, ZeroCases
    <3>2. ToUint64(kind, v) = 1
      BY <2>3, <3>1, Uint64Cases
    <3>3. sovMsg(1) = 1
      BY SovDef
    <3> QED
      BY <1>2, <2>2, <2>3, <3>2, <3>3, FieldSizeBool
  <2>4. CASE kind # "bool"
    BY <1>2, <2>2, <2>4, FieldSizeInteger
  <2> QED
    BY <2>3, <2>4
<1>3. CASE v # ZeroOf(kind) /\ kind = "string"
  <2>1. v \in Bytes
    BY <1>3, ValueCases
  <2>2. FieldBytes(num, kind, v, marshal) = Delimited(num, v)
    BY <1>3, FieldBytesString
  <2>3. FieldSize(kind, v, size) = 1 + Len(v) + sovMsg(Len(v))
    BY <1>3, FieldSizeString
  <2> QED
    BY <2>1, <2>2, <2>3, DelimitedProperties
<1>4. CASE v # ZeroOf(kind) /\ kind = "strings"
  <2> DEFINE s == [k \in DOMAIN v |-> Delimited(num, v[k])]
             l == [k \in DOMAIN v |-> 1 + Len(v[k]) + sovMsg(Len(v[k]))]
  <2>1. v \in Seq(Bytes)
    BY <1>4, ValueCases
  <2>2. s \in Seq(Bytes) /\ Len(s) = Len(v) /\ \A k \in 1 .. Len(v) : s[k] = Delimited(num, v[k])
    BY <2>1, StringsPieces
  <2>3. FieldBytes(num, kind, v, marshal) = Concat[s]
    BY <1>4, FieldBytesStrings
  <2>4. FieldSize(kind, v, size) = SumOf[l]
    BY <1>4, FieldSizeStrings
  <2>5. DOMAIN v = 1 .. Len(v) /\ \A k \in 1 .. Len(v) : v[k] \in Bytes
    BY <2>1
  <2>6. DOMAIN s = 1 .. Len(v)
    BY <2>5
  <2> HIDE DEF s
  <2>7. [k \in DOMAIN s |-> Len(s[k])] = l
    BY <2>2, <2>5, <2>6, DelimitedProperties
  <2> HIDE DEF l
  <2> QED
    BY <2>2, <2>3, <2>4, <2>7, ConcatLen
<1>5. CASE v # ZeroOf(kind) /\ kind \in Parts
  <2>1. FieldBytes(num, kind, v, marshal) = Delimited(num, marshal[<<kind, v[1]>>])
    BY <1>5, FieldBytesPart
  <2>2. FieldSize(kind, v, size) = 1 + size[<<kind, v[1]>>] + sovMsg(size[<<kind, v[1]>>])
    BY <1>5, FieldSizePart
  <2> QED
    BY <1>5, <2>1, <2>2, DelimitedProperties
<1> QED
  BY <1>1, <1>2, <1>3, <1>4, <1>5 DEF Kinds

\* size is the length of marshal for the messages that can be inside one of type T.
SizeAgrees(size, T) ==
    \A y \in TypedMsg : Rank(y[1]) < Rank(T) => size[y] = Len(MarshalOf[y])

\* The sizes of the fields add up to the bytes of the fields.
LEMMA SizesExact ==
    ASSUME NEW T \in Types, NEW m \in Msg(T), NEW size, SizeAgrees(size, T)
    PROVE  SumOf[Sizes(T, m, size)] + Len(m.unrecognized) = Len(MarshalOf[<<T, m>>])
<1> DEFINE p == Pieces(T, m, MarshalOf)
<1>1. /\ p \in Seq(Bytes)
      /\ Len(p) = Len(Fields[T])
      /\ \A k \in 1 .. Len(Fields[T]) :
            p[k] = FieldBytes(k, KindOf(T, k), m[NameOf(T, k)], MarshalOf)
  BY MarshalTypedRule, PiecesType
<1>2. Len(Fields[T]) \in 1 .. 6 /\ DOMAIN Fields[T] = 1 .. Len(Fields[T])
  BY FieldTable
<1>3. ASSUME NEW k \in 1 .. Len(Fields[T])
      PROVE  FieldSize(KindOf(T, k), m[NameOf(T, k)], size) = Len(p[k])
  <2> DEFINE kind == KindOf(T, k)
             v == m[NameOf(T, k)]
  <2>1. kind \in Kinds /\ v \in Value(kind)
    BY FieldTable, MsgField
  <2>2. ASSUME kind \in Parts, v # ZeroOf(kind)
        PROVE  /\ MarshalOf[<<kind, v[1]>>] \in Bytes
               /\ size[<<kind, v[1]>>] = Len(MarshalOf[<<kind, v[1]>>])
    <3>1. <<kind, v[1]>> \in TypedMsg
      BY <2>1, <2>2, PartValue
    <3>2. Rank(kind) < Rank(T)
      BY <2>2, PartRank
    <3>3. <<kind, v[1]>>[1] = kind
      OBVIOUS
    <3> HIDE DEF kind, v
    <3> QED
      BY <3>1, <3>2, <3>3, MarshalOfDef DEF SizeAgrees
  <2>3. p[k] = FieldBytes(k, kind, v, MarshalOf)
    BY <1>1
  <2> HIDE DEF kind, v, p
  <2>4. k \in 1 .. 6
    BY FieldNumber
  <2>5. FieldSize(kind, v, size) = Len(FieldBytes(k, kind, v, MarshalOf))
    BY <2>1, <2>2, <2>4, FieldSizeExact
  <2> QED
    BY <2>3, <2>5 DEF kind, v
<1> HIDE DEF p
<1>4. DOMAIN p = DOMAIN Fields[T]
  BY <1>1, <1>2
<1>5. Sizes(T, m, size) = [k \in DOMAIN p |-> Len(p[k])]
  BY <1>2, <1>3, <1>4 DEF Sizes
<1>6. Len(Concat[p]) = SumOf[Sizes(T, m, size)]
  BY <1>1, <1>5, ConcatLen
<1>7. m.unrecognized \in Bytes /\ Concat[p] \in Bytes
  BY <1>1, MsgField, ConcatDef
<1>8. MarshalOf[<<T, m>>] = Concat[p] \o m.unrecognized
  BY MarshalOfDef DEF p
<1>9. Len(Concat[p] \o m.unrecognized) = Len(Concat[p]) + Len(m.unrecognized)
  BY <1>7 DEF Bytes
<1> QED
  BY <1>6, <1>8, <1>9

\* The sizes of the fields depend on the messages inside only.
LEMMA SizesSame ==
    ASSUME NEW T \in Types, NEW m \in Msg(T), NEW g, NEW h, MarshalSame(g, h, T)
    PROVE  Sizes(T, m, g) = Sizes(T, m, h)
<1>1. DOMAIN Fields[T] = 1 .. Len(Fields[T])
  BY FieldTable
<1>2. ASSUME NEW k \in 1 .. Len(Fields[T])
      PROVE  FieldSize(KindOf(T, k), m[NameOf(T, k)], g) = FieldSize(KindOf(T, k), m[NameOf(T, k)], h)
  <2> DEFINE kind == KindOf(T, k)
             v == m[NameOf(T, k)]
  <2>1. kind \in Kinds /\ v \in Value(kind)
    BY FieldTable, MsgField
  <2>2. ASSUME kind \in Parts, v # ZeroOf(kind) PROVE g[<<kind, v[1]>>] = h[<<kind, v[1]>>]
    <3>1. <<kind, v[1]>> \in TypedMsg
      BY <2>1, <2>2, PartValue
    <3>2. Rank(kind) < Rank(T)
      BY <2>2, PartRank
    <3>3. <<kind, v[1]>>[1] = kind
      OBVIOUS
    <3> HIDE DEF kind, v
    <3> QED
      BY <3>1, <3>2, <3>3 DEF MarshalSame
  <2> HIDE DEF kind, v
  <2>3. FieldSize(kind, v, g) = FieldSize(kind, v, h)
    <3>1. CASE v = ZeroOf(kind)
      BY <3>1, FieldSizeZero
    <3>2. CASE v # ZeroOf(kind) /\ kind \in Scalars
      BY <3>2, FieldSizeBool, FieldSizeInteger
    <3>3. CASE v # ZeroOf(kind) /\ kind = "string"
      BY <3>3, FieldSizeString
    <3>4. CASE v # ZeroOf(kind) /\ kind = "strings"
      <4>1. \A f : FieldSize(kind, v, f)
                = SumOf[[k_1 \in DOMAIN v |-> 1 + Len(v[k_1]) + sovMsg(Len(v[k_1]))]]
        BY <3>4, FieldSizeStrings
      <4> QED
        BY <4>1
    <3>5. CASE v # ZeroOf(kind) /\ kind \in Parts
      BY <2>2, <3>5, FieldSizePart
    <3> QED
      BY <2>1, <3>1, <3>2, <3>3, <3>4, <3>5 DEF Kinds
  <2> QED
    BY <2>3 DEF kind, v
<1> QED
  BY <1>1, <1>2 DEF Sizes

\* The sizes are numbers.
LEMMA SizesType ==
    ASSUME NEW T \in Types, NEW m \in Msg(T), NEW g \in [TypedMsg -> Nat]
    PROVE  Sizes(T, m, g) \in Seq(Nat)
<1>1. Len(Fields[T]) \in Nat /\ DOMAIN Fields[T] = 1 .. Len(Fields[T])
  BY FieldTable
<1>2. ASSUME NEW k \in 1 .. Len(Fields[T])
      PROVE  FieldSize(KindOf(T, k), m[NameOf(T, k)], g) \in Nat
  <2> DEFINE kind == KindOf(T, k)
             v == m[NameOf(T, k)]
  <2>1. kind \in Kinds /\ v \in Value(kind)
    BY FieldTable, MsgField
  <2> HIDE DEF kind, v
  <2>2. FieldSize(kind, v, g) \in Nat
    <3>1. CASE v = ZeroOf(kind)
      BY <3>1, FieldSizeZero
    <3>2. CASE v # ZeroOf(kind) /\ kind = "bool"
      BY <3>2, FieldSizeBool
    <3>3. CASE v # ZeroOf(kind) /\ kind \in Scalars \ {"bool"}
      <4>1. ToUint64(kind, v) \in Nat
        BY <2>1, <3>3, Uint64RoundTrip
      <4>2. sovMsg(ToUint64(kind, v)) \in Nat
        BY <4>1, SovDef
      <4> QED
        BY <3>3, <4>2, FieldSizeInteger
    <3>4. CASE v # ZeroOf(kind) /\ kind = "string"
      <4>1. Len(v) \in Nat
        BY <2>1, <3>4, ValueCases DEF Bytes
      <4>2. sovMsg(Len(v)) \in Nat
        BY <4>1, SovDef
      <4>3. FieldSize(kind, v, g) = 1 + Len(v) + sovMsg(Len(v))
        BY <3>4, FieldSizeString
      <4> QED
        BY <4>1, <4>2, <4>3
    <3>5. CASE v # ZeroOf(kind) /\ kind = "strings"
      <4> DEFINE l == [i \in DOMAIN v |-> 1 + Len(v[i]) + sovMsg(Len(v[i]))]
      <4>1. v \in Seq(Bytes)
        BY <2>1, <3>5, ValueCases
      <4>2. ASSUME NEW i \in 1 .. Len(v) PROVE 1 + Len(v[i]) + sovMsg(Len(v[i])) \in Nat
        <5>1. v[i] \in Bytes
          BY <4>1
        <5>2. Len(v[i]) \in Nat
          BY <5>1 DEF Bytes
        <5>3. sovMsg(Len(v[i])) \in Nat
          BY <5>2, SovDef
        <5> QED
          BY <5>2, <5>3
      <4>3. DOMAIN v = 1 .. Len(v) /\ Len(v) \in Nat
        BY <4>1
      <4>4. l \in Seq(Nat)
        BY <4>2, <4>3
      <4>5. FieldSize(kind, v, g) = SumOf[l]
        BY <3>5, FieldSizeStrings
      <4> HIDE DEF l
      <4> QED
        BY <4>4, <4>5, SumOfDef
    <3>6. CASE v # ZeroOf(kind) /\ kind \in Parts
      <4>1. <<kind, v[1]>> \in TypedMsg
        BY <2>1, <3>6, PartValue
      <4>2. g[<<kind, v[1]>>] \in Nat
        BY <4>1
      <4>3. sovMsg(g[<<kind, v[1]>>]) \in Nat
        BY <4>2, SovDef
      <4>4. FieldSize(kind, v, g) = 1 + g[<<kind, v[1]>>] + sovMsg(g[<<kind, v[1]>>])
        BY <3>6, FieldSizePart
      <4> QED
        BY <4>2, <4>3, <4>4
    <3> QED
      BY <2>1, <3>1, <3>2, <3>3, <3>4, <3>5, <3>6 DEF Kinds, Scalars
  <2> QED
    BY <2>2 DEF kind, v
<1> QED
  BY <1>1, <1>2 DEF Sizes

\* What Size computes.
LEMMA SizeOfDef ==
    \A T \in Types : \A m \in Msg(T) :
        SizeOf[<<T, m>>] = SumOf[Sizes(T, m, SizeOf)] + Len(m.unrecognized)
<1> DEFINE D == TypedMsg
           e(x, g) == SumOf[Sizes(x[1], x[2], g)] + Len(x[2].unrecognized)
           G == [D -> Nat]
           H == [x \in D |-> [g \in G |-> e(x, g)]]
           rank == [x \in D |-> Rank(x[1])]
<1>1. \A x \in D : \A g \in G : H[x][g] = e(x, g)
  OBVIOUS
<1>2. ASSUME NEW x \in D PROVE x = <<x[1], x[2]>> /\ x[1] \in Types /\ x[2] \in Msg(x[1])
  BY TypedMsgRule
<1>3. ASSUME NEW x \in D, NEW g \in G PROVE e(x, g) \in Nat
  <2>1. Sizes(x[1], x[2], g) \in Seq(Nat)
    BY <1>2, SizesType
  <2>2. SumOf[Sizes(x[1], x[2], g)] \in Nat
    BY <2>1, SumOfDef
  <2>3. x[2].unrecognized \in Bytes
    BY <1>2, MsgField
  <2>4. Len(x[2].unrecognized) \in Nat
    BY <2>3 DEF Bytes
  <2> QED
    BY <2>2, <2>4
<1>4. rank \in [D -> Nat] /\ 0 \in Nat
  BY RankType
<1>5. ASSUME NEW x \in D, NEW g, NEW h, \A y \in D : rank[y] < rank[x] => g[y] = h[y]
      PROVE  e(x, g) = e(x, h)
  <2>1. MarshalSame(g, h, x[1])
    BY <1>5 DEF MarshalSame
  <2>2. Sizes(x[1], x[2], g) = Sizes(x[1], x[2], h)
    BY <1>2, <2>1, SizesSame
  <2> QED
    BY <2>2
<1> HIDE DEF H, rank, e, D
<1>6. IsSimpleRecursion(D, Nat, rank, H)
  <2>1. \A x \in D : \A g \in [D -> Nat] : H[x][g] \in Nat
    BY <1>1, <1>3
  <2>2. \A x \in D : \A g, h \in [D -> Nat] :
            (\A y \in D : rank[y] < rank[x] => g[y] = h[y]) => H[x][g] = H[x][h]
    <3> SUFFICES ASSUME NEW x \in D, NEW g \in G, NEW h \in G,
                        \A y \in D : rank[y] < rank[x] => g[y] = h[y]
                 PROVE  H[x][g] = H[x][h]
      OBVIOUS
    <3>1. e(x, g) = e(x, h)
      BY <1>5
    <3> QED
      BY <1>1, <3>1
  <2> QED
    BY <1>4, <2>1, <2>2 DEF IsSimpleRecursion
<1>7. PICK f \in G : \A x \in D : f[x] = H[x][f]
  BY <1>6, SimpleRecursion
<1>8. f = [x \in D |-> e(x, f)]
  BY <1>1, <1>7
<1>9. SizeOf = [x \in D |-> e(x, SizeOf)]
  <2>1. \E g : g = [x \in TypedMsg |->
            SumOf[[k \in DOMAIN Fields[x[1]] |->
                FieldSize(KindOf(x[1], k), x[2][NameOf(x[1], k)], g)]] + Len(x[2].unrecognized)]
    BY <1>8, Zenon DEF D, e, Sizes
  <2>2. SizeOf = [x \in TypedMsg |->
            SumOf[[k \in DOMAIN Fields[x[1]] |->
                FieldSize(KindOf(x[1], k), x[2][NameOf(x[1], k)], SizeOf)]] + Len(x[2].unrecognized)]
    BY <2>1, Zenon DEF SizeOf
  <2> QED
    BY <2>2, Zenon DEF D, e, Sizes
<1>10. \A x \in D : SizeOf[x] = e(x, SizeOf)
  BY <1>9
<1>11. \A T \in Types : \A m \in Msg(T) : <<T, m>> \in D
  BY TypedMsgRule DEF D
<1> QED
  BY <1>10, <1>11 DEF e

\* Size is the length of what Marshal writes: the buffer Marshal allocates, of
\* Size bytes, is filled by MarshalToSizedBuffer to its first byte.
THEOREM SizeIsExact ==
    ASSUME NEW T \in Types, NEW m \in Msg(T)
    PROVE  Size(T, m) = Len(Marshal(T, m))
<1> DEFINE Good == {n \in Nat : \A t \in Types : \A x \in Msg(t) :
                        Rank(t) = n => SizeOf[<<t, x>>] = Len(MarshalOf[<<t, x>>])}
<1>1. ASSUME NEW n \in Nat, \A k \in Nat : k < n => k \in Good PROVE n \in Good
  <2> SUFFICES ASSUME NEW t \in Types, NEW x \in Msg(t), Rank(t) = n
               PROVE  SizeOf[<<t, x>>] = Len(MarshalOf[<<t, x>>])
    OBVIOUS
  <2>1. SizeAgrees(SizeOf, t)
    <3> SUFFICES ASSUME NEW y \in TypedMsg, Rank(y[1]) < Rank(t)
                 PROVE  SizeOf[y] = Len(MarshalOf[y])
      BY DEF SizeAgrees
    <3>1. y = <<y[1], y[2]>> /\ y[1] \in Types /\ y[2] \in Msg(y[1])
      BY TypedMsgRule
    <3>2. Rank(y[1]) \in Nat /\ Rank(y[1]) < n
      BY RankType
    <3>3. SizeOf[<<y[1], y[2]>>] = Len(MarshalOf[<<y[1], y[2]>>])
      BY <1>1, <3>1, <3>2
    <3> QED
      BY <3>1, <3>3
  <2> QED
    BY <2>1, SizesExact, SizeOfDef
<1> HIDE DEF Good
<1>2. Nat \subseteq Good
  BY <1>1, StrongInduction
<1>3. Rank(T) \in Nat
  BY RankType
<1> QED
  BY <1>2, <1>3 DEF Good, Size, Marshal

-----------------------------------------------------------------------------
(* Unmarshal. *)

\* g yields messages of the type asked for, at most one, and g and h the same
\* ones, when they have less than n bytes to decode.
UnTyped(g, n) == \A y \in Decoding : Len(y[3]) < n => g[y] \in SUBSET Msg(y[1])
UnSame(g, h, n) == \A y \in Decoding : Len(y[3]) < n => g[y] = h[y]
UnSingle(g, n) == \A y \in Decoding : Len(y[3]) < n => \A p, q \in g[y] : p = q

\* The arguments of the decoder.
LEMMA DecodingRule ==
    /\ \A T \in Types : \A m \in Msg(T) : \A b \in Bytes : <<T, m, b>> \in Decoding
    /\ \A x \in Decoding : /\ x = <<x[1], x[2], x[3]>>
                           /\ x[1] \in Types /\ x[2] \in Msg(x[1]) /\ x[3] \in Bytes
<1>1. \A T \in Types : Msg(T) \subseteq AnyMsg
  BY MsgCases DEF Types, AnyMsg
<1> QED
  BY <1>1 DEF Decoding

\* Received for strings.
LEMMA ReceivedString ==
    ASSUME NEW kind, NEW old, NEW body, NEW g, kind = "string"
    PROVE  Received(kind, old, body, g) = {body}
<1>1. kind # "strings"
  OBVIOUS
<1> QED
  BY <1>1, Zenon DEF Received

\* Received for lists of strings.
LEMMA ReceivedStrings ==
    ASSUME NEW kind, NEW old, NEW body, NEW g, kind = "strings"
    PROVE  Received(kind, old, body, g) = {Append(old, body)}
<1>1. kind # "string"
  OBVIOUS
<1> QED
  BY <1>1, Zenon DEF Received

\* Received for messages in a message.
LEMMA ReceivedPart ==
    ASSUME NEW kind \in Parts, NEW old, NEW body, NEW g
    PROVE  Received(kind, old, body, g) = {<<x>> : x \in g[<<kind, Target(kind, old), body>>]}
<1>1. kind # "string" /\ kind # "strings"
  BY DEF Parts
<1> QED
  BY <1>1, Zenon DEF Received

\* The message a field is decoded into.
LEMMA TargetType ==
    ASSUME NEW kind \in Parts, NEW old \in Value(kind)
    PROVE  kind \in Types /\ Target(kind, old) \in Msg(kind)
<1>1. kind \in Types
  BY DEF Parts, Types
<1>2. CASE old = <<>>
  BY <1>1, <1>2, NewProperties DEF Target
<1>3. CASE old # <<>>
  <2>1. old[1] \in Msg(kind)
    BY <1>3, PartValue, ZeroCases
  <2> QED
    BY <1>1, <1>3, <2>1 DEF Target
<1> QED
  BY <1>2, <1>3

\* A pointer to a message.
LEMMA PartIsValue ==
    ASSUME NEW kind \in Parts, NEW x \in Msg(kind)
    PROVE  <<x>> \in Value(kind)
<1>1. <<x>> \in Seq(Msg(kind)) /\ Len(<<x>>) <= 1
  OBVIOUS
<1> QED
  BY <1>1, ValueCases DEF Optional

\* Received yields values, at most one if the decoder does.
LEMMA ReceivedProperties ==
    ASSUME NEW kind \in Kinds \ Scalars, NEW old \in Value(kind), NEW body \in Bytes,
           NEW g, NEW n \in Nat, Len(body) < n, UnTyped(g, n)
    PROVE  /\ Received(kind, old, body, g) \subseteq Value(kind)
           /\ \A h : UnSame(g, h, n) => Received(kind, old, body, g) = Received(kind, old, body, h)
           /\ UnSingle(g, n) => \A p, q \in Received(kind, old, body, g) : p = q
<1>1. CASE kind = "string"
  <2>1. \A h : Received(kind, old, body, h) = {body}
    BY <1>1, ReceivedString
  <2>2. body \in Value(kind)
    BY <1>1, ValueCases
  <2>3. Received(kind, old, body, g) \subseteq Value(kind)
    BY <2>1, <2>2
  <2>4. \A h : Received(kind, old, body, g) = Received(kind, old, body, h)
    BY <2>1
  <2>5. \A p, q \in Received(kind, old, body, g) : p = q
    BY <2>1
  <2> QED
    BY <2>3, <2>4, <2>5
<1>2. CASE kind = "strings"
  <2>1. \A h : Received(kind, old, body, h) = {Append(old, body)}
    BY <1>2, ReceivedStrings
  <2>2. Append(old, body) \in Value(kind)
    <3>1. old \in Seq(Bytes) /\ Value(kind) = Seq(Bytes)
      BY <1>2, ValueCases
    <3> QED
      BY <3>1
  <2>3. Received(kind, old, body, g) \subseteq Value(kind)
    BY <2>1, <2>2
  <2>4. \A h : Received(kind, old, body, g) = Received(kind, old, body, h)
    BY <2>1
  <2>5. \A p, q \in Received(kind, old, body, g) : p = q
    BY <2>1
  <2> QED
    BY <2>3, <2>4, <2>5
<1>3. CASE kind \in Parts
  <2> DEFINE y == <<kind, Target(kind, old), body>>
  <2>1. y \in Decoding /\ y[1] = kind /\ y[3] = body
    BY <1>3, TargetType, DecodingRule
  <2> HIDE DEF y
  <2>2. g[y] \in SUBSET Msg(kind)
    BY <2>1 DEF UnTyped
  <2>3. \A h : Received(kind, old, body, h) = {<<x>> : x \in h[y]}
    BY <1>3, ReceivedPart DEF y
  <2>4. \A x \in Msg(kind) : <<x>> \in Value(kind)
    BY <1>3, PartIsValue
  <2>5. Received(kind, old, body, g) \subseteq Value(kind)
    BY <2>2, <2>3, <2>4
  <2>6. ASSUME NEW h, UnSame(g, h, n)
        PROVE  Received(kind, old, body, g) = Received(kind, old, body, h)
    <3>1. g[y] = h[y]
      BY <2>1, <2>6 DEF UnSame
    <3> QED
      BY <2>3, <3>1
  <2>7. ASSUME UnSingle(g, n), NEW p \in Received(kind, old, body, g), NEW q \in Received(kind, old, body, g)
        PROVE  p = q
    <3>1. PICK v \in g[y], w \in g[y] : p = <<v>> /\ q = <<w>>
      BY <2>3, <2>7
    <3>2. v = w
      BY <2>1, <2>7, <3>1 DEF UnSingle
    <3> QED
      BY <3>1, <3>2
  <2> QED
    BY <2>5, <2>6, <2>7
<1> QED
  BY <1>1, <1>2, <1>3 DEF Kinds

\* Reading a tag depends on its own bytes only.
LEMMA TagProperties ==
    ASSUME NEW b \in Bytes, NEW t \in Tag(b)
    PROVE  /\ t.num \in Nat \ {0} /\ t.wt \in 0 .. 7 /\ t.n \in 1 .. Len(b)
           /\ \A c \in Bytes : Agree(b, c, t.n) => Tag(c) = {t}
<1>1. PICK w \in Varint(b) : /\ t = [num |-> Signed(W32, w.v \div 8), wt |-> w.v % 8, n |-> w.n]
                             /\ t.wt # 4 /\ t.num > 0
  BY DEF Tag
<1>2. w.v \in Nat /\ w.n \in 1 .. Len(b)
  BY VarintType, Widths
<1>3. Signed(W32, w.v \div 8) \in Int
  <2>1. w.v \div 8 \in Nat
    BY <1>2
  <2>2. W32 \div 2 \in Nat \ {0} /\ W32 = 2 * (W32 \div 2)
    BY Widths
  <2>3. Signed(2 * (W32 \div 2), w.v \div 8) \in -(W32 \div 2) .. (W32 \div 2) - 1
    BY <2>1, <2>2, SignedProperties
  <2> QED
    BY <2>2, <2>3
<1>4. w.v % 8 \in 0 .. 7
  BY <1>2
<1>5. ASSUME NEW c \in Bytes, Agree(b, c, t.n) PROVE Tag(c) = {t}
  <2>1. Varint(c) = {w}
    BY <1>1, <1>5, VarintLocal
  <2> QED
    BY <1>1, <2>1 DEF Tag
<1> QED
  BY <1>1, <1>2, <1>3, <1>4, <1>5

\* The bytes that are read for a field with a length.
LEMMA BodyProperties ==
    ASSUME NEW b \in Bytes, NEW n \in 1 .. Len(b), NEW l \in Length(Drop(b, n)), n + l.n + l.v <= Len(b)
    PROVE  /\ l.n \in Nat \ {0} /\ l.v \in Nat
           /\ n + l.n + l.v \in 1 .. Len(b)
           /\ SubSeq(b, n + l.n + 1, n + l.n + l.v) \in Bytes
           /\ Len(SubSeq(b, n + l.n + 1, n + l.n + l.v)) = l.v
           /\ l.v < Len(b)
<1>1. Drop(b, n) \in Bytes /\ Len(b) \in Nat
  BY DropProperties DEF Bytes
<1>2. l.v \in Nat /\ l.n \in Nat \ {0}
  BY <1>1, LengthProperties, Widths
<1>3. n + l.n + l.v \in 1 .. Len(b) /\ l.v < Len(b) /\ n + l.n \in Nat
  BY <1>1, <1>2
<1>4. ASSUME NEW i \in Nat, NEW j \in Nat, i + j <= Len(b)
      PROVE  SubSeq(b, i + 1, i + j) \in Bytes /\ Len(SubSeq(b, i + 1, i + j)) = j
  BY <1>1, <1>4 DEF Bytes
<1> QED
  BY <1>2, <1>3, <1>4

\* What one round of the loop yields: by the tag, a field of one of three sorts.
LEMMA FieldCases ==
    ASSUME NEW T \in Types, NEW m, NEW b \in Bytes, NEW g, NEW t \in Tag(b), Tag(b) = {t}
    PROVE  /\ t.num > Len(Fields[T]) => Field(T, m, b, g) = UnknownField(m, b)
           /\ t.num \in 1 .. Len(Fields[T]) =>
                /\ KindOf(T, t.num) \in Scalars => Field(T, m, b, g) = VarintField(T, m, t, b)
                /\ KindOf(T, t.num) \in Kinds \ Scalars =>
                        Field(T, m, b, g) = DelimitedField(T, m, t, b, g)
<1> DEFINE e(x) == IF x.num > Len(Fields[T]) THEN UnknownField(m, b) ELSE KnownField(T, m, x, b, g)
<1>1. Field(T, m, b, g) = UNION {e(x) : x \in {t}}
  BY DEF Field
<1> HIDE DEF e
<1>2. Field(T, m, b, g) = e(t)
  BY <1>1
<1>3. Len(Fields[T]) \in Nat
  BY FieldTable
<1>4. t.num > Len(Fields[T]) => e(t) = UnknownField(m, b)
  BY DEF e
<1>5. ASSUME t.num \in 1 .. Len(Fields[T]) PROVE e(t) = KnownField(T, m, t, b, g)
  <2>1. ~(t.num > Len(Fields[T]))
    BY <1>3, <1>5
  <2> QED
    BY <2>1 DEF e
<1>6. KindOf(T, t.num) \in Scalars => KnownField(T, m, t, b, g) = VarintField(T, m, t, b)
  BY DEF KnownField, IsVarint, Scalars
<1>7. KindOf(T, t.num) \in Kinds \ Scalars =>
            KnownField(T, m, t, b, g) = DelimitedField(T, m, t, b, g)
  BY DEF KnownField, IsVarint, Scalars
<1> QED
  BY <1>2, <1>4, <1>5, <1>6, <1>7

\* A tag is of a known field or not.
LEMMA TagCases ==
    ASSUME NEW T \in Types, NEW b \in Bytes, NEW t \in Tag(b)
    PROVE  /\ Tag(b) = {t}
           /\ \/ t.num > Len(Fields[T])
              \/ t.num \in 1 .. Len(Fields[T]) /\ KindOf(T, t.num) \in Scalars
              \/ t.num \in 1 .. Len(Fields[T]) /\ KindOf(T, t.num) \in Kinds \ Scalars
<1>1. t.num \in Nat \ {0} /\ t.n \in 0 .. Len(b)
  BY TagProperties
<1>2. Agree(b, b, t.n)
  BY <1>1 DEF Agree, Bytes
<1>3. Tag(b) = {t}
  BY <1>2, TagProperties
<1>4. Len(Fields[T]) \in Nat
  BY FieldTable
<1>5. t.num > Len(Fields[T]) \/ t.num \in 1 .. Len(Fields[T])
  BY <1>1, <1>4
<1> QED
  BY <1>3, <1>5, FieldTable

\* Without a tag there is no field.
LEMMA FieldNone ==
    ASSUME NEW T, NEW m, NEW b, NEW g, Tag(b) = {}
    PROVE  Field(T, m, b, g) = {}
BY DEF Field

\* A round yields a message of the type, from some of the bytes, and depends on
\* how shorter bytes are decoded only.
LEMMA FieldProperties ==
    ASSUME NEW T \in Types, NEW m \in Msg(T), NEW b \in Bytes, NEW g, UnTyped(g, Len(b))
    PROVE  /\ \A r \in Field(T, m, b, g) : r.m \in Msg(T) /\ r.n \in 1 .. Len(b)
           /\ \A h : UnSame(g, h, Len(b)) => Field(T, m, b, g) = Field(T, m, b, h)
<1>1. CASE Tag(b) = {}
  <2>1. \A h : Field(T, m, b, h) = {}
    BY <1>1, FieldNone
  <2> QED
    BY <2>1
<1>2. CASE Tag(b) # {}
  <2>1. PICK t \in Tag(b) : TRUE
    BY <1>2
  <2>2. Tag(b) = {t}
    BY TagCases
  <2>3. t.n \in 1 .. Len(b) /\ t.n \in Nat /\ Len(b) \in Nat
    BY TagProperties DEF Bytes
  <2>4. Drop(b, t.n) \in Bytes /\ Len(Drop(b, t.n)) = Len(b) - t.n
    BY <2>3, DropBytes
  <2>5. CASE t.num > Len(Fields[T])
    <3>1. \A h : Field(T, m, b, h) = UnknownField(m, b)
      BY <2>2, <2>5, FieldCases
    <3>2. ASSUME NEW r \in UnknownField(m, b) PROVE r.m \in Msg(T) /\ r.n \in 1 .. Len(b)
      <4>1. PICK e \in skipMsg(b) : /\ e <= Len(b)
                                    /\ r = [m |-> [m EXCEPT !.unrecognized = @ \o SubSeq(b, 1, e)], n |-> e]
        BY DEF UnknownField
      <4>2. e \in Nat \ {0}
        BY SkipLocal DEF skipMsg
      <4>3. m.unrecognized \in Bytes /\ SubSeq(b, 1, e) \in Bytes
        <5>1. SubSeq(b, 1, e) \in Seq(Byte)
          BY <2>3, <4>1, <4>2 DEF Bytes
        <5> QED
          BY <5>1, MsgField DEF Bytes
      <4> DEFINE u == m.unrecognized \o SubSeq(b, 1, e)
      <4>4. u \in Bytes
        BY <4>3 DEF Bytes
      <4>5. r.m = [m EXCEPT !.unrecognized = u] /\ r.n = e
        BY <4>1
      <4> HIDE DEF u
      <4> QED
        BY <2>3, <4>1, <4>2, <4>4, <4>5, MsgUnknown
    <3> QED
      BY <3>1, <3>2
  <2>6. CASE t.num \in 1 .. Len(Fields[T]) /\ KindOf(T, t.num) \in Scalars
    <3>1. \A h : Field(T, m, b, h) = VarintField(T, m, t, b)
      BY <2>2, <2>6, FieldCases
    <3>2. ASSUME NEW r \in VarintField(T, m, t, b) PROVE r.m \in Msg(T) /\ r.n \in 1 .. Len(b)
      <4>1. PICK v \in Varint(Drop(b, t.n)) :
                r = [m |-> [m EXCEPT ![NameOf(T, t.num)] = FromUint64(KindOf(T, t.num), v.v)], n |-> t.n + v.n]
        BY DEF VarintField
      <4>2. v.v \in 0 .. W64 - 1 /\ v.n \in 1 .. Len(Drop(b, t.n))
        BY <2>4, VarintType
      <4> DEFINE w == FromUint64(KindOf(T, t.num), v.v)
      <4>3. w \in Value(KindOf(T, t.num))
        BY <2>6, <4>2, FromUint64Type
      <4>4. r.m = [m EXCEPT ![NameOf(T, t.num)] = w] /\ r.n = t.n + v.n
        BY <4>1
      <4> HIDE DEF w
      <4>5. r.m \in Msg(T)
        BY <2>6, <4>3, <4>4, MsgExcept
      <4>6. r.n \in 1 .. Len(b)
        BY <2>3, <2>4, <4>2, <4>4
      <4> QED
        BY <4>5, <4>6
    <3> QED
      BY <3>1, <3>2
  <2>7. CASE t.num \in 1 .. Len(Fields[T]) /\ KindOf(T, t.num) \in Kinds \ Scalars
    <3> DEFINE L == {k \in Length(Drop(b, t.n)) : t.wt = 2 /\ t.n + k.n + k.v <= Len(b)}
               old == m[NameOf(T, t.num)]
               body(l) == SubSeq(b, t.n + l.n + 1, t.n + l.n + l.v)
    <3>1. \A h : Field(T, m, b, h) = DelimitedField(T, m, t, b, h)
      BY <2>2, <2>7, FieldCases
    <3>2. \A h : DelimitedField(T, m, t, b, h) = UNION {Body(T, m, t, l, b, h) : l \in L}
      BY DEF DelimitedField
    <3>3. old \in Value(KindOf(T, t.num))
      BY <2>7, MsgField
    <3>4. ASSUME NEW l \in L
          PROVE  /\ t.n + l.n + l.v \in 1 .. Len(b)
                 /\ Received(KindOf(T, t.num), old, body(l), g) \subseteq Value(KindOf(T, t.num))
                 /\ \A h : UnSame(g, h, Len(b)) =>
                        Received(KindOf(T, t.num), old, body(l), g) = Received(KindOf(T, t.num), old, body(l), h)
      <4>1. /\ t.n + l.n + l.v \in 1 .. Len(b)
            /\ body(l) \in Bytes /\ Len(body(l)) < Len(b)
        BY <2>3, BodyProperties
      <4> HIDE DEF L, old, body
      <4> QED
        BY <2>3, <2>7, <3>3, <4>1, ReceivedProperties
    <3>5. \A h : \A l \in L : Body(T, m, t, l, b, h) =
                {[m |-> [m EXCEPT ![NameOf(T, t.num)] = v], n |-> t.n + l.n + l.v] :
                    v \in Received(KindOf(T, t.num), old, body(l), h)}
      BY DEF Body
    <3> HIDE DEF L, old, body
    <3>6. ASSUME NEW r \in Field(T, m, b, g) PROVE r.m \in Msg(T) /\ r.n \in 1 .. Len(b)
      <4>1. PICK l \in L : r \in Body(T, m, t, l, b, g)
        BY <3>1, <3>2
      <4>2. PICK v \in Received(KindOf(T, t.num), old, body(l), g) :
                r = [m |-> [m EXCEPT ![NameOf(T, t.num)] = v], n |-> t.n + l.n + l.v]
        BY <3>5, <4>1
      <4>3. v \in Value(KindOf(T, t.num)) /\ t.n + l.n + l.v \in 1 .. Len(b)
        BY <3>4, <4>2
      <4>4. r.m = [m EXCEPT ![NameOf(T, t.num)] = v] /\ r.n = t.n + l.n + l.v
        BY <4>2
      <4>5. r.m \in Msg(T)
        BY <2>7, <4>3, <4>4, MsgExcept
      <4> QED
        BY <4>3, <4>4, <4>5
    <3>7. ASSUME NEW h, UnSame(g, h, Len(b)) PROVE Field(T, m, b, g) = Field(T, m, b, h)
      <4>1. \A l \in L : Body(T, m, t, l, b, g) = Body(T, m, t, l, b, h)
        BY <3>4, <3>5, <3>7
      <4>2. UNION {Body(T, m, t, l, b, g) : l \in L} = UNION {Body(T, m, t, l, b, h) : l \in L}
        BY <4>1
      <4> QED
        BY <3>1, <3>2, <4>2
    <3> QED
      BY <3>6, <3>7
  <2> QED
    BY <2>5, <2>6, <2>7, TagCases
<1> QED
  BY <1>1, <1>2

\* What the loop of Unmarshal computes, from a message of type T and bytes: the
\* messages with the fields in the bytes, all of type T.
LEMMA UnmarshalOfDef ==
    /\ \A x \in Decoding : UnmarshalOf[x] \in SUBSET Msg(x[1])
    /\ \A T \in Types : \A m \in Msg(T) : \A b \in Bytes :
            UnmarshalOf[<<T, m, b>>] =
                IF b = <<>> THEN {m}
                ELSE UNION {UnmarshalOf[<<T, r.m, Drop(b, r.n)>>] : r \in Field(T, m, b, UnmarshalOf)}
<1> DEFINE D == Decoding
           V == SUBSET AnyMsg
           R == [x \in D |-> SUBSET Msg(x[1])]
           rank == [x \in D |-> Len(x[3])]
           G == Pi(D, V, R)
           e(x, g) == IF x[3] = <<>> THEN {x[2]}
                      ELSE UNION {g[<<x[1], r.m, Drop(x[3], r.n)>>] : r \in Field(x[1], x[2], x[3], g)}
           H == [x \in D |-> [g \in G |-> e(x, g)]]
<1>1. \A x \in D : \A g \in G : H[x][g] = e(x, g)
  OBVIOUS
<1>2. ASSUME NEW x \in D
      PROVE  /\ x = <<x[1], x[2], x[3]>> /\ x[1] \in Types /\ x[2] \in Msg(x[1]) /\ x[3] \in Bytes
             /\ rank[x] = Len(x[3]) /\ Len(x[3]) \in Nat /\ R[x] = SUBSET Msg(x[1])
  <2>1. x[3] \in Bytes
    BY DecodingRule
  <2> QED
    BY <2>1, DecodingRule DEF Bytes
<1>3. \A x \in D : R[x] # {} /\ R[x] \subseteq V
  <2>1. \A T \in Types : Msg(T) \subseteq AnyMsg
    BY MsgCases DEF Types, AnyMsg
  <2> QED
    BY <1>2, <2>1
<1>4. rank \in [D -> Nat]
  BY <1>2
<1> HIDE DEF R, H, rank, V
\* Typed below x: so are the results at x.
<1>5. ASSUME NEW x \in D, NEW g, UnTyped(g, rank[x]),
             NEW r \in Field(x[1], x[2], x[3], g)
      PROVE  /\ r.m \in Msg(x[1]) /\ r.n \in 1 .. Len(x[3])
             /\ <<x[1], r.m, Drop(x[3], r.n)>> \in D
             /\ rank[<<x[1], r.m, Drop(x[3], r.n)>>] < rank[x]
  <2>1. UnTyped(g, Len(x[3]))
    BY <1>2, <1>5
  <2>2. r.m \in Msg(x[1]) /\ r.n \in 1 .. Len(x[3])
    BY <1>2, <1>5, <2>1, FieldProperties
  <2>3. Drop(x[3], r.n) \in Bytes /\ Len(Drop(x[3], r.n)) = Len(x[3]) - r.n
    BY <1>2, <2>2, DropBytes
  <2>4. <<x[1], r.m, Drop(x[3], r.n)>> \in D
    BY <1>2, <2>2, <2>3, DecodingRule
  <2>5. <<x[1], r.m, Drop(x[3], r.n)>>[3] = Drop(x[3], r.n)
    OBVIOUS
  <2>6. rank[<<x[1], r.m, Drop(x[3], r.n)>>] = Len(Drop(x[3], r.n))
    BY <1>2, <2>4, <2>5
  <2>7. Len(x[3]) - r.n < Len(x[3])
    BY <1>2, <2>2
  <2> QED
    BY <1>2, <2>2, <2>3, <2>4, <2>6, <2>7
<1>6. ASSUME NEW x \in D, NEW g, UnTyped(g, rank[x])
      PROVE  e(x, g) \in SUBSET Msg(x[1])
  <2>1. CASE x[3] = <<>>
    BY <1>2, <2>1
  <2>2. CASE x[3] # <<>>
    <3>1. ASSUME NEW r \in Field(x[1], x[2], x[3], g)
          PROVE  g[<<x[1], r.m, Drop(x[3], r.n)>>] \in SUBSET Msg(x[1])
      <4> DEFINE y == <<x[1], r.m, Drop(x[3], r.n)>>
      <4>1. y \in D /\ rank[y] < rank[x] /\ y[1] = x[1]
        BY <1>5, <1>6
      <4>2. Len(y[3]) < rank[x]
        BY <1>2, <4>1
      <4> HIDE DEF y
      <4>3. g[y] \in SUBSET Msg(y[1])
        BY <1>6, <4>1, <4>2 DEF UnTyped
      <4> QED
        BY <4>1, <4>3 DEF y
    <3> QED
      BY <2>2, <3>1
  <2> QED
    BY <2>1, <2>2
<1>7. ASSUME NEW x \in D, NEW g, NEW h, UnTyped(g, rank[x]),
             \A y \in D : rank[y] < rank[x] => g[y] = h[y]
      PROVE  e(x, g) = e(x, h)
  <2>1. CASE x[3] = <<>>
    BY <2>1
  <2>2. CASE x[3] # <<>>
    <3>1. UnSame(g, h, Len(x[3])) /\ UnTyped(g, Len(x[3]))
      BY <1>2, <1>7 DEF UnSame
    <3>2. Field(x[1], x[2], x[3], g) = Field(x[1], x[2], x[3], h)
      BY <1>2, <3>1, FieldProperties
    <3>3. ASSUME NEW r \in Field(x[1], x[2], x[3], g)
          PROVE  g[<<x[1], r.m, Drop(x[3], r.n)>>] = h[<<x[1], r.m, Drop(x[3], r.n)>>]
      BY <1>5, <1>7
    <3>4. UNION {g[<<x[1], r.m, Drop(x[3], r.n)>>] : r \in Field(x[1], x[2], x[3], g)}
            = UNION {h[<<x[1], r.m, Drop(x[3], r.n)>>] : r \in Field(x[1], x[2], x[3], h)}
      BY <3>2, <3>3
    <3> QED
      BY <2>2, <3>4
  <2> QED
    BY <2>1, <2>2
<1>8. ASSUME NEW g \in G, NEW n PROVE UnTyped(g, n)
  BY <1>2 DEF UnTyped, Pi
<1> HIDE DEF e, D, G
<1>9. IsRecursion(D, V, R, rank, H)
  <2>1. \A x \in D : \A g \in G : H[x][g] \in R[x]
    BY <1>1, <1>2, <1>6, <1>8
  <2>2. \A x \in D : \A g, h \in G :
            (\A y \in D : rank[y] < rank[x] => g[y] = h[y]) => H[x][g] = H[x][h]
    <3> SUFFICES ASSUME NEW x \in D, NEW g \in G, NEW h \in G,
                        \A y \in D : rank[y] < rank[x] => g[y] = h[y]
                 PROVE  H[x][g] = H[x][h]
      OBVIOUS
    <3>1. e(x, g) = e(x, h)
      BY <1>7, <1>8
    <3> QED
      BY <1>1, <3>1
  <2> QED
    BY <1>3, <1>4, <2>1, <2>2 DEF IsRecursion, G
<1>10. PICK f \in G : \A x \in D : f[x] = H[x][f]
  BY <1>9, RecursionTheorem DEF G
<1>11. f = [x \in D |-> e(x, f)]
  <2>1. f = [x \in D |-> f[x]]
    BY DEF G, Pi
  <2> QED
    BY <1>1, <1>10, <2>1
<1>12. UnmarshalOf = [x \in D |-> e(x, UnmarshalOf)]
  <2>1. \E g : g = [x \in Decoding |->
            IF x[3] = <<>> THEN {x[2]}
            ELSE UNION {g[<<x[1], r.m, Drop(x[3], r.n)>>] : r \in Field(x[1], x[2], x[3], g)}]
    BY <1>11, Zenon DEF D, e
  <2>2. UnmarshalOf = [x \in Decoding |->
            IF x[3] = <<>> THEN {x[2]}
            ELSE UNION {UnmarshalOf[<<x[1], r.m, Drop(x[3], r.n)>>] :
                            r \in Field(x[1], x[2], x[3], UnmarshalOf)}]
    BY <2>1, Zenon DEF UnmarshalOf
  <2> QED
    BY <2>2, Zenon DEF D, e
<1>13. \A x \in D : UnmarshalOf[x] = e(x, UnmarshalOf)
  BY <1>12
<1>14. \A x \in D : f[x] = UnmarshalOf[x]
  <2> DEFINE Bad == {r \in Nat : \E x \in D : rank[x] = r /\ f[x] # UnmarshalOf[x]}
  <2>1. ASSUME Bad # {} PROVE FALSE
    <3>1. PICK r \in Bad : \A s \in Bad : r <= s
      BY <2>1, LeastNumber
    <3>2. PICK x \in D : rank[x] = r /\ f[x] # UnmarshalOf[x]
      BY <3>1
    <3>3. \A y \in D : rank[y] < rank[x] => f[y] = UnmarshalOf[y]
      BY <1>4, <3>1, <3>2
    <3>4. e(x, f) = e(x, UnmarshalOf)
      BY <1>7, <1>8, <3>3
    <3> QED
      BY <1>1, <1>10, <1>13, <3>2, <3>4
  <2> QED
    BY <1>4, <2>1
<1>15. \A x \in D : UnmarshalOf[x] \in SUBSET Msg(x[1])
  BY <1>2, <1>14 DEF G, Pi
<1>16. ASSUME NEW T \in Types, NEW m \in Msg(T), NEW b \in Bytes
       PROVE  UnmarshalOf[<<T, m, b>>] =
                IF b = <<>> THEN {m}
                ELSE UNION {UnmarshalOf[<<T, r.m, Drop(b, r.n)>>] : r \in Field(T, m, b, UnmarshalOf)}
  <2>1. <<T, m, b>> \in D
    BY DecodingRule DEF D
  <2>2. UnmarshalOf[<<T, m, b>>] = e(<<T, m, b>>, UnmarshalOf)
    BY <1>13, <2>1
  <2> QED
    BY <2>2 DEF e
<1> QED
  BY <1>15, <1>16 DEF D

\* Sequences that agree on n elements agree on fewer.
LEMMA AgreeLess ==
    ASSUME NEW b, NEW c, NEW n \in Nat, NEW k \in 0 .. n, Len(b) \in Nat, Len(c) \in Nat, Agree(b, c, n)
    PROVE  Agree(b, c, k)
BY DEF Agree

\* A field ends behind its tag.
LEMMA SkipBehindTag ==
    ASSUME NEW b \in Bytes, NEW d \in Nat, NEW e \in skipFrom[<<b, d>>], NEW w \in Varint(b)
    PROVE  w.n <= e
<1>1. PICK x \in Varint(b) : e \in SkipField(b, d, x, skipFrom)
  BY SkipFromDef
<1>2. Len(b) \in Nat /\ w.n \in 1 .. Len(b) /\ x.n \in 1 .. Len(b) /\ x.v \in Nat
  BY VarintType, Widths DEF Bytes
<1>3. w = x
  <2>1. Agree(b, b, x.n)
    BY <1>2 DEF Agree
  <2> QED
    BY <2>1, VarintLocal
<1> DEFINE dd == Depth(d, x.v % 8)
<1>5. x.v % 8 \in 0 .. 7 /\ dd \in Int
  BY <1>2 DEF Depth
<1>4. PICK y \in SkipValue(b, x.n, x.v % 8) : dd >= 0 /\ e \in SkipRest(b, dd, y, skipFrom)
  <2>1. SkipField(b, d, x, skipFrom) = IF dd < 0 THEN {}
            ELSE UNION {SkipRest(b, dd, y, skipFrom) : y \in SkipValue(b, x.n, x.v % 8)}
    BY DEF SkipField
  <2> HIDE DEF dd
  <2>2. ~(dd < 0)
    BY <1>1, <2>1
  <2>3. dd >= 0
    BY <1>5, <2>2
  <2> QED
    BY <1>1, <2>1, <2>2, <2>3
<1>6. y \in Nat /\ x.n <= y
  BY <1>2, <1>5, SkipValueProperties
<1> HIDE DEF dd
<1>7. CASE dd = 0
  BY <1>3, <1>4, <1>6, <1>7 DEF SkipRest
<1>8. CASE dd # 0
  <2>1. PICK s \in skipFrom[<<Drop(b, y), dd>>] : e = y + s
    BY <1>4, <1>8 DEF SkipRest
  <2>2. Drop(b, y) \in Bytes /\ dd \in Nat
    BY <1>4, <1>5, <1>6, DropProperties DEF Bytes
  <2>3. s \in Nat
    BY <2>1, <2>2, SkipLocal
  <2> QED
    BY <1>2, <1>3, <1>6, <2>1, <2>3
<1> QED
  BY <1>7, <1>8

\* Keeping an unknown field depends on its own bytes only.
LEMMA UnknownLocal ==
    ASSUME NEW T \in Types, NEW m, NEW b \in Bytes, NEW r \in UnknownField(m, b),
           NEW c \in Bytes, Agree(b, c, r.n)
    PROVE  UnknownField(m, c) = {r}
<1>1. PICK e \in skipMsg(b) : /\ e <= Len(b)
                              /\ r = [m |-> [m EXCEPT !.unrecognized = @ \o SubSeq(b, 1, e)], n |-> e]
  BY DEF UnknownField
<1>2. e \in Nat \ {0} /\ Agree(b, c, e) /\ e <= Len(c)
  BY <1>1, SkipLocal DEF skipMsg, Agree
<1>3. skipMsg(c) = {e}
  BY <1>1, <1>2, SkipLocal DEF skipMsg
<1>4. SubSeq(c, 1, e) = SubSeq(b, 1, e)
  BY <1>2, AgreeSubSeq DEF Bytes
<1> DEFINE f(s) == [m EXCEPT !.unrecognized = @ \o s]
<1>5. UnknownField(m, c) = {[m |-> f(SubSeq(c, 1, x)), n |-> x] : x \in {y \in skipMsg(c) : y <= Len(c)}}
  BY DEF UnknownField
<1>6. r = [m |-> f(SubSeq(b, 1, e)), n |-> e]
  BY <1>1
<1> HIDE DEF f
<1>7. {y \in skipMsg(c) : y <= Len(c)} = {e}
  BY <1>2, <1>3
<1> QED
  BY <1>4, <1>5, <1>6, <1>7

\* A round looks at the bytes of its field only.
LEMMA FieldLocal ==
    ASSUME NEW T \in Types, NEW m \in Msg(T), NEW b \in Bytes, NEW g,
           UnTyped(g, Len(b)), UnSingle(g, Len(b)),
           NEW r \in Field(T, m, b, g), NEW c \in Bytes, Agree(b, c, r.n)
    PROVE  Field(T, m, c, g) = {r}
<1>1. PICK t \in Tag(b) : TRUE
  BY FieldNone
<1>2. Tag(b) = {t}
  BY TagCases
<1>3. t.n \in 1 .. Len(b) /\ t.n \in Nat /\ Len(b) \in Nat /\ Len(c) \in Nat
  BY TagProperties DEF Bytes
<1>4. Drop(b, t.n) \in Bytes /\ Len(Drop(b, t.n)) = Len(b) - t.n /\ Drop(c, t.n) \in Bytes
  <2>1. Drop(c, t.n) \in Bytes
    BY <1>3, DropProperties DEF Bytes
  <2> QED
    BY <1>3, <2>1, DropBytes
<1>5. r.n \in 1 .. Len(b)
  BY FieldProperties
<1>6. ASSUME t.n <= r.n PROVE t \in Tag(c) /\ Tag(c) = {t}
  <2>1. Agree(b, c, t.n)
    BY <1>3, <1>5, <1>6, AgreeLess
  <2> QED
    BY <2>1, TagProperties
<1>7. CASE t.num > Len(Fields[T])
  <2>1. r \in UnknownField(m, b)
    BY <1>2, <1>7, FieldCases
  <2>2. t.n <= r.n
    <3>1. r.n \in skipFrom[<<b, 0>>]
      BY <2>1 DEF UnknownField, skipMsg
    <3>2. \E w \in Varint(b) : w.n = t.n
      BY DEF Tag
    <3> QED
      BY <3>1, <3>2, SkipBehindTag
  <2>3. Field(T, m, c, g) = UnknownField(m, c)
    BY <1>6, <1>7, <2>2, FieldCases
  <2> QED
    BY <2>1, <2>3, UnknownLocal
<1>8. CASE t.num \in 1 .. Len(Fields[T]) /\ KindOf(T, t.num) \in Scalars
  <2>1. r \in VarintField(T, m, t, b)
    BY <1>2, <1>8, FieldCases
  <2> DEFINE f(v) == [m |-> [m EXCEPT ![NameOf(T, t.num)] = FromUint64(KindOf(T, t.num), v.v)], n |-> t.n + v.n]
  <2>2. PICK v \in Varint(Drop(b, t.n)) : t.wt = 0 /\ r = f(v)
    BY <2>1 DEF VarintField
  <2>3. v.n \in Nat /\ r.n = t.n + v.n
    BY <1>4, <2>2, VarintType
  <2>4. Agree(Drop(b, t.n), Drop(c, t.n), v.n)
    BY <1>3, <2>3, AgreeDrop DEF Bytes
  <2>5. Varint(Drop(c, t.n)) = {v}
    BY <1>4, <2>4, VarintLocal
  <2>6. VarintField(T, m, t, c) = {f(u) : u \in {w \in Varint(Drop(c, t.n)) : t.wt = 0}}
    BY DEF VarintField
  <2> HIDE DEF f
  <2>7. VarintField(T, m, t, c) = {r}
    BY <2>2, <2>5, <2>6
  <2>8. Tag(c) = {t} /\ t \in Tag(c)
    BY <1>3, <1>6, <2>3
  <2>9. Field(T, m, c, g) = VarintField(T, m, t, c)
    BY <1>8, <2>8, FieldCases
  <2> QED
    BY <2>7, <2>9
<1>9. CASE t.num \in 1 .. Len(Fields[T]) /\ KindOf(T, t.num) \in Kinds \ Scalars
  <2>1. r \in DelimitedField(T, m, t, b, g)
    BY <1>2, <1>9, FieldCases
  <2>2. PICK l \in Length(Drop(b, t.n)) :
            t.wt = 2 /\ t.n + l.n + l.v <= Len(b) /\ r \in Body(T, m, t, l, b, g)
    BY <2>1 DEF DelimitedField
  <2> DEFINE n == t.n + l.n + l.v
             body(s) == SubSeq(s, t.n + l.n + 1, n)
             old == m[NameOf(T, t.num)]
             kind == KindOf(T, t.num)
             f(v) == [m |-> [m EXCEPT ![NameOf(T, t.num)] = v], n |-> n]
  <2>3. l.n \in Nat \ {0} /\ l.v \in Nat /\ n \in 1 .. Len(b) /\ body(b) \in Bytes /\ Len(body(b)) < Len(b)
    BY <1>3, <2>2, BodyProperties
  <2>4. \A s : Body(T, m, t, l, s, g) = {f(v) : v \in Received(kind, old, body(s), g)}
    BY DEF Body
  <2>5. PICK v \in Received(kind, old, body(b), g) : r = f(v)
    BY <2>2, <2>4
  <2>6. r.n = n
    BY <2>5
  <2>18. n \in Nat /\ t.n + l.n \in 0 .. n
    <3>1. t.n \in Nat /\ l.n \in Nat /\ l.v \in Nat
      BY <1>3, <2>3
    <3> QED
      BY <3>1
  <2>7. old \in Value(kind) /\ kind \in Kinds \ Scalars
    BY <1>9, MsgField
  <2> HIDE DEF f, old, kind
  <2>8. body(c) = body(b)
    <3> HIDE DEF n
    <3>1. n \in Nat /\ t.n + l.n + 1 \in 1 .. n + 1 /\ Agree(b, c, n)
      BY <2>6, <2>18
    <3> QED
      BY <3>1, AgreeSubSeq DEF Bytes
  <2>9. Agree(Drop(b, t.n), Drop(c, t.n), l.n)
    <3>2. Agree(b, c, t.n + l.n)
      BY <1>3, <2>6, <2>18, AgreeLess
    <3> QED
      BY <1>3, <2>3, <3>2, AgreeDrop DEF Bytes
  <2>10. Length(Drop(c, t.n)) = {l}
    BY <1>4, <2>2, <2>9, LengthLocal
  <2>11. t.n + l.n + l.v <= Len(c)
    BY <2>6 DEF Agree
  <2> HIDE DEF n, body
  <2>12. \A p, q \in Received(kind, old, body(b), g) : p = q
    BY <1>3, <2>3, <2>7, ReceivedProperties
  <2>13. Body(T, m, t, l, c, g) = {r}
    BY <2>4, <2>5, <2>8, <2>12
  <2>14. {k \in Length(Drop(c, t.n)) : t.wt = 2 /\ t.n + k.n + k.v <= Len(c)} = {l}
    BY <2>2, <2>10, <2>11
  <2>15. DelimitedField(T, m, t, c, g) = {r}
    BY <2>13, <2>14 DEF DelimitedField
  <2>16. Tag(c) = {t} /\ t \in Tag(c)
    BY <1>3, <1>6, <2>3, <2>6 DEF n
  <2>17. Field(T, m, c, g) = DelimitedField(T, m, t, c, g)
    BY <1>9, <2>16, FieldCases
  <2> QED
    BY <2>15, <2>17
<1> QED
  BY <1>7, <1>8, <1>9, TagCases

\* Decoding yields messages.
LEMMA UnmarshalTyped ==
    ASSUME NEW n
    PROVE  UnTyped(UnmarshalOf, n)
BY UnmarshalOfDef DEF UnTyped

\* A sequence agrees with itself.
LEMMA AgreeSame ==
    ASSUME NEW b \in Bytes, NEW n \in 0 .. Len(b)
    PROVE  Agree(b, b, n)
BY DEF Agree, Bytes

\* Nothing is decoded from no bytes.
LEMMA UnmarshalEmpty ==
    ASSUME NEW T \in Types, NEW m \in Msg(T)
    PROVE  UnmarshalOf[<<T, m, <<>>>>] = {m}
<1>1. <<>> \in Bytes
  BY DEF Bytes
<1>2. UnmarshalOf[<<T, m, <<>>>>] =
        IF <<>> = <<>> THEN {m}
        ELSE UNION {UnmarshalOf[<<T, r.m, Drop(<<>>, r.n)>>] : r \in Field(T, m, <<>>, UnmarshalOf)}
  BY <1>1, UnmarshalOfDef, Zenon
<1> QED
  BY <1>2

\* The loop of Unmarshal: one field, then the rest.
LEMMA UnmarshalMember ==
    ASSUME NEW T \in Types, NEW m \in Msg(T), NEW b \in Bytes, b # <<>>
    PROVE  \A q : q \in UnmarshalOf[<<T, m, b>>] <=>
                    \E r \in Field(T, m, b, UnmarshalOf) : q \in UnmarshalOf[<<T, r.m, Drop(b, r.n)>>]
<1>1. UnmarshalOf[<<T, m, b>>] =
        IF b = <<>> THEN {m}
        ELSE UNION {UnmarshalOf[<<T, r.m, Drop(b, r.n)>>] : r \in Field(T, m, b, UnmarshalOf)}
  BY UnmarshalOfDef, Zenon
<1> QED
  BY <1>1

\* The same when the round has one result.
LEMMA UnmarshalRound ==
    ASSUME NEW T \in Types, NEW m \in Msg(T), NEW b \in Bytes, b # <<>>,
           NEW r, Field(T, m, b, UnmarshalOf) = {r}
    PROVE  UnmarshalOf[<<T, m, b>>] = UnmarshalOf[<<T, r.m, Drop(b, r.n)>>]
<1>1. \A q : q \in UnmarshalOf[<<T, m, b>>] <=> q \in UnmarshalOf[<<T, r.m, Drop(b, r.n)>>]
  BY UnmarshalMember
<1> QED
  BY <1>1

\* The same when it has none.
LEMMA UnmarshalNothing ==
    ASSUME NEW T \in Types, NEW m \in Msg(T), NEW b \in Bytes
    PROVE  /\ UnmarshalOf[<<T, m, <<>>>>] = {m}
           /\ b # <<>> /\ Field(T, m, b, UnmarshalOf) = {} => UnmarshalOf[<<T, m, b>>] = {}
<1>1. ASSUME b # <<>>, Field(T, m, b, UnmarshalOf) = {} PROVE UnmarshalOf[<<T, m, b>>] = {}
  BY <1>1, UnmarshalMember
<1> QED
  BY <1>1, UnmarshalEmpty

\* Decoding has at most one result.
LEMMA UnmarshalSingle ==
    ASSUME NEW k \in Nat
    PROVE  UnSingle(UnmarshalOf, k)
<1> DEFINE Good == {n \in Nat : \A y \in Decoding : Len(y[3]) = n => \A p, q \in UnmarshalOf[y] : p = q}
<1>1. ASSUME NEW n \in Nat, \A i \in Nat : i < n => i \in Good PROVE n \in Good
  <2> SUFFICES ASSUME NEW y \in Decoding, Len(y[3]) = n, NEW p \in UnmarshalOf[y], NEW q \in UnmarshalOf[y]
               PROVE  p = q
    OBVIOUS
  <2> DEFINE T == y[1]
             m == y[2]
             b == y[3]
  <2>1. y = <<T, m, b>> /\ T \in Types /\ m \in Msg(T) /\ b \in Bytes
    BY DecodingRule
  <2>2. UnSingle(UnmarshalOf, Len(b))
    <3> SUFFICES ASSUME NEW z \in Decoding, Len(z[3]) < Len(b) PROVE \A v, w \in UnmarshalOf[z] : v = w
      BY DEF UnSingle
    <3>1. Len(z[3]) \in Nat
      BY DecodingRule DEF Bytes
    <3> QED
      BY <1>1, <3>1
  <2> HIDE DEF T, m, b, Good
  <2>3. CASE b = <<>>
    BY <2>1, <2>3, UnmarshalNothing
  <2>4. CASE b # <<>>
    <3>2. PICK r \in Field(T, m, b, UnmarshalOf) : TRUE
      BY <2>1, <2>4, UnmarshalMember
    <3>3. r.m \in Msg(T) /\ r.n \in 1 .. Len(b) /\ Len(b) \in Nat
      BY <2>1, UnmarshalTyped, FieldProperties DEF Bytes
    <3>4. Field(T, m, b, UnmarshalOf) = {r}
      BY <2>1, <2>2, <3>3, AgreeSame, UnmarshalTyped, FieldLocal
    <3>5. UnmarshalOf[<<T, m, b>>] = UnmarshalOf[<<T, r.m, Drop(b, r.n)>>]
      BY <2>1, <2>4, <3>4, UnmarshalRound
    <3> DEFINE z == <<T, r.m, Drop(b, r.n)>>
    <3>6. Drop(b, r.n) \in Bytes /\ Len(Drop(b, r.n)) < Len(b)
      BY <2>1, <3>3, DropBytes
    <3>7. z \in Decoding /\ z[3] = Drop(b, r.n)
      BY <2>1, <3>3, <3>6, DecodingRule
    <3> HIDE DEF z
    <3>8. \A v, w \in UnmarshalOf[z] : v = w
      BY <2>2, <3>6, <3>7 DEF UnSingle
    <3> QED
      BY <2>1, <3>5, <3>8 DEF z
  <2> QED
    BY <2>3, <2>4
<1> HIDE DEF Good
<1>2. Nat \subseteq Good
  BY <1>1, StrongInduction
<1>3. \A y \in Decoding : Len(y[3]) \in Nat
  BY DecodingRule DEF Bytes
<1> QED
  BY <1>2, <1>3 DEF Good, UnSingle

\* Decoding has at most one result, and a round looks only at its field.
LEMMA RoundLocal ==
    ASSUME NEW T \in Types, NEW m \in Msg(T), NEW b \in Bytes,
           NEW r \in Field(T, m, b, UnmarshalOf), NEW c \in Bytes, Agree(b, c, r.n)
    PROVE  /\ r.m \in Msg(T) /\ r.n \in 1 .. Len(b) /\ r.n \in Nat
           /\ Field(T, m, c, UnmarshalOf) = {r}
<1>1. Len(b) \in Nat
  BY DEF Bytes
<1> QED
  BY <1>1, UnmarshalTyped, UnmarshalSingle, FieldProperties, FieldLocal

\* What has been decoded is not looked at again.
THEOREM DecodeInParts ==
    ASSUME NEW T \in Types, NEW m \in Msg(T), NEW b \in Bytes, NEW c \in Bytes,
           NEW p \in UnmarshalOf[<<T, m, b>>]
    PROVE  UnmarshalOf[<<T, m, b \o c>>] = UnmarshalOf[<<T, p, c>>]
<1> DEFINE Good == {n \in Nat : \A x \in Msg(T) : \A d \in Bytes : Len(d) = n =>
                        \A q \in UnmarshalOf[<<T, x, d>>] : UnmarshalOf[<<T, x, d \o c>>] = UnmarshalOf[<<T, q, c>>]}
<1>1. ASSUME NEW n \in Nat, \A i \in Nat : i < n => i \in Good PROVE n \in Good
  <2> SUFFICES ASSUME NEW x \in Msg(T), NEW d \in Bytes, Len(d) = n, NEW q \in UnmarshalOf[<<T, x, d>>]
               PROVE  UnmarshalOf[<<T, x, d \o c>>] = UnmarshalOf[<<T, q, c>>]
    OBVIOUS
  <2>1. CASE d = <<>>
    <3>1. q = x
      BY <2>1, UnmarshalNothing
    <3>2. d \o c = c
      BY <2>1 DEF Bytes
    <3> QED
      BY <3>1, <3>2
  <2>2. CASE d # <<>>
    <3>2. PICK r \in Field(T, x, d, UnmarshalOf) : q \in UnmarshalOf[<<T, r.m, Drop(d, r.n)>>]
      BY <2>2, UnmarshalMember
    <3>3. r.m \in Msg(T) /\ r.n \in 1 .. Len(d) /\ Len(d) \in Nat
      BY UnmarshalTyped, FieldProperties DEF Bytes
    <3>4. d \o c \in Bytes /\ d \o c # <<>> /\ Agree(d, d \o c, r.n)
      BY <2>2, <3>3, AgreeConcat DEF Bytes
    <3>5. Field(T, x, d \o c, UnmarshalOf) = {r}
      BY <3>4, RoundLocal
    <3>6. Drop(d \o c, r.n) = Drop(d, r.n) \o c
      <4>1. d \in Seq(Byte) /\ c \in Seq(Byte) /\ r.n \in 0 .. Len(d)
        BY <3>3 DEF Bytes
      <4> QED
        BY <4>1, DropConcat, Zenon
    <3>7. UnmarshalOf[<<T, x, d \o c>>] = UnmarshalOf[<<T, r.m, Drop(d, r.n) \o c>>]
      <4>1. UnmarshalOf[<<T, x, d \o c>>] = UnmarshalOf[<<T, r.m, Drop(d \o c, r.n)>>]
        BY <3>4, <3>5, UnmarshalRound
      <4> QED
        BY <3>6, <4>1
    <3>8. Drop(d, r.n) \in Bytes /\ Len(Drop(d, r.n)) \in Nat /\ Len(Drop(d, r.n)) < n
      <4>1. r.n \in 0 .. Len(d)
        BY <3>3
      <4>2. Drop(d, r.n) \in Bytes /\ Len(Drop(d, r.n)) = Len(d) - r.n
        BY <4>1, DropBytes
      <4> QED
        BY <3>3, <4>2
    <3>9. UnmarshalOf[<<T, r.m, Drop(d, r.n) \o c>>] = UnmarshalOf[<<T, q, c>>]
      <4> DEFINE e == Drop(d, r.n)
      <4>1. e \in Bytes /\ Len(e) \in Good
        BY <1>1, <3>8
      <4>2. q \in UnmarshalOf[<<T, r.m, e>>]
        BY <3>2
      <4> HIDE DEF e
      <4>3. \A y \in Msg(T) : \A f \in Bytes : Len(f) = Len(e) =>
                \A z \in UnmarshalOf[<<T, y, f>>] : UnmarshalOf[<<T, y, f \o c>>] = UnmarshalOf[<<T, z, c>>]
        BY <4>1
      <4>4. UnmarshalOf[<<T, r.m, e \o c>>] = UnmarshalOf[<<T, q, c>>]
        BY <3>3, <4>1, <4>2, <4>3
      <4> QED
        BY <4>4 DEF e
    <3> QED
      BY <3>7, <3>9
  <2> QED
    BY <2>1, <2>2
<1> HIDE DEF Good
<1>2. Nat \subseteq Good
  BY <1>1, StrongInduction
<1>3. Len(b) \in Good
  BY <1>2 DEF Bytes
<1> QED
  BY <1>3 DEF Good

\* A field of which bytes are missing is not decoded.
LEMMA FieldCut ==
    ASSUME NEW T \in Types, NEW m \in Msg(T), NEW b \in Bytes, NEW r \in Field(T, m, b, UnmarshalOf),
           NEW n \in 1 .. r.n - 1
    PROVE  UnmarshalOf[<<T, m, SubSeq(b, 1, n)>>] = {}
<1> DEFINE c == SubSeq(b, 1, n)
<1>1. Len(b) \in Nat /\ r.n \in 1 .. Len(b)
  BY UnmarshalTyped, FieldProperties DEF Bytes
<1>2. c \in Bytes /\ Len(c) = n /\ \A i \in 1 .. n : c[i] = b[i]
  BY <1>1 DEF Bytes
<1>3. c # <<>>
  BY <1>1, <1>2
<1> HIDE DEF c
<1>4. ASSUME NEW x \in Field(T, m, c, UnmarshalOf) PROVE FALSE
  <2>1. x.n \in 1 .. n
    BY <1>2, UnmarshalTyped, FieldProperties
  <2>2. Agree(c, b, x.n)
    BY <1>1, <1>2, <2>1 DEF Agree
  <2>3. Field(T, m, b, UnmarshalOf) = {x}
    BY <1>2, <2>2, RoundLocal
  <2> QED
    BY <1>1, <2>1, <2>3
<1>5. Field(T, m, c, UnmarshalOf) = {}
  BY <1>4
<1>6. UnmarshalOf[<<T, m, c>>] = {}
  BY <1>2, <1>3, <1>5, UnmarshalNothing
<1> QED
  BY <1>6 DEF c

-----------------------------------------------------------------------------
(* Bytes that are kept as they are. *)

Keep(m, u) == [m EXCEPT !.unrecognized = @ \o u]

\* The bytes that Unmarshal keeps, whatever message of type T it decodes into.
UnknownTo(T) == {u \in Bytes : \A m \in Msg(T) : UnmarshalOf[<<T, m, u>>] = {Keep(m, u)}}

\* Concatenation of bytes.
LEMMA BytesConcat ==
    ASSUME NEW a \in Bytes, NEW b \in Bytes
    PROVE  /\ a \o b \in Bytes /\ Len(a \o b) = Len(a) + Len(b)
           /\ Len(a) \in Nat /\ Len(b) \in Nat
           /\ a \o <<>> = a /\ <<>> \o a = a
           /\ a # <<>> => a \o b # <<>>
BY DEF Bytes

\* Concatenation is associative.
LEMMA BytesAssociative ==
    ASSUME NEW a \in Bytes, NEW b \in Bytes, NEW c \in Bytes
    PROVE  (a \o b) \o c = a \o (b \o c)
BY DEF Bytes

\* Bytes are their start and the rest.
LEMMA SplitBytes ==
    ASSUME NEW b \in Bytes, NEW n \in 0 .. Len(b)
    PROVE  /\ SubSeq(b, 1, n) \in Bytes /\ Len(SubSeq(b, 1, n)) = n
           /\ Drop(b, n) \in Bytes /\ Len(Drop(b, n)) = Len(b) - n
           /\ b = SubSeq(b, 1, n) \o Drop(b, n)
<1>1. b \in Seq(Byte)
  BY DEF Bytes
<1>2. SubSeq(b, 1, n) \in Seq(Byte) /\ Len(SubSeq(b, 1, n)) = n /\ b = SubSeq(b, 1, n) \o Drop(b, n)
  BY <1>1, SplitAt
<1> QED
  BY <1>2, DropBytes DEF Bytes

\* Keeping unknown bytes leaves the fields alone.
LEMMA KeepProperties ==
    ASSUME NEW T \in Types, NEW m \in Msg(T), NEW u \in Bytes
    PROVE  /\ Keep(m, u) \in Msg(T)
           /\ m.unrecognized \in Bytes
           /\ Keep(m, u).unrecognized = m.unrecognized \o u
           /\ \A k \in 1 .. Len(Fields[T]) : Keep(m, u)[NameOf(T, k)] = m[NameOf(T, k)]
<1> DEFINE w == m.unrecognized \o u
<1>1. m.unrecognized \in Bytes
  BY MsgField
<1>2. w \in Bytes
  BY <1>1, BytesConcat
<1>3. Keep(m, u) = [m EXCEPT !.unrecognized = w]
  BY DEF Keep
<1> HIDE DEF w
<1>4. /\ Keep(m, u) \in Msg(T)
      /\ Keep(m, u).unrecognized = w
      /\ \A k \in 1 .. Len(Fields[T]) : Keep(m, u)[NameOf(T, k)] = m[NameOf(T, k)]
  BY <1>2, <1>3, MsgUnknown
<1> QED
  BY <1>1, <1>4 DEF w

\* Keeping no bytes changes nothing.
LEMMA KeepNothing ==
    ASSUME NEW T \in Types, NEW m \in Msg(T)
    PROVE  Keep(m, <<>>) = m
<1>1. <<>> \in Bytes
  BY DEF Bytes
<1>2. Keep(m, <<>>).unrecognized = m.unrecognized
  BY <1>1, KeepProperties, BytesConcat
<1> QED
  BY <1>1, <1>2, KeepProperties, MsgEqual

\* Unknown bytes are kept in order.
LEMMA KeepTwice ==
    ASSUME NEW T \in Types, NEW m \in Msg(T), NEW u \in Bytes, NEW v \in Bytes
    PROVE  Keep(Keep(m, u), v) = Keep(m, u \o v)
<1> DEFINE x == Keep(m, u)
           w == u \o v
           p == Keep(x, v)
           q == Keep(m, w)
<1>1. w \in Bytes /\ x \in Msg(T) /\ m.unrecognized \in Bytes /\ x.unrecognized = m.unrecognized \o u
  BY BytesConcat, KeepProperties
<1>2. \A k \in 1 .. Len(Fields[T]) : x[NameOf(T, k)] = m[NameOf(T, k)]
  BY KeepProperties
<1> HIDE DEF x, w
<1>3. /\ p \in Msg(T) /\ q \in Msg(T)
      /\ p.unrecognized = x.unrecognized \o v /\ q.unrecognized = m.unrecognized \o w
      /\ \A k \in 1 .. Len(Fields[T]) : p[NameOf(T, k)] = x[NameOf(T, k)]
      /\ \A k \in 1 .. Len(Fields[T]) : q[NameOf(T, k)] = m[NameOf(T, k)]
  BY <1>1, KeepProperties
<1>4. p.unrecognized = q.unrecognized
  <2>1. (m.unrecognized \o u) \o v = m.unrecognized \o (u \o v)
    BY <1>1, BytesAssociative
  <2> QED
    BY <1>1, <1>3, <2>1 DEF w
<1> HIDE DEF p, q
<1>5. p = q
  BY <1>2, <1>3, <1>4, MsgEqual
<1> QED
  BY <1>5 DEF p, q, x, w

\* A round either leaves the unrecognized bytes as they are, or only adds those
\* of its field to them, and does so in every message.
KeepsField(T, b, n) ==
    \A x \in Msg(T) : Field(T, x, b, UnmarshalOf) = {[m |-> Keep(x, SubSeq(b, 1, n)), n |-> n]}

\* A round either leaves the unknown bytes alone or keeps all of its own.
LEMMA FieldSorts ==
    ASSUME NEW T \in Types, NEW m \in Msg(T), NEW b \in Bytes, NEW r \in Field(T, m, b, UnmarshalOf)
    PROVE  r.m.unrecognized = m.unrecognized \/ KeepsField(T, b, r.n)
<1>1. PICK t \in Tag(b) : TRUE
  BY FieldNone
<1>2. Tag(b) = {t}
  BY TagCases
<1>3. t.n \in 1 .. Len(b) /\ Len(b) \in Nat
  BY TagProperties DEF Bytes
<1>4. CASE t.num > Len(Fields[T])
  <2>1. \A x : Field(T, x, b, UnmarshalOf) = UnknownField(x, b)
    BY <1>2, <1>4, FieldCases
  <2>2. \A x : UnknownField(x, b) = {[m |-> Keep(x, SubSeq(b, 1, e)), n |-> e] :
                                        e \in {y \in skipMsg(b) : y <= Len(b)}}
    BY DEF UnknownField, Keep
  <2>3. PICK e \in skipMsg(b) : e <= Len(b) /\ r = [m |-> Keep(m, SubSeq(b, 1, e)), n |-> e]
    BY <2>1, <2>2
  <2>4. skipMsg(b) = {e}
    <3>1. e \in Nat
      BY <2>3, SkipLocal DEF skipMsg
    <3>2. Agree(b, b, e)
      BY <1>3, <2>3, <3>1, AgreeSame
    <3> QED
      BY <2>3, <3>2, SkipLocal DEF skipMsg
  <2>5. r.n = e
    BY <2>3
  <2>6. {y \in skipMsg(b) : y <= Len(b)} = {e}
    BY <2>3, <2>4
  <2>7. \A x : Field(T, x, b, UnmarshalOf) = {[m |-> Keep(x, SubSeq(b, 1, e)), n |-> e]}
    BY <2>1, <2>2, <2>6
  <2> QED
    BY <2>5, <2>7 DEF KeepsField
<1>5. CASE t.num \in 1 .. Len(Fields[T]) /\ KindOf(T, t.num) \in Scalars
  <2>1. r \in VarintField(T, m, t, b)
    BY <1>2, <1>5, FieldCases
  <2>5. PICK u : r = [m |-> [m EXCEPT ![NameOf(T, t.num)] = FromUint64(KindOf(T, t.num), u.v)], n |-> t.n + u.n]
    BY <2>1 DEF VarintField
  <2>2. PICK v : r.m = [m EXCEPT ![NameOf(T, t.num)] = v]
    BY <2>5
  <2>3. NameOf(T, t.num) # "unrecognized"
    BY <1>5, FieldTable
  <2>4. m = [x \in Names(T) |-> m[x]] /\ "unrecognized" \in Names(T)
    BY MsgTable DEF Names
  <2> QED
    BY <2>2, <2>3, <2>4
<1>6. CASE t.num \in 1 .. Len(Fields[T]) /\ KindOf(T, t.num) \in Kinds \ Scalars
  <2>1. r \in DelimitedField(T, m, t, b, UnmarshalOf)
    BY <1>2, <1>6, FieldCases
  <2>5. PICK l : r \in Body(T, m, t, l, b, UnmarshalOf)
    BY <2>1 DEF DelimitedField
  <2>6. PICK u : r = [m |-> [m EXCEPT ![NameOf(T, t.num)] = u], n |-> t.n + l.n + l.v]
    BY <2>5 DEF Body
  <2>2. PICK v : r.m = [m EXCEPT ![NameOf(T, t.num)] = v]
    BY <2>6
  <2>3. NameOf(T, t.num) # "unrecognized"
    BY <1>6, FieldTable
  <2>4. m = [x \in Names(T) |-> m[x]] /\ "unrecognized" \in Names(T)
    BY MsgTable DEF Names
  <2> QED
    BY <2>2, <2>3, <2>4
<1> QED
  BY <1>4, <1>5, <1>6, TagCases

\* A field that is kept is kept, alone, in every message.
LEMMA KeptField ==
    ASSUME NEW T \in Types, NEW b \in Bytes, NEW n \in 1 .. Len(b), KeepsField(T, b, n)
    PROVE  SubSeq(b, 1, n) \in UnknownTo(T)
<1> DEFINE c == SubSeq(b, 1, n)
<1>1. Len(b) \in Nat /\ n \in Nat /\ n \in 0 .. Len(b)
  BY DEF Bytes
<1>2. c \in Bytes /\ Len(c) = n
  BY <1>1, SplitBytes
<1>3. Agree(b, c, n)
  BY <1>1, <1>2 DEF Agree, Bytes
<1>4. c # <<>>
  BY <1>1, <1>2
<1> HIDE DEF c
<1>5. ASSUME NEW m \in Msg(T) PROVE UnmarshalOf[<<T, m, c>>] = {Keep(m, c)}
  <2> DEFINE r == [m |-> Keep(m, c), n |-> n]
  <2>1. Field(T, m, b, UnmarshalOf) = {r}
    BY DEF KeepsField, c
  <2>2. r.m = Keep(m, c) /\ r.n = n
    OBVIOUS
  <2> HIDE DEF r
  <2>3. Field(T, m, c, UnmarshalOf) = {r}
    BY <1>2, <1>3, <2>1, <2>2, RoundLocal
  <2>4. UnmarshalOf[<<T, m, c>>] = UnmarshalOf[<<T, Keep(m, c), Drop(c, n)>>]
    BY <1>2, <1>4, <2>2, <2>3, UnmarshalRound
  <2>5. Drop(c, n) = <<>>
    BY <1>2, DropAll DEF Bytes
  <2> QED
    BY <1>2, <2>4, <2>5, KeepProperties, UnmarshalEmpty
<1>6. c \in UnknownTo(T)
  BY <1>2, <1>5 DEF UnknownTo
<1> QED
  BY <1>6 DEF c

\* Unknown fields in a row are unknown fields.
LEMMA UnknownConcat ==
    ASSUME NEW T \in Types
    PROVE  /\ <<>> \in UnknownTo(T)
           /\ \A u, v \in UnknownTo(T) : u \o v \in UnknownTo(T)
<1>1. <<>> \in UnknownTo(T)
  BY KeepNothing, UnmarshalEmpty DEF UnknownTo, Bytes
<1>2. ASSUME NEW u \in UnknownTo(T), NEW v \in UnknownTo(T) PROVE u \o v \in UnknownTo(T)
  <2>1. u \in Bytes /\ v \in Bytes /\ u \o v \in Bytes
    BY BytesConcat DEF UnknownTo
  <2>2. ASSUME NEW m \in Msg(T) PROVE UnmarshalOf[<<T, m, u \o v>>] = {Keep(m, u \o v)}
    <3>1. Keep(m, u) \in UnmarshalOf[<<T, m, u>>] /\ Keep(m, u) \in Msg(T)
      BY <2>1, KeepProperties DEF UnknownTo
    <3>2. UnmarshalOf[<<T, m, u \o v>>] = UnmarshalOf[<<T, Keep(m, u), v>>]
      BY <2>1, <3>1, DecodeInParts
    <3>3. UnmarshalOf[<<T, Keep(m, u), v>>] = {Keep(Keep(m, u), v)}
      BY <3>1 DEF UnknownTo
    <3> QED
      BY <2>1, <3>2, <3>3, KeepTwice
  <2> QED
    BY <2>1, <2>2 DEF UnknownTo
<1> QED
  BY <1>1, <1>2

\* Keeping adds as many bytes as are kept.
LEMMA KeepLength ==
    ASSUME NEW T \in Types, NEW m \in Msg(T), NEW u \in Bytes
    PROVE  /\ Len(m.unrecognized) \in Nat /\ Len(u) \in Nat
           /\ Len(Keep(m, u).unrecognized) = Len(m.unrecognized) + Len(u)
<1>1. m.unrecognized \in Bytes /\ Keep(m, u).unrecognized = m.unrecognized \o u
  BY KeepProperties
<1>2. /\ Len(m.unrecognized \o u) = Len(m.unrecognized) + Len(u)
      /\ Len(m.unrecognized) \in Nat /\ Len(u) \in Nat
  BY <1>1, BytesConcat
<1> QED
  BY <1>1, <1>2

AddsAtMost(T, m, b, p) ==
    /\ p \in Msg(T)
    /\ Len(p.unrecognized) <= Len(m.unrecognized) + Len(b)
    /\ Len(p.unrecognized) = Len(m.unrecognized) + Len(b) => b \in UnknownTo(T)

\* Decoding adds at most its bytes to the unrecognized ones; if it adds them all,
\* it keeps them in every message.
LEMMA UnknownLength ==
    ASSUME NEW T \in Types, NEW m \in Msg(T), NEW b \in Bytes, NEW p \in UnmarshalOf[<<T, m, b>>]
    PROVE  /\ p \in Msg(T) /\ p.unrecognized \in Bytes
           /\ Len(p.unrecognized) <= Len(m.unrecognized) + Len(b)
           /\ Len(p.unrecognized) = Len(m.unrecognized) + Len(b) => b \in UnknownTo(T)
<1> DEFINE Good == {n \in Nat : \A x \in Msg(T) : \A d \in Bytes : Len(d) = n =>
                        \A q \in UnmarshalOf[<<T, x, d>>] : AddsAtMost(T, x, d, q)}
<1>1. \A x \in Msg(T) : x.unrecognized \in Bytes /\ Len(x.unrecognized) \in Nat
  BY MsgField DEF Bytes
<1>2. ASSUME NEW n \in Nat, \A i \in Nat : i < n => i \in Good PROVE n \in Good
  <2> SUFFICES ASSUME NEW x \in Msg(T), NEW d \in Bytes, Len(d) = n, NEW q \in UnmarshalOf[<<T, x, d>>]
               PROVE  AddsAtMost(T, x, d, q)
    OBVIOUS
  <2>1. CASE d = <<>>
    <3>1. q = x
      BY <2>1, UnmarshalEmpty
    <3> QED
      BY <1>1, <2>1, <3>1, UnknownConcat DEF AddsAtMost
  <2>2. CASE d # <<>>
    <3>1. PICK r \in Field(T, x, d, UnmarshalOf) : q \in UnmarshalOf[<<T, r.m, Drop(d, r.n)>>]
      BY <2>2, UnmarshalMember
    <3>2. r.m \in Msg(T) /\ r.n \in 1 .. Len(d) /\ Len(d) \in Nat /\ r.n \in Nat
      BY UnmarshalTyped, FieldProperties DEF Bytes
    <3> DEFINE s == SubSeq(d, 1, r.n)
               e == Drop(d, r.n)
    <3>3. s \in Bytes /\ Len(s) = r.n /\ e \in Bytes /\ Len(e) = Len(d) - r.n /\ d = s \o e
      <4>1. r.n \in 0 .. Len(d)
        BY <3>2
      <4> QED
        BY <4>1, SplitBytes
    <3>4. q \in UnmarshalOf[<<T, r.m, e>>]
      BY <3>1
    <3> HIDE DEF s, e
    <3>5. Len(e) \in Nat /\ Len(e) < n /\ Len(s) \in Nat /\ Len(d) = Len(s) + Len(e) /\ Len(s) > 0
      BY <3>2, <3>3
    <3>6. AddsAtMost(T, r.m, e, q)
      <4>1. Len(e) \in Good
        BY <1>2, <3>5
      <4>2. \A y \in Msg(T) : \A f \in Bytes : Len(f) = Len(e) =>
                \A z \in UnmarshalOf[<<T, y, f>>] : AddsAtMost(T, y, f, z)
        BY <4>1
      <4> QED
        BY <3>2, <3>3, <3>4, <4>2
    <3> HIDE DEF Good
    <3> DEFINE lq == Len(q.unrecognized)
               lr == Len(r.m.unrecognized)
               lx == Len(x.unrecognized)
               ls == Len(s)
               le == Len(e)
               ld == Len(d)
    <3>9. q \in Msg(T) /\ lq \in Nat /\ lx \in Nat /\ lr \in Nat /\ lq <= lr + le
      BY <1>1, <3>2, <3>6 DEF AddsAtMost
    <3>10. ls \in Nat /\ le \in Nat /\ ld = ls + le /\ ls > 0
      BY <3>5
    <3>7. CASE r.m.unrecognized = x.unrecognized
      <4>1. lr = lx
        BY <3>7
      <4> HIDE DEF lq, lr, lx, ls, le, ld
      <4>2. lq <= lx + ld /\ lq # lx + ld
        BY <3>9, <3>10, <4>1
      <4> QED
        BY <3>9, <4>2 DEF AddsAtMost, lq, lx, ld
    <3>8. CASE KeepsField(T, d, r.n)
      <4>1. r.m = Keep(x, s)
        <5>1. Field(T, x, d, UnmarshalOf) = {[m |-> Keep(x, s), n |-> r.n]}
          BY <3>8 DEF KeepsField, s
        <5>2. r = [m |-> Keep(x, s), n |-> r.n]
          BY <3>1, <5>1
        <5> QED
          BY <5>2
      <4>2. lr = lx + ls
        BY <3>3, <4>1, KeepLength
      <4>3. s \in UnknownTo(T)
        BY <3>2, <3>8, KeptField DEF s
      <4> HIDE DEF lq, lr, lx, ls, le, ld
      <4>4. lq <= lx + ld
        BY <3>9, <3>10, <4>2
      <4>5. ASSUME lq = lx + ld PROVE d \in UnknownTo(T)
        <5>1. lq = lr + le
          BY <3>9, <3>10, <4>2, <4>5
        <5>2. e \in UnknownTo(T)
          BY <3>6, <5>1 DEF AddsAtMost, lq, lr, le
        <5> QED
          BY <3>3, <4>3, <5>2, UnknownConcat
      <4> QED
        BY <3>9, <4>4, <4>5 DEF AddsAtMost, lq, lx, ld
    <3> QED
      BY <3>1, <3>7, <3>8, FieldSorts
  <2> QED
    BY <2>1, <2>2
<1> HIDE DEF Good
<1>3. Len(b) \in Good
  <2>1. Nat \subseteq Good
    BY <1>2, StrongInduction
  <2> QED
    BY <2>1 DEF Bytes
<1>4. AddsAtMost(T, m, b, p)
  BY <1>3 DEF Good
<1> QED
  BY <1>1, <1>4 DEF AddsAtMost

\* Bytes that are kept are kept, or refused, when some of them are missing.
LEMMA UnknownPrefix ==
    ASSUME NEW T \in Types, NEW u \in UnknownTo(T), NEW n \in 0 .. Len(u), NEW m \in Msg(T),
           NEW p \in UnmarshalOf[<<T, m, SubSeq(u, 1, n)>>]
    PROVE  p = Keep(m, SubSeq(u, 1, n))
<1> DEFINE c == SubSeq(u, 1, n)
           d == Drop(u, n)
<1>1. u \in Bytes
  BY DEF UnknownTo
<1>2. c \in Bytes /\ d \in Bytes /\ Len(c) = n /\ Len(d) = Len(u) - n /\ u = c \o d
  BY <1>1, SplitBytes
<1>14. Len(u) \in Nat
  BY <1>1 DEF Bytes
<1>3. p \in UnmarshalOf[<<T, m, c>>]
  OBVIOUS
<1> HIDE DEF c, d
<1>4. p \in Msg(T) /\ p.unrecognized \in Bytes /\ m.unrecognized \in Bytes
  BY <1>2, <1>3, UnknownLength, MsgField
<1>5. UnmarshalOf[<<T, m, u>>] = UnmarshalOf[<<T, p, d>>]
  BY <1>2, <1>3, DecodeInParts
<1>6. Keep(m, u) \in UnmarshalOf[<<T, p, d>>]
  BY <1>5 DEF UnknownTo
<1>7. Len(Keep(m, u).unrecognized) <= Len(p.unrecognized) + Len(d)
  BY <1>2, <1>4, <1>6, UnknownLength
<1>8. Len(Keep(m, u).unrecognized) = Len(m.unrecognized) + Len(u)
  BY <1>1, KeepLength
<1>9. Len(p.unrecognized) <= Len(m.unrecognized) + Len(c)
  BY <1>2, <1>3, UnknownLength
<1>10. Len(p.unrecognized) \in Nat /\ Len(m.unrecognized) \in Nat
  BY <1>4 DEF Bytes
<1>11. Len(p.unrecognized) = Len(m.unrecognized) + Len(c)
  <2> DEFINE lp == Len(p.unrecognized)
             lm == Len(m.unrecognized)
             lc == Len(c)
             ld == Len(d)
             lu == Len(u)
  <2>1. lp \in Nat /\ lm \in Nat /\ lc \in Nat /\ ld \in Nat /\ lu = lc + ld
    BY <1>2, <1>10, <1>14
  <2>2. lm + lu <= lp + ld /\ lp <= lm + lc
    BY <1>7, <1>8, <1>9
  <2> HIDE DEF lp, lm, lc, ld, lu
  <2>3. lp = lm + lc
    BY <2>1, <2>2
  <2> QED
    BY <2>3 DEF lp, lm, lc
<1>12. c \in UnknownTo(T)
  BY <1>2, <1>3, <1>11, UnknownLength
<1>13. p = Keep(m, c)
  BY <1>3, <1>12 DEF UnknownTo
<1> QED
  BY <1>13 DEF c

-----------------------------------------------------------------------------
(* What is written is read. *)

\* A tag is read as it was written.
LEMMA TagEncode ==
    ASSUME NEW k \in 1 .. 6, NEW wt \in {0, 2}, NEW c \in Bytes
    PROVE  LET b == <<8 * k + wt>> \o c
           IN  /\ b \in Bytes /\ b # <<>> /\ Len(b) = 1 + Len(c)
               /\ Tag(b) = {[num |-> k, wt |-> wt, n |-> 1]}
               /\ Drop(b, 1) = c
<1> DEFINE u == 8 * k + wt
           b == <<u>> \o c
<1>1. u \in 0 .. 127 /\ u \div 8 = k /\ u % 8 = wt
  <2>1. u \in 0 .. 127
    OBVIOUS
  <2>2. wt \in 0 .. 7 /\ k \in Nat
    OBVIOUS
  <2>3. \A i \in 0 .. 7 : (8 * k + i) \div 8 = k /\ (8 * k + i) % 8 = i
    OBVIOUS
  <2> QED
    BY <2>1, <2>2, <2>3
<1> HIDE DEF u
<1>2. u \in 0 .. W64 - 1 /\ u \in Nat /\ u < 128
  BY <1>1, Widths
<1>3. encodeVarintMsg[u] = <<u>> /\ sovMsg(u) = 1
  BY <1>2, EncodeVarintDef, SovDef
<1>4. Varint(b) = {[v |-> u, n |-> 1]}
  BY <1>2, <1>3, VarintEncode
<1>5. Signed(W32, k) = k
  <2>1. W32 \div 2 \in Nat \ {0} /\ W32 = 2 * (W32 \div 2) /\ k \in Nat /\ k < W32 \div 2
    BY Widths
  <2>2. Signed(2 * (W32 \div 2), k) = k
    BY <2>1, SignedProperties
  <2> QED
    BY <2>1, <2>2
<1>6. Tag(b) = {[num |-> k, wt |-> wt, n |-> 1]}
  <2> DEFINE tag(w) == [num |-> Signed(W32, w.v \div 8), wt |-> w.v % 8, n |-> w.n]
             x == [num |-> k, wt |-> wt, n |-> 1]
  <2>1. Tag(b) = {t \in {tag(w) : w \in Varint(b)} : t.wt # 4 /\ t.num > 0}
    BY DEF Tag
  <2>2. tag([v |-> u, n |-> 1]) = x
    BY <1>1, <1>5
  <2>3. x.wt # 4 /\ x.num > 0
    OBVIOUS
  <2> HIDE DEF tag, x, b
  <2>4. {tag(w) : w \in Varint(b)} = {x}
    BY <1>3, <1>4, <2>2
  <2>5. Tag(b) = {x}
    BY <2>1, <2>3, <2>4
  <2> QED
    BY <2>5 DEF x
<1>7. <<u>> \in Bytes /\ Len(<<u>>) = 1
  BY <1>1 DEF Bytes, Byte
<1>8. b \in Bytes /\ b # <<>> /\ Len(b) = 1 + Len(c)
  BY <1>7, BytesConcat
<1>9. Drop(b, 1) = c
  BY <1>7, DropAll DEF Bytes
<1> QED
  BY <1>6, <1>8, <1>9 DEF u

\* A field with an integer.
LEMMA ScalarField ==
    ASSUME NEW T \in Types, NEW m \in Msg(T), NEW k \in 1 .. Len(Fields[T]), KindOf(T, k) \in Scalars,
           NEW v \in Value(KindOf(T, k))
    PROVE  LET b == <<8 * k>> \o encodeVarintMsg[ToUint64(KindOf(T, k), v)]
           IN  /\ b \in Bytes /\ b # <<>>
               /\ Field(T, m, b, UnmarshalOf)
                    = {[m |-> [m EXCEPT ![NameOf(T, k)] = v], n |-> Len(b)]}
<1> DEFINE u == ToUint64(KindOf(T, k), v)
           c == encodeVarintMsg[u]
           b == <<8 * k>> \o c
           t == [num |-> k, wt |-> 0, n |-> 1]
           f(w) == [m |-> [m EXCEPT ![NameOf(T, k)] = FromUint64(KindOf(T, k), w.v)], n |-> 1 + w.n]
<1>1. u \in 0 .. W64 - 1 /\ FromUint64(KindOf(T, k), u) = v
  BY Uint64RoundTrip
<1> HIDE DEF u
<1>2. c \in Bytes /\ Len(c) = sovMsg(u) /\ Varint(c) = {[v |-> u, n |-> sovMsg(u)]}
  <2>1. <<>> \in Bytes
    BY DEF Bytes
  <2>2. c \in Bytes /\ Len(c) = sovMsg(u) /\ Varint(c \o <<>>) = {[v |-> u, n |-> sovMsg(u)]}
    BY <1>1, <2>1, VarintEncode
  <2>3. c \o <<>> = c
    BY <2>2, BytesConcat
  <2> QED
    BY <2>2, <2>3
<1> HIDE DEF c
<1>3. b \in Bytes /\ b # <<>> /\ Len(b) = 1 + Len(c) /\ Tag(b) = {t} /\ Drop(b, 1) = c
  <2>1. k \in 1 .. 6
    BY FieldNumber
  <2>2. 8 * k + 0 = 8 * k
    BY <2>1
  <2>3. LET d == <<8 * k + 0>> \o c
        IN  /\ d \in Bytes /\ d # <<>> /\ Len(d) = 1 + Len(c)
            /\ Tag(d) = {[num |-> k, wt |-> 0, n |-> 1]}
            /\ Drop(d, 1) = c
    BY <1>2, <2>1, TagEncode
  <2> QED
    BY <2>2, <2>3
<1>4. t.num = k /\ t.wt = 0 /\ t.n = 1
  OBVIOUS
<1>5. VarintField(T, m, t, b) = {f(w) : w \in Varint(c)}
  BY <1>3 DEF VarintField
<1>6. f([v |-> u, n |-> sovMsg(u)]) = [m |-> [m EXCEPT ![NameOf(T, k)] = v], n |-> Len(b)]
  BY <1>1, <1>2, <1>3
<1> HIDE DEF f, b, t
<1>7. VarintField(T, m, t, b) = {[m |-> [m EXCEPT ![NameOf(T, k)] = v], n |-> Len(b)]}
  BY <1>2, <1>5, <1>6
<1>8. Field(T, m, b, UnmarshalOf) = VarintField(T, m, t, b)
  BY <1>3, <1>4, FieldCases
<1> QED
  BY <1>3, <1>7, <1>8 DEF b, c, u

\* The second of two parts.
LEMMA SecondPart ==
    ASSUME NEW a \in Bytes, NEW b \in Bytes
    PROVE  SubSeq(a \o b, Len(a) + 1, Len(a) + Len(b)) = b
<1>1. Drop(a \o b, Len(a)) = b
  BY DropAll DEF Bytes
<1>2. Len(a \o b) = Len(a) + Len(b)
  BY BytesConcat
<1> QED
  BY <1>1, <1>2 DEF Drop

\* A field with a length.
LEMMA DelimitedIsField ==
    ASSUME NEW T \in Types, NEW m \in Msg(T), NEW k \in 1 .. Len(Fields[T]),
           KindOf(T, k) \in Kinds \ Scalars, NEW body \in Bytes, Len(body) < W64 \div 2
    PROVE  LET b == Delimited(k, body)
           IN  /\ b \in Bytes /\ b # <<>>
               /\ Field(T, m, b, UnmarshalOf)
                    = {[m |-> [m EXCEPT ![NameOf(T, k)] = v], n |-> Len(b)] :
                            v \in Received(KindOf(T, k), m[NameOf(T, k)], body, UnmarshalOf)}
<1> DEFINE n == Len(body)
           e == encodeVarintMsg[n]
           c == e \o body
           h == <<8 * k + 2>>
           b == h \o c
           t == [num |-> k, wt |-> 2, n |-> 1]
           l == [v |-> n, n |-> sovMsg(n)]
           f(v) == [m |-> [m EXCEPT ![NameOf(T, k)] = v], n |-> Len(b)]
<1>1. n \in Nat
  BY DEF Bytes
<1>2. e \in Bytes /\ Len(e) = sovMsg(n) /\ sovMsg(n) \in Nat
  BY <1>1, EncodeLen, SovDef
<1>3. Length(c) = {l}
  BY <1>1, LengthEncode
<1>4. k \in 1 .. 6
  BY FieldNumber
<1>5. h \in Bytes /\ Len(h) = 1
  BY <1>4 DEF Bytes, Byte
<1> HIDE DEF e
<1>6. c \in Bytes /\ Len(c) = sovMsg(n) + n
  <2>1. e \o body \in Bytes /\ Len(e \o body) = Len(e) + Len(body)
    BY <1>2, BytesConcat
  <2> QED
    BY <1>2, <2>1
<1> HIDE DEF n
<1>7. Delimited(k, body) = b
  <2>1. Delimited(k, body) = h \o e \o body
    BY DEF Delimited, e, n
  <2> HIDE DEF h
  <2> QED
    BY <1>2, <1>5, <2>1, BytesAssociative
<1> HIDE DEF c, l
<1>8. b \in Bytes /\ b # <<>> /\ Len(b) = 1 + Len(c) /\ Tag(b) = {t} /\ Drop(b, 1) = c
  BY <1>4, <1>6, TagEncode
<1>9. SubSeq(b, 1 + sovMsg(n) + 1, 1 + sovMsg(n) + n) = body
  <2> HIDE DEF h
  <2> DEFINE a == h \o e
  <2>1. a \in Bytes /\ Len(a) = 1 + sovMsg(n)
    <3>1. h \o e \in Bytes /\ Len(h \o e) = Len(h) + Len(e)
      BY <1>2, <1>5, BytesConcat
    <3> QED
      BY <1>2, <1>5, <3>1
  <2>2. b = a \o body
    BY <1>2, <1>5, BytesAssociative DEF c
  <2> HIDE DEF a, b
  <2>3. SubSeq(a \o body, Len(a) + 1, Len(a) + Len(body)) = body
    BY <2>1, SecondPart
  <2> QED
    BY <2>1, <2>2, <2>3 DEF n
<1> HIDE DEF b
<1>10. t.num = k /\ t.wt = 2 /\ t.n = 1 /\ l.v = n /\ l.n = sovMsg(n)
  BY DEF l
<1>11. 1 + sovMsg(n) + n = Len(b) /\ 1 + sovMsg(n) + n <= Len(b)
  BY <1>1, <1>2, <1>6, <1>8 DEF n
<1> HIDE DEF t
<1>12. Body(T, m, t, l, b, UnmarshalOf) =
            {f(v) : v \in Received(KindOf(T, k), m[NameOf(T, k)], body, UnmarshalOf)}
  BY <1>9, <1>10, <1>11 DEF Body
<1>13. {i \in Length(Drop(b, t.n)) : t.wt = 2 /\ t.n + i.n + i.v <= Len(b)} = {l}
  BY <1>3, <1>8, <1>10, <1>11
<1>14. DelimitedField(T, m, t, b, UnmarshalOf) = Body(T, m, t, l, b, UnmarshalOf)
  BY <1>13 DEF DelimitedField
<1>15. Field(T, m, b, UnmarshalOf) = DelimitedField(T, m, t, b, UnmarshalOf)
  BY <1>8, <1>10, FieldCases
<1> QED
  BY <1>7, <1>8, <1>12, <1>14, <1>15

\* Unmarshal of one field, and nothing behind it.
LEMMA OneRound ==
    ASSUME NEW T \in Types, NEW m \in Msg(T), NEW b \in Bytes, b # <<>>, NEW p \in Msg(T),
           Field(T, m, b, UnmarshalOf) = {[m |-> p, n |-> Len(b)]}
    PROVE  UnmarshalOf[<<T, m, b>>] = {p}
<1>1. UnmarshalOf[<<T, m, b>>] = UnmarshalOf[<<T, p, Drop(b, Len(b))>>]
  <2> DEFINE r == [m |-> p, n |-> Len(b)]
  <2>1. r.m = p /\ r.n = Len(b) /\ Field(T, m, b, UnmarshalOf) = {r}
    OBVIOUS
  <2> HIDE DEF r
  <2> QED
    BY <2>1, UnmarshalRound
<1>2. Drop(b, Len(b)) = <<>>
  BY DropAll DEF Bytes
<1> QED
  BY <1>1, <1>2, UnmarshalEmpty

\* Unmarshal of one string or message.
LEMMA OneDelimited ==
    ASSUME NEW T \in Types, NEW m \in Msg(T), NEW k \in 1 .. Len(Fields[T]),
           KindOf(T, k) \in Kinds \ Scalars, NEW body \in Bytes, Len(body) < W64 \div 2,
           NEW v \in Value(KindOf(T, k)),
           Received(KindOf(T, k), m[NameOf(T, k)], body, UnmarshalOf) = {v}
    PROVE  UnmarshalOf[<<T, m, Delimited(k, body)>>] = {[m EXCEPT ![NameOf(T, k)] = v]}
<1> DEFINE b == Delimited(k, body)
           p == [m EXCEPT ![NameOf(T, k)] = v]
<1>1. /\ b \in Bytes /\ b # <<>>
      /\ Field(T, m, b, UnmarshalOf)
            = {[m |-> [m EXCEPT ![NameOf(T, k)] = w], n |-> Len(b)] :
                    w \in Received(KindOf(T, k), m[NameOf(T, k)], body, UnmarshalOf)}
  BY DelimitedIsField
<1>2. p \in Msg(T)
  BY MsgExcept
<1>3. Field(T, m, b, UnmarshalOf) = {[m |-> p, n |-> Len(b)]}
  BY <1>1
<1> HIDE DEF b, p
<1> QED
  <2>1. UnmarshalOf[<<T, m, b>>] = {p}
    BY <1>1, <1>2, <1>3, OneRound
  <2> QED
    BY <2>1 DEF b, p

\* A field that is set to what it has.
LEMMA SetSame ==
    ASSUME NEW T \in Types, NEW m \in Msg(T), NEW k \in 1 .. Len(Fields[T]), NEW v, v = m[NameOf(T, k)]
    PROVE  [m EXCEPT ![NameOf(T, k)] = v] = m
<1>1. v \in Value(KindOf(T, k))
  BY MsgField
<1> DEFINE p == [m EXCEPT ![NameOf(T, k)] = v]
<1>2. /\ p \in Msg(T) /\ p.unrecognized = m.unrecognized
      /\ p[NameOf(T, k)] = v
      /\ \A j \in 1 .. Len(Fields[T]) : j # k => p[NameOf(T, j)] = m[NameOf(T, j)]
  BY <1>1, MsgExcept
<1> HIDE DEF p
<1>3. \A j \in 1 .. Len(Fields[T]) : p[NameOf(T, j)] = m[NameOf(T, j)]
  BY <1>2
<1>4. p = m
  BY <1>2, <1>3, MsgEqual
<1> QED
  BY <1>4 DEF p

\* A list of strings is written string by string.
LEMMA ConcatTail ==
    ASSUME NEW num \in 1 .. 6, NEW w \in Seq(Bytes), w # <<>>
    PROVE  /\ w[1] \in Bytes /\ Tail(w) \in Seq(Bytes) /\ Len(Tail(w)) = Len(w) - 1
           /\ Concat[[i \in DOMAIN w |-> Delimited(num, w[i])]]
                = Delimited(num, w[1]) \o Concat[[i \in DOMAIN Tail(w) |-> Delimited(num, Tail(w)[i])]]
<1> DEFINE s == [i \in DOMAIN w |-> Delimited(num, w[i])]
           t == [i \in DOMAIN Tail(w) |-> Delimited(num, Tail(w)[i])]
<1>1. w[1] \in Bytes /\ Tail(w) \in Seq(Bytes) /\ Len(Tail(w)) = Len(w) - 1 /\ Len(w) \in Nat \ {0}
      /\ \A i \in 1 .. Len(Tail(w)) : Tail(w)[i] = w[i + 1]
  OBVIOUS
<1>2. s \in Seq(Bytes) /\ Len(s) = Len(w) /\ \A i \in 1 .. Len(w) : s[i] = Delimited(num, w[i])
  BY StringsPieces
<1>3. t \in Seq(Bytes) /\ Len(t) = Len(Tail(w))
      /\ \A i \in 1 .. Len(Tail(w)) : t[i] = Delimited(num, Tail(w)[i])
  BY <1>1, StringsPieces
<1> HIDE DEF s, t
<1>4. s # <<>> /\ s[1] = Delimited(num, w[1])
  BY <1>1, <1>2
<1>5. Tail(s) = t
  <2>1. Tail(s) \in Seq(Bytes) /\ Len(Tail(s)) = Len(t) /\ \A i \in 1 .. Len(t) : Tail(s)[i] = s[i + 1]
    BY <1>1, <1>2, <1>3, <1>4
  <2>2. \A i \in 1 .. Len(t) : Tail(s)[i] = t[i]
    BY <1>1, <1>2, <1>3, <2>1
  <2> QED
    BY <1>3, <2>1, <2>2, SeqEqual
<1>6. Concat[s] = s[1] \o Concat[Tail(s)]
  BY <1>2, <1>4, ConcatDef
<1> QED
  BY <1>1, <1>4, <1>5, <1>6 DEF s, t

\* The pieces of a list of strings w.
StringsBytes(num, w) == Concat[[i \in DOMAIN w |-> Delimited(num, w[i])]]

\* The list behind the one that is there.
Appended(T, m, k, w) == [m EXCEPT ![NameOf(T, k)] = m[NameOf(T, k)] \o w]

\* The same, with the lengths.
LEMMA StringsBytesRule ==
    ASSUME NEW num \in 1 .. 6
    PROVE  /\ StringsBytes(num, <<>>) = <<>>
           /\ \A w \in Seq(Bytes) : StringsBytes(num, w) \in Bytes
           /\ \A w \in Seq(Bytes) : w # <<>> =>
                /\ w[1] \in Bytes /\ Tail(w) \in Seq(Bytes) /\ Len(Tail(w)) = Len(w) - 1
                /\ Delimited(num, w[1]) \in Bytes
                /\ StringsBytes(num, w) = Delimited(num, w[1]) \o StringsBytes(num, Tail(w))
                /\ Len(w[1]) < Len(StringsBytes(num, w))
                /\ Len(StringsBytes(num, Tail(w))) < Len(StringsBytes(num, w))
<1>1. ASSUME NEW w \in Seq(Bytes) PROVE StringsBytes(num, w) \in Bytes
  BY StringsPieces, ConcatDef DEF StringsBytes
<1>2. StringsBytes(num, <<>>) = <<>>
  <2>1. <<>> \in Seq(Bytes) /\ [i \in DOMAIN <<>> |-> Delimited(num, <<>>[i])] = <<>>
    OBVIOUS
  <2> QED
    BY <2>1, ConcatDef DEF StringsBytes
<1>3. ASSUME NEW w \in Seq(Bytes), w # <<>>
      PROVE  /\ w[1] \in Bytes /\ Tail(w) \in Seq(Bytes) /\ Len(Tail(w)) = Len(w) - 1
             /\ Delimited(num, w[1]) \in Bytes
             /\ StringsBytes(num, w) = Delimited(num, w[1]) \o StringsBytes(num, Tail(w))
             /\ Len(w[1]) < Len(StringsBytes(num, w))
             /\ Len(StringsBytes(num, Tail(w))) < Len(StringsBytes(num, w))
  <2>1. /\ w[1] \in Bytes /\ Tail(w) \in Seq(Bytes) /\ Len(Tail(w)) = Len(w) - 1
        /\ StringsBytes(num, w) = Delimited(num, w[1]) \o StringsBytes(num, Tail(w))
    BY <1>3, ConcatTail DEF StringsBytes
  <2> DEFINE d == Delimited(num, w[1])
             r == StringsBytes(num, Tail(w))
             n == Len(w[1])
  <2>2. d \in Bytes /\ Len(d) = 1 + n + sovMsg(n)
    BY <2>1, DelimitedProperties
  <2>3. r \in Bytes
    BY <1>1, <2>1
  <2>4. n \in Nat /\ sovMsg(n) \in Nat
    <3>1. n \in Nat
      BY <2>1 DEF Bytes
    <3> QED
      BY <3>1, SovDef
  <2> HIDE DEF d, r
  <2>5. Len(d \o r) = Len(d) + Len(r) /\ Len(r) \in Nat
    BY <2>2, <2>3, BytesConcat
  <2>6. n < Len(d \o r) /\ Len(r) < Len(d \o r)
    <3> HIDE DEF n
    <3> QED
      BY <2>2, <2>4, <2>5
  <2> QED
    BY <2>1, <2>2, <2>6 DEF d, r, n
<1> QED
  BY <1>1, <1>2, <1>3

\* Appending one by one.
LEMMA Appending ==
    ASSUME NEW S, NEW old \in Seq(S), NEW w \in Seq(S)
    PROVE  /\ old \o w \in Seq(S)
           /\ old \o <<>> = old
           /\ w # <<>> => Append(old, w[1]) \in Seq(S) /\ Append(old, w[1]) \o Tail(w) = old \o w
<1>1. CASE w = <<>>
  BY <1>1
<1>2. CASE w # <<>>
  <2>1. Append(old, w[1]) = old \o <<w[1]>> /\ w = <<w[1]>> \o Tail(w)
    BY <1>2
  <2>2. <<w[1]>> \in Seq(S) /\ Tail(w) \in Seq(S)
    BY <1>2
  <2>3. (old \o <<w[1]>>) \o Tail(w) = old \o (<<w[1]>> \o Tail(w))
    <3> DEFINE h == <<w[1]>>
               t == Tail(w)
    <3>1. h \in Seq(S) /\ t \in Seq(S)
      BY <2>2
    <3> HIDE DEF h, t
    <3>2. (old \o h) \o t = old \o (h \o t)
      BY <3>1
    <3> QED
      BY <3>2 DEF h, t
  <2> QED
    BY <2>1, <2>2, <2>3
<1> QED
  BY <1>1, <1>2

\* Unmarshal of a list of strings appends them.
LEMMA StringsDecoded ==
    ASSUME NEW T \in Types, NEW m \in Msg(T), NEW k \in 1 .. Len(Fields[T]), KindOf(T, k) = "strings",
           NEW w \in Seq(Bytes), Len(StringsBytes(k, w)) < W64 \div 2
    PROVE  /\ Appended(T, m, k, w) \in Msg(T)
           /\ UnmarshalOf[<<T, m, StringsBytes(k, w)>>] = {Appended(T, m, k, w)}
<1> DEFINE Done(x, v) == UnmarshalOf[<<T, x, StringsBytes(k, v)>>] = {Appended(T, x, k, v)}
           Fits(v) == Len(StringsBytes(k, v)) < W64 \div 2
           Good == {n \in Nat : \A x \in Msg(T) : \A v \in Seq(Bytes) : Len(v) = n /\ Fits(v) => Done(x, v)}
           name == NameOf(T, k)
<1>1. k \in 1 .. 6
  BY FieldNumber
<1>2. ASSUME NEW x \in Msg(T), NEW v \in Seq(Bytes)
      PROVE  /\ x[name] \in Seq(Bytes) /\ x[name] \o v \in Value(KindOf(T, k))
             /\ Appended(T, x, k, v) \in Msg(T)
  <2>1. Value(KindOf(T, k)) = Seq(Bytes)
    BY ValueCases
  <2>2. x[name] \in Seq(Bytes) /\ x[name] \o v \in Value(KindOf(T, k))
    <3>1. x[name] \in Seq(Bytes)
      BY <2>1, MsgField
    <3>2. x[name] \o v \in Seq(Bytes)
      BY <3>1, Appending
    <3> QED
      BY <2>1, <3>1, <3>2
  <2> QED
    BY <2>2, MsgExcept DEF Appended
<1>3. ASSUME NEW n \in Nat, \A i \in Nat : i < n => i \in Good PROVE n \in Good
  <2> SUFFICES ASSUME NEW x \in Msg(T), NEW v \in Seq(Bytes), Len(v) = n, Fits(v) PROVE Done(x, v)
    OBVIOUS
  <2>1. CASE v = <<>>
    <3>1. x[name] \o v = x[name]
      BY <1>2, <2>1, Appending
    <3>2. Appended(T, x, k, v) = x
      BY <3>1, SetSame DEF Appended
    <3>3. StringsBytes(k, v) = <<>>
      BY <1>1, <2>1, StringsBytesRule
    <3> QED
      BY <3>2, <3>3, UnmarshalEmpty
  <2>2. CASE v # <<>>
    <3> DEFINE d == Delimited(k, v[1])
               t == Tail(v)
               z == Append(x[name], v[1])
               y == [x EXCEPT ![name] = z]
    <3>1. /\ v[1] \in Bytes /\ t \in Seq(Bytes) /\ Len(t) = Len(v) - 1
          /\ d \in Bytes
          /\ StringsBytes(k, v) = d \o StringsBytes(k, t)
          /\ Len(v[1]) < Len(StringsBytes(k, v))
          /\ Len(StringsBytes(k, t)) < Len(StringsBytes(k, v))
      BY <1>1, <2>2, StringsBytesRule
    <3>2. StringsBytes(k, v) \in Bytes /\ StringsBytes(k, t) \in Bytes
      BY <1>1, <3>1, StringsBytesRule
    <3>3. Len(v[1]) < W64 \div 2 /\ Fits(t)
      <4>1. Len(v[1]) \in Nat /\ Len(StringsBytes(k, v)) \in Nat /\ Len(StringsBytes(k, t)) \in Nat
        BY <3>1, <3>2 DEF Bytes
      <4> HIDE DEF t
      <4> QED
        BY <3>1, <4>1, Widths
    <3>4. z \in Value(KindOf(T, k)) /\ z \o t = x[name] \o v
      <4>1. x[name] \in Seq(Bytes)
        BY <1>2
      <4>2. z \in Seq(Bytes) /\ z \o t = x[name] \o v
        <5> DEFINE old == x[name]
        <5>1. old \in Seq(Bytes)
          BY <4>1
        <5> HIDE DEF old
        <5>2. v # <<>> => Append(old, v[1]) \in Seq(Bytes) /\ Append(old, v[1]) \o Tail(v) = old \o v
          BY <5>1, Appending
        <5> QED
          BY <2>2, <5>2 DEF old
      <4>3. Value(KindOf(T, k)) = Seq(Bytes)
        BY ValueCases
      <4> QED
        BY <4>2, <4>3
    <3>a. Received(KindOf(T, k), x[name], v[1], UnmarshalOf) = {z}
      BY ReceivedStrings
    <3> HIDE DEF z
    <3>5. UnmarshalOf[<<T, x, d>>] = {y}
      <4>1. KindOf(T, k) \in Kinds \ Scalars
        BY DEF Kinds, Scalars
      <4> DEFINE body == v[1]
      <4>2. body \in Bytes /\ Len(body) < W64 \div 2
            /\ Received(KindOf(T, k), x[name], body, UnmarshalOf) = {z}
        BY <3>1, <3>3, <3>a
      <4> HIDE DEF body, name, t, Fits, Done
      <4>3. ASSUME NEW i \in 1 .. Len(Fields[T]), KindOf(T, i) \in Kinds \ Scalars,
                   NEW c \in Value(KindOf(T, i)),
                   Received(KindOf(T, i), x[NameOf(T, i)], body, UnmarshalOf) = {c}
            PROVE  UnmarshalOf[<<T, x, Delimited(i, body)>>] = {[x EXCEPT ![NameOf(T, i)] = c]}
        BY <4>2, <4>3, OneDelimited
      <4> QED
        BY <3>4, <4>1, <4>2, <4>3 DEF body, name
    <3>6. y \in Msg(T) /\ y[name] = z
      BY <3>4, MsgExcept
    <3>7. UnmarshalOf[<<T, x, d \o StringsBytes(k, t)>>] = UnmarshalOf[<<T, y, StringsBytes(k, t)>>]
      <4>1. y \in UnmarshalOf[<<T, x, d>>]
        BY <3>5
      <4> HIDE DEF d, y
      <4> QED
        BY <3>1, <3>2, <4>1, DecodeInParts
    <3>8. Done(y, t)
      <4>1. Len(t) \in Nat /\ Len(t) < n
        BY <3>1, <2>2
      <4>2. Len(t) \in Good
        BY <1>3, <4>1
      <4> HIDE DEF t, y, Fits, Done
      <4> QED
        BY <3>1, <3>3, <3>6, <4>2
    <3>9. Appended(T, y, k, t) = Appended(T, x, k, v)
      <4>1. [y EXCEPT ![name] = x[name] \o v] = [x EXCEPT ![name] = x[name] \o v]
        OBVIOUS
      <4>2. Appended(T, y, k, t) = [y EXCEPT ![name] = z \o t]
        BY <3>6 DEF Appended
      <4> QED
        BY <3>4, <4>1, <4>2 DEF Appended
    <3> HIDE DEF d, t, y
    <3> QED
      BY <3>1, <3>7, <3>8, <3>9
  <2> QED
    BY <2>1, <2>2
<1> HIDE DEF Good
<1>4. Nat \subseteq Good
  BY <1>3, StrongInduction
<1>5. Len(w) \in Good
  BY <1>4
<1> QED
  BY <1>2, <1>5 DEF Good

\* Unmarshal reads what Marshal writes.
RoundTrips(T, m) == UnmarshalOf[<<T, New(T), MarshalOf[<<T, m>>]>>] = {m}

\* Unmarshal of b sets field k to v.
Sets(T, m, k, v, b) == UnmarshalOf[<<T, m, b>>] = {[m EXCEPT ![NameOf(T, k)] = v]}

\* A body is shorter than its field.
LEMMA ShorterBody ==
    ASSUME NEW k \in 1 .. 6, NEW body \in Bytes, Len(Delimited(k, body)) < W64 \div 2
    PROVE  Len(body) < W64 \div 2
<1> DEFINE n == Len(body)
<1>1. Len(Delimited(k, body)) = 1 + n + sovMsg(n)
  BY DelimitedProperties
<1>2. n \in Nat
  BY DEF Bytes
<1> HIDE DEF n
<1>3. sovMsg(n) \in Nat
  BY <1>2, SovDef
<1>4. n < W64 \div 2
  BY <1>1, <1>2, <1>3, Widths
<1> QED
  BY <1>4 DEF n

\* An integer or a boolean is decoded as it was written.
LEMMA ScalarDecoded ==
    ASSUME NEW T \in Types, NEW m \in Msg(T), NEW k \in 1 .. Len(Fields[T]), KindOf(T, k) \in Scalars,
           NEW v \in Value(KindOf(T, k))
    PROVE  Sets(T, m, k, v, <<8 * k>> \o encodeVarintMsg[ToUint64(KindOf(T, k), v)])
<1> DEFINE b == <<8 * k>> \o encodeVarintMsg[ToUint64(KindOf(T, k), v)]
           p == [m EXCEPT ![NameOf(T, k)] = v]
<1>1. b \in Bytes /\ b # <<>> /\ Field(T, m, b, UnmarshalOf) = {[m |-> p, n |-> Len(b)]}
  BY ScalarField
<1>2. p \in Msg(T)
  BY MsgExcept
<1> HIDE DEF b, p
<1>3. UnmarshalOf[<<T, m, b>>] = {p}
  BY <1>1, <1>2, OneRound
<1> QED
  BY <1>3 DEF Sets, b, p

\* A string is decoded as it was written.
LEMMA StringDecoded ==
    ASSUME NEW T \in Types, NEW m \in Msg(T), NEW k \in 1 .. Len(Fields[T]), KindOf(T, k) = "string",
           NEW v \in Bytes, Len(Delimited(k, v)) < W64 \div 2
    PROVE  Sets(T, m, k, v, Delimited(k, v))
<1>1. Len(v) < W64 \div 2
  BY FieldNumber, ShorterBody
<1>2. KindOf(T, k) \in Kinds \ Scalars
  BY DEF Kinds, Scalars
<1>3. v \in Value(KindOf(T, k))
  BY ValueCases
<1>4. Received(KindOf(T, k), m[NameOf(T, k)], v, UnmarshalOf) = {v}
  BY ReceivedString
<1> QED
  BY <1>1, <1>2, <1>3, <1>4, OneDelimited DEF Sets

\* A message in a message is decoded as it was written.
LEMMA PartDecoded ==
    ASSUME NEW T \in Types, NEW m \in Msg(T), NEW k \in 1 .. Len(Fields[T]), KindOf(T, k) \in Parts,
           m[NameOf(T, k)] = <<>>, NEW x \in Msg(KindOf(T, k)), RoundTrips(KindOf(T, k), x),
           Len(Delimited(k, MarshalOf[<<KindOf(T, k), x>>])) < W64 \div 2
    PROVE  Sets(T, m, k, <<x>>, Delimited(k, MarshalOf[<<KindOf(T, k), x>>]))
<1> DEFINE kind == KindOf(T, k)
           b == MarshalOf[<<kind, x>>]
<1>1. kind \in Types
  BY PartRank
<1>2. b \in Bytes
  BY <1>1, MarshalOfDef, TypedMsgRule
<1>3. Len(b) < W64 \div 2
  BY <1>2, FieldNumber, ShorterBody
<1>4. kind \in Kinds \ Scalars
  BY DEF Kinds, Scalars, Parts
<1>5. <<x>> \in Value(kind)
  BY PartIsValue
<1>6. Received(kind, m[NameOf(T, k)], b, UnmarshalOf) = {<<x>>}
  <2>1. Target(kind, m[NameOf(T, k)]) = New(kind)
    BY DEF Target
  <2>2. Received(kind, m[NameOf(T, k)], b, UnmarshalOf) = {<<y>> : y \in UnmarshalOf[<<kind, New(kind), b>>]}
    BY <2>1, ReceivedPart
  <2>3. UnmarshalOf[<<kind, New(kind), b>>] = {x}
    BY DEF RoundTrips
  <2> QED
    BY <2>2, <2>3
<1> HIDE DEF b
<1>7. Sets(T, m, k, <<x>>, Delimited(k, b))
  BY <1>2, <1>3, <1>4, <1>5, <1>6, OneDelimited DEF Sets
<1> QED
  BY <1>7 DEF b

\* Unmarshal of what Marshal writes for a field, where that field is not set yet.
LEMMA FieldDecoded ==
    ASSUME NEW T \in Types, NEW m \in Msg(T), NEW k \in 1 .. Len(Fields[T]), NEW v \in Value(KindOf(T, k)),
           m[NameOf(T, k)] = ZeroOf(KindOf(T, k)),
           Len(FieldBytes(k, KindOf(T, k), v, MarshalOf)) < W64 \div 2,
           KindOf(T, k) \in Parts /\ v # ZeroOf(KindOf(T, k)) => RoundTrips(KindOf(T, k), v[1])
    PROVE  Sets(T, m, k, v, FieldBytes(k, KindOf(T, k), v, MarshalOf))
<1> DEFINE kind == KindOf(T, k)
           b == FieldBytes(k, kind, v, MarshalOf)
<1>1. CASE v = ZeroOf(kind)
  <2>1. b = <<>>
    BY <1>1, FieldBytesZero
  <2>2. [m EXCEPT ![NameOf(T, k)] = v] = m
    BY <1>1, SetSame
  <2> QED
    BY <2>1, <2>2, UnmarshalEmpty DEF Sets
<1>2. CASE v # ZeroOf(kind) /\ kind \in Scalars
  <2>1. b = <<8 * k>> \o encodeVarintMsg[ToUint64(kind, v)]
    BY <1>2, FieldBytesScalar
  <2>2. Sets(T, m, k, v, <<8 * k>> \o encodeVarintMsg[ToUint64(kind, v)])
    BY <1>2, ScalarDecoded
  <2> QED
    BY <2>1, <2>2
<1>3. CASE v # ZeroOf(kind) /\ kind = "string"
  <2>1. b = Delimited(k, v)
    BY <1>3, FieldBytesString
  <2>2. v \in Bytes
    BY <1>3, ValueCases
  <2>3. Sets(T, m, k, v, Delimited(k, v))
    BY <1>3, <2>1, <2>2, StringDecoded
  <2> QED
    BY <2>1, <2>3
<1>4. CASE v # ZeroOf(kind) /\ kind = "strings"
  <2>1. b = StringsBytes(k, v)
    BY <1>4, FieldBytesStrings DEF StringsBytes
  <2>2. v \in Seq(Bytes) /\ m[NameOf(T, k)] = <<>>
    BY <1>4, ValueCases, ZeroCases
  <2>3. UnmarshalOf[<<T, m, StringsBytes(k, v)>>] = {Appended(T, m, k, v)}
    BY <1>4, <2>1, <2>2, StringsDecoded
  <2>4. <<>> \o v = v
    BY <2>2
  <2>5. Appended(T, m, k, v) = [m EXCEPT ![NameOf(T, k)] = v]
    BY <2>2, <2>4 DEF Appended
  <2> QED
    BY <2>1, <2>3, <2>5 DEF Sets
<1>5. CASE v # ZeroOf(kind) /\ kind \in Parts
  <2>1. b = Delimited(k, MarshalOf[<<kind, v[1]>>])
    BY <1>5, FieldBytesPart
  <2>2. v[1] \in Msg(kind) /\ v = <<v[1]>>
    BY <1>5, PartValue
  <2>3. m[NameOf(T, k)] = <<>>
    BY <1>5, ZeroCases
  <2>4. Sets(T, m, k, <<v[1]>>, Delimited(k, MarshalOf[<<kind, v[1]>>]))
    BY <1>5, <2>1, <2>2, <2>3, PartDecoded
  <2> QED
    BY <2>1, <2>2, <2>4
<1>6. kind \in Scalars \/ kind = "string" \/ kind = "strings" \/ kind \in Parts
  BY FieldTable DEF Kinds
<1> QED
  BY <1>1, <1>2, <1>3, <1>4, <1>5, <1>6

\* The bytes of the fields from one on.
LEMMA ConcatDrop ==
    ASSUME NEW s \in Seq(Bytes), NEW j \in Nat, j < Len(s)
    PROVE  /\ s[j + 1] \in Bytes /\ Drop(s, j) \in Seq(Bytes) /\ Drop(s, j + 1) \in Seq(Bytes)
           /\ Concat[Drop(s, j)] = s[j + 1] \o Concat[Drop(s, j + 1)]
<1>1. s[j + 1] \in Bytes /\ Len(s) \in Nat
  OBVIOUS
<1>2. /\ Drop(s, j) \in Seq(Bytes) /\ Drop(s, j + 1) \in Seq(Bytes)
      /\ Len(Drop(s, j)) = Len(s) - j
      /\ \A i \in 1 .. Len(s) - j : Drop(s, j)[i] = s[j + i]
  <2>1. j + 1 \in Nat /\ j <= Len(s)
    BY <1>1
  <2>2. Drop(s, j + 1) \in Seq(Bytes)
    BY <2>1, DropProperties
  <2>3. Drop(s, j) \in Seq(Bytes)
        /\ Len(Drop(s, j)) = (IF j <= Len(s) THEN Len(s) - j ELSE 0)
        /\ \A i \in 1 .. Len(s) - j : Drop(s, j)[i] = s[j + i]
    BY DropProperties, Zenon
  <2> QED
    BY <2>1, <2>2, <2>3
<1>3. Drop(s, j) # <<>> /\ Drop(s, j)[1] = s[j + 1]
  BY <1>1, <1>2
<1>4. Tail(Drop(s, j)) = Drop(s, j + 1)
  <2>1. Tail(Drop(s, j)) = Drop(Drop(s, j), 1)
    BY <1>2, <1>3, TailIsDrop
  <2>2. Drop(Drop(s, j), 1) = Drop(s, j + 1)
    BY DropDrop
  <2> QED
    BY <2>1, <2>2
<1>5. Concat[Drop(s, j)] = Drop(s, j)[1] \o Concat[Tail(Drop(s, j))]
  BY <1>2, <1>3, ConcatDef
<1> QED
  BY <1>1, <1>2, <1>3, <1>4, <1>5

\* p has the fields of m up to number j, and nothing else.
UpTo(T, m, j, p) ==
    /\ p \in Msg(T) /\ p.unrecognized = <<>>
    /\ \A k \in 1 .. Len(Fields[T]) :
            p[NameOf(T, k)] = IF k <= j THEN m[NameOf(T, k)] ELSE ZeroOf(KindOf(T, k))

\* Decoding one more field.
LEMMA UpToNext ==
    ASSUME NEW T \in Types, NEW m \in Msg(T), NEW j \in Nat, j < Len(Fields[T]), NEW p, UpTo(T, m, j, p)
    PROVE  /\ p[NameOf(T, j + 1)] = ZeroOf(KindOf(T, j + 1))
           /\ UpTo(T, m, j + 1, [p EXCEPT ![NameOf(T, j + 1)] = m[NameOf(T, j + 1)]])
<1> DEFINE k == j + 1
           v == m[NameOf(T, k)]
           q == [p EXCEPT ![NameOf(T, k)] = v]
<1>1. Len(Fields[T]) \in Nat
  BY FieldTable
<1>2. k \in 1 .. Len(Fields[T]) /\ ~(k <= j)
  BY <1>1
<1>3. v \in Value(KindOf(T, k))
  BY <1>2, MsgField
<1>4. p \in Msg(T)
  BY DEF UpTo
<1> HIDE DEF v
<1>5. /\ q \in Msg(T) /\ q.unrecognized = p.unrecognized /\ q[NameOf(T, k)] = v
      /\ \A i \in 1 .. Len(Fields[T]) : i # k => q[NameOf(T, i)] = p[NameOf(T, i)]
  BY <1>2, <1>3, <1>4, MsgExcept
<1>6. p[NameOf(T, k)] = ZeroOf(KindOf(T, k))
  BY <1>2 DEF UpTo
<1> HIDE DEF q
<1>7. UpTo(T, m, k, q)
  <2>1. \A i \in 1 .. Len(Fields[T]) : i # k => (i <= k <=> i <= j)
    BY <1>1
  <2>2. k <= k
    BY <1>2
  <2>3. q.unrecognized = <<>>
    BY <1>5 DEF UpTo
  <2>4. \A i \in 1 .. Len(Fields[T]) :
            q[NameOf(T, i)] = IF i <= k THEN m[NameOf(T, i)] ELSE ZeroOf(KindOf(T, i))
    <3> SUFFICES ASSUME NEW i \in 1 .. Len(Fields[T])
                 PROVE  q[NameOf(T, i)] = IF i <= k THEN m[NameOf(T, i)] ELSE ZeroOf(KindOf(T, i))
      OBVIOUS
    <3>1. CASE i = k
      BY <1>5, <2>2, <3>1 DEF v
    <3>2. CASE i # k
      <4> HIDE DEF k
      <4> QED
        BY <1>5, <2>1, <3>2 DEF UpTo
    <3> QED
      BY <3>1, <3>2
  <2> QED
    BY <1>5, <2>3, <2>4 DEF UpTo
<1> QED
  BY <1>6, <1>7 DEF q, v

\* m without the bytes of unknown fields.
Bare(m) == [m EXCEPT !.unrecognized = <<>>]

\* Before the first field and behind the last.
LEMMA UpToEnds ==
    ASSUME NEW T \in Types, NEW m \in Msg(T)
    PROVE  /\ UpTo(T, m, 0, New(T))
           /\ \A p : UpTo(T, m, Len(Fields[T]), p) => p = Bare(m)
<1>1. UpTo(T, m, 0, New(T))
  BY FieldTable, NewProperties DEF UpTo
<1>2. ASSUME NEW p, UpTo(T, m, Len(Fields[T]), p) PROVE p = Bare(m)
  <2>1. <<>> \in Bytes
    BY DEF Bytes
  <2>2. /\ Bare(m) \in Msg(T) /\ Bare(m).unrecognized = <<>>
        /\ \A k \in 1 .. Len(Fields[T]) : Bare(m)[NameOf(T, k)] = m[NameOf(T, k)]
    BY <2>1, MsgUnknown DEF Bare
  <2>3. /\ p \in Msg(T) /\ p.unrecognized = <<>>
        /\ \A k \in 1 .. Len(Fields[T]) : p[NameOf(T, k)] = m[NameOf(T, k)]
    BY <1>2, FieldTable DEF UpTo
  <2> QED
    BY <2>2, <2>3, MsgEqual
<1> QED
  BY <1>1, <1>2

\* A set of messages, closed under the messages inside them, that kept no bytes but
\* those of unknown fields.
Closed(C) ==
    /\ C \subseteq TypedMsg
    /\ \A x \in C :
        /\ x[2].unrecognized \in UnknownTo(x[1])
        /\ \A k \in 1 .. Len(Fields[x[1]]) :
            LET kind == KindOf(x[1], k)
                v == x[2][NameOf(x[1], k)]
            IN  kind \in Parts /\ v # <<>> => <<kind, v[1]>> \in C

\* Marshal fits a slice, whose length is an int.
Fits(b) == b \in Bytes /\ Len(b) < W64 \div 2

\* What fits a slice has parts that fit it.
LEMMA FitsParts ==
    ASSUME NEW a \in Bytes, NEW b \in Bytes, Fits(a \o b)
    PROVE  Fits(a) /\ Fits(b)
<1>1. Len(a \o b) = Len(a) + Len(b) /\ Len(a) \in Nat /\ Len(b) \in Nat
  BY BytesConcat
<1>2. Len(a) < W64 \div 2 /\ Len(b) < W64 \div 2
  BY <1>1, Widths DEF Fits
<1> QED
  BY <1>2 DEF Fits

\* The parts of m round trip.
PartsRoundTrip(T, m) ==
    \A k \in 1 .. Len(Fields[T]) :
        KindOf(T, k) \in Parts /\ m[NameOf(T, k)] # <<>> /\ Fits(MarshalOf[<<KindOf(T, k), m[NameOf(T, k)][1]>>])
            => RoundTrips(KindOf(T, k), m[NameOf(T, k)][1])

\* The same for a message in a message.
LEMMA PieceFits ==
    ASSUME NEW k \in 1 .. 6, NEW kind \in Parts, NEW v \in Value(kind), v # ZeroOf(kind),
           Fits(FieldBytes(k, kind, v, MarshalOf))
    PROVE  v # <<>> /\ Fits(MarshalOf[<<kind, v[1]>>])
<1>1. v # <<>>
  BY ZeroCases
<1>2. FieldBytes(k, kind, v, MarshalOf) = Delimited(k, MarshalOf[<<kind, v[1]>>])
  BY FieldBytesPart
<1>3. MarshalOf[<<kind, v[1]>>] \in Bytes
  BY PartValue, MarshalOfDef
<1> QED
  BY <1>1, <1>2, <1>3, ShorterBody DEF Fits

\* Unmarshal of the fields of m.
LEMMA FieldsDecoded ==
    ASSUME NEW T \in Types, NEW m \in Msg(T), PartsRoundTrip(T, m),
           Fits(Concat[Pieces(T, m, MarshalOf)])
    PROVE  UnmarshalOf[<<T, New(T), Concat[Pieces(T, m, MarshalOf)]>>] = {Bare(m)}
<1> DEFINE s == Pieces(T, m, MarshalOf)
           n == Len(Fields[T])
           Rest(j) == Concat[Drop(s, j)]
           Good == {j \in Nat : j <= n =>
                        /\ Fits(Rest(j))
                        /\ \E p : /\ UpTo(T, m, j, p)
                                  /\ UnmarshalOf[<<T, New(T), Concat[s]>>] = UnmarshalOf[<<T, p, Rest(j)>>]}
<1>1. /\ s \in Seq(Bytes) /\ Len(s) = n
      /\ \A k \in 1 .. n : s[k] = FieldBytes(k, KindOf(T, k), m[NameOf(T, k)], MarshalOf)
  BY MarshalTypedRule, PiecesType
<1>2. n \in Nat /\ n \in 1 .. 6
  BY FieldTable
<1> HIDE DEF s, n
<1>3. 0 \in Good
  <2>1. Drop(s, 0) = s
    BY <1>1, DropAll
  <2> QED
    BY <2>1, UpToEnds DEF s
<1>4. ASSUME NEW j \in Nat, j \in Good PROVE j + 1 \in Good
  <2> SUFFICES ASSUME j + 1 <= n
               PROVE  /\ Fits(Rest(j + 1))
                      /\ \E p : /\ UpTo(T, m, j + 1, p)
                                /\ UnmarshalOf[<<T, New(T), Concat[s]>>] = UnmarshalOf[<<T, p, Rest(j + 1)>>]
    OBVIOUS
  <2> DEFINE k == j + 1
             v == m[NameOf(T, k)]
             f == FieldBytes(k, KindOf(T, k), v, MarshalOf)
  <2>1. j < n /\ j <= n /\ k \in 1 .. n /\ k \in Nat
    BY <1>2
  <2>2. PICK p : UpTo(T, m, j, p) /\ UnmarshalOf[<<T, New(T), Concat[s]>>] = UnmarshalOf[<<T, p, Rest(j)>>]
    BY <1>4, <2>1
  <2>3. Fits(Rest(j))
    BY <1>4, <2>1
  <2>4. f = s[k] /\ s[k] \in Bytes /\ Drop(s, k) \in Seq(Bytes) /\ Rest(j) = s[k] \o Rest(k)
    <3>1. j < Len(s)
      BY <1>1, <2>1
    <3> QED
      BY <1>1, <2>1, <3>1, ConcatDrop
  <2>5. Rest(k) \in Bytes
    BY <2>4, ConcatDef
  <2>6. Fits(f) /\ Fits(Rest(k))
    <3> HIDE DEF f, k, Rest
    <3> QED
      BY <2>3, <2>4, <2>5, FitsParts
  <2>7. /\ p[NameOf(T, k)] = ZeroOf(KindOf(T, k)) /\ p \in Msg(T)
        /\ UpTo(T, m, k, [p EXCEPT ![NameOf(T, k)] = v])
    BY <2>1, <2>2, UpToNext DEF UpTo, n
  <2>8. k \in 1 .. Len(Fields[T]) /\ k \in 1 .. 6
    <3>1. k \in 1 .. Len(Fields[T])
      BY <2>1 DEF n
    <3> HIDE DEF k
    <3> QED
      BY <3>1, FieldNumber
  <2>9. v \in Value(KindOf(T, k))
    BY <2>8, MsgField
  <2> HIDE DEF v
  <2>10. KindOf(T, k) \in Parts /\ v # ZeroOf(KindOf(T, k)) => RoundTrips(KindOf(T, k), v[1])
    <3> SUFFICES ASSUME KindOf(T, k) \in Parts, v # ZeroOf(KindOf(T, k)) PROVE RoundTrips(KindOf(T, k), v[1])
      OBVIOUS
    <3> HIDE DEF k
    <3>1. v # <<>> /\ Fits(MarshalOf[<<KindOf(T, k), v[1]>>])
      BY <2>6, <2>8, <2>9, PieceFits
    <3> QED
      BY <2>8, <3>1 DEF PartsRoundTrip, v
  <2>11. Sets(T, p, k, v, f)
    <3>1. Len(FieldBytes(k, KindOf(T, k), v, MarshalOf)) < W64 \div 2
      BY <2>6 DEF Fits
    <3> HIDE DEF k
    <3> QED
      BY <2>7, <2>8, <2>9, <2>10, <3>1, FieldDecoded
  <2> DEFINE q == [p EXCEPT ![NameOf(T, k)] = v]
  <2>12. UnmarshalOf[<<T, p, f>>] = {q}
    BY <2>11 DEF Sets
  <2>13. UpTo(T, m, k, q)
    BY <2>7
  <2> HIDE DEF q, f, k, Rest
  <2>14. UnmarshalOf[<<T, p, f \o Rest(k)>>] = UnmarshalOf[<<T, q, Rest(k)>>]
    <3>1. q \in UnmarshalOf[<<T, p, f>>]
      BY <2>12
    <3>2. f \in Bytes
      BY <2>4
    <3> QED
      BY <2>5, <2>7, <3>1, <3>2, DecodeInParts
  <2>15. UnmarshalOf[<<T, New(T), Concat[s]>>] = UnmarshalOf[<<T, q, Rest(k)>>]
    BY <2>2, <2>4, <2>14
  <2> QED
    BY <2>6, <2>13, <2>15 DEF k
<1> HIDE DEF Good
<1>5. Nat \subseteq Good
  BY <1>3, <1>4, Induction
<1>6. PICK p : UpTo(T, m, n, p) /\ UnmarshalOf[<<T, New(T), Concat[s]>>] = UnmarshalOf[<<T, p, Rest(n)>>]
  BY <1>2, <1>5 DEF Good
<1>7. p = Bare(m) /\ p \in Msg(T)
  BY <1>6, UpToEnds DEF n, UpTo
<1>8. Rest(n) = <<>>
  <2>1. Drop(s, n) = <<>>
    BY <1>1, DropAll
  <2>2. <<>> \in Seq(Bytes)
    OBVIOUS
  <2> QED
    BY <2>1, <2>2, ConcatDef
<1> QED
  BY <1>6, <1>7, <1>8, UnmarshalEmpty DEF s

\* A message is its fields and its unknown bytes.
LEMMA BareKeep ==
    ASSUME NEW T \in Types, NEW m \in Msg(T)
    PROVE  Bare(m) \in Msg(T) /\ Keep(Bare(m), m.unrecognized) = m
<1>1. <<>> \in Bytes /\ m.unrecognized \in Bytes
  BY MsgField DEF Bytes
<1>2. /\ Bare(m) \in Msg(T) /\ Bare(m).unrecognized = <<>>
      /\ \A k \in 1 .. Len(Fields[T]) : Bare(m)[NameOf(T, k)] = m[NameOf(T, k)]
  BY <1>1, MsgUnknown DEF Bare
<1> DEFINE b == Bare(m)
           p == Keep(b, m.unrecognized)
<1> HIDE DEF b
<1>3. /\ p \in Msg(T) /\ p.unrecognized = <<>> \o m.unrecognized
      /\ \A k \in 1 .. Len(Fields[T]) : p[NameOf(T, k)] = m[NameOf(T, k)]
  <2>1. /\ b \in Msg(T) /\ b.unrecognized = <<>>
        /\ \A k \in 1 .. Len(Fields[T]) : b[NameOf(T, k)] = m[NameOf(T, k)]
    BY <1>2 DEF b
  <2> DEFINE u == m.unrecognized
             q == Keep(b, u)
  <2>2. u \in Bytes
    BY <1>1
  <2> HIDE DEF u
  <2>3. /\ q \in Msg(T) /\ q.unrecognized = b.unrecognized \o u
        /\ \A k \in 1 .. Len(Fields[T]) : q[NameOf(T, k)] = b[NameOf(T, k)]
    BY <2>1, <2>2, KeepProperties
  <2> HIDE DEF q
  <2>4. /\ q \in Msg(T) /\ q.unrecognized = <<>> \o u
        /\ \A k \in 1 .. Len(Fields[T]) : q[NameOf(T, k)] = m[NameOf(T, k)]
    BY <2>1, <2>3
  <2> QED
    BY <2>4 DEF q, u
<1> HIDE DEF p
<1>4. <<>> \o m.unrecognized = m.unrecognized
  BY <1>1, BytesConcat
<1>5. p = m
  BY <1>3, <1>4, MsgEqual
<1> QED
  BY <1>2, <1>5 DEF p, b

\* The fields are decoded first, then the unknown bytes.
LEMMA WholeDecoded ==
    ASSUME NEW T \in Types, NEW m \in Msg(T), PartsRoundTrip(T, m), Fits(MarshalOf[<<T, m>>])
    PROVE  /\ UnmarshalOf[<<T, New(T), MarshalOf[<<T, m>>]>>] = UnmarshalOf[<<T, Bare(m), m.unrecognized>>]
           /\ m.unrecognized \in UnknownTo(T) => RoundTrips(T, m)
<1> DEFINE c == Concat[Pieces(T, m, MarshalOf)]
           u == m.unrecognized
<1>1. c \in Bytes /\ u \in Bytes
  BY MarshalTypedRule, PiecesType, ConcatDef, MsgField
<1>2. MarshalOf[<<T, m>>] = c \o u
  BY MarshalOfDef
<1> HIDE DEF c, u
<1>3. Fits(c)
  BY <1>1, <1>2, FitsParts
<1>4. UnmarshalOf[<<T, New(T), c>>] = {Bare(m)}
  BY <1>3, FieldsDecoded DEF c
<1>5. Bare(m) \in Msg(T) /\ Keep(Bare(m), u) = m
  BY BareKeep DEF u
<1>6. UnmarshalOf[<<T, New(T), c \o u>>] = UnmarshalOf[<<T, Bare(m), u>>]
  <2>1. Bare(m) \in UnmarshalOf[<<T, New(T), c>>]
    BY <1>4
  <2>2. New(T) \in Msg(T)
    BY NewProperties
  <2> QED
    BY <1>1, <2>1, <2>2, DecodeInParts
<1>7. u \in UnknownTo(T) => UnmarshalOf[<<T, Bare(m), u>>] = {m}
  BY <1>5 DEF UnknownTo
<1> QED
  BY <1>2, <1>6, <1>7 DEF RoundTrips, u

\* A message that a program can build: what Unmarshal can leave behind in it, if
\* anything, are fields it does not know.
Clean(T, m) == \E C : Closed(C) /\ <<T, m>> \in C

\* Unmarshal of what Marshal writes yields the message again, if the bytes fit a
\* slice and the unrecognized bytes in it are fields that Unmarshal keeps.
THEOREM RoundTrip ==
    ASSUME NEW T \in Types, NEW m \in Msg(T), Clean(T, m), Len(Marshal(T, m)) < W64 \div 2
    PROVE  Unmarshal(T, Marshal(T, m)) = {m}
<1>1. PICK C : Closed(C) /\ <<T, m>> \in C
  BY DEF Clean
<1> DEFINE Good == {n \in Nat : \A S \in Types : \A x \in Msg(S) :
                        Rank(S) = n /\ <<S, x>> \in C /\ Fits(MarshalOf[<<S, x>>]) => RoundTrips(S, x)}
<1>2. ASSUME NEW n \in Nat, \A i \in Nat : i < n => i \in Good PROVE n \in Good
  <2> SUFFICES ASSUME NEW S \in Types, NEW x \in Msg(S), Rank(S) = n, <<S, x>> \in C,
                      Fits(MarshalOf[<<S, x>>])
               PROVE  RoundTrips(S, x)
    OBVIOUS
  <2> DEFINE y == <<S, x>>
  <2>1. /\ x.unrecognized \in UnknownTo(S)
        /\ \A k \in 1 .. Len(Fields[S]) :
                KindOf(S, k) \in Parts /\ x[NameOf(S, k)] # <<>>
                    => <<KindOf(S, k), x[NameOf(S, k)][1]>> \in C
    <3>1. y \in C /\ y[1] = S /\ y[2] = x
      OBVIOUS
    <3> HIDE DEF y
    <3> QED
      BY <1>1, <3>1 DEF Closed
  <2>2. PartsRoundTrip(S, x)
    <3> SUFFICES ASSUME NEW k \in 1 .. Len(Fields[S]), KindOf(S, k) \in Parts, x[NameOf(S, k)] # <<>>,
                        Fits(MarshalOf[<<KindOf(S, k), x[NameOf(S, k)][1]>>])
                 PROVE  RoundTrips(KindOf(S, k), x[NameOf(S, k)][1])
      BY DEF PartsRoundTrip
    <3> DEFINE kind == KindOf(S, k)
               v == x[NameOf(S, k)]
    <3>1. kind \in Types /\ Rank(kind) < n /\ Rank(kind) \in Nat
      BY PartRank, RankType
    <3>2. v[1] \in Msg(kind)
      <4>1. v \in Value(kind) /\ v # ZeroOf(kind)
        BY MsgField, ZeroCases
      <4> QED
        BY <4>1, PartValue
    <3>3. <<kind, v[1]>> \in C
      BY <2>1
    <3>4. Rank(kind) \in Good
      BY <1>2, <3>1
    <3> QED
      BY <3>1, <3>2, <3>3, <3>4
  <2> QED
    BY <2>1, <2>2, WholeDecoded
<1> HIDE DEF Good
<1>3. Nat \subseteq Good
  BY <1>2, StrongInduction
<1>4. Rank(T) \in Good
  BY <1>3, RankType
<1>5. Fits(MarshalOf[<<T, m>>])
  BY MarshalOfDef, TypedMsgRule DEF Fits, Marshal
<1>6. RoundTrips(T, m)
  BY <1>1, <1>4, <1>5 DEF Good
<1> QED
  BY <1>6 DEF RoundTrips, Unmarshal, Marshal

\* The parts of m are clean.
CleanParts(T, m) ==
    \A k \in 1 .. Len(Fields[T]) :
        KindOf(T, k) \in Parts /\ m[NameOf(T, k)] # <<>> => Clean(KindOf(T, k), m[NameOf(T, k)][1])

\* What Clean says of a message.
LEMMA CleanUnfold ==
    ASSUME NEW T, NEW m, Clean(T, m)
    PROVE  T \in Types /\ m \in Msg(T) /\ m.unrecognized \in UnknownTo(T) /\ CleanParts(T, m)
<1>1. PICK C : Closed(C) /\ <<T, m>> \in C
  BY DEF Clean
<1> DEFINE y == <<T, m>>
<1>2. y \in C /\ y[1] = T /\ y[2] = m
  BY <1>1
<1> HIDE DEF y
<1>3. /\ m.unrecognized \in UnknownTo(T)
      /\ \A k \in 1 .. Len(Fields[T]) :
                KindOf(T, k) \in Parts /\ m[NameOf(T, k)] # <<>>
                    => <<KindOf(T, k), m[NameOf(T, k)][1]>> \in C
  BY <1>1, <1>2 DEF Closed
<1>4. T \in Types /\ m \in Msg(T)
  BY <1>1, <1>2, TypedMsgRule DEF Closed
<1>5. CleanParts(T, m)
  BY <1>1, <1>3 DEF CleanParts, Clean
<1> QED
  BY <1>3, <1>4, <1>5

\* Clean from the parts of a message.
LEMMA CleanFold ==
    ASSUME NEW T \in Types, NEW m \in Msg(T), m.unrecognized \in UnknownTo(T), CleanParts(T, m)
    PROVE  Clean(T, m)
<1> DEFINE y == <<T, m>>
           D == {x \in TypedMsg : x = y \/ Clean(x[1], x[2])}
<1>1. y \in D /\ D \subseteq TypedMsg
  BY TypedMsgRule
<1>2. ASSUME NEW S, NEW x, Clean(S, x) PROVE <<S, x>> \in D
  <2>1. <<S, x>> \in TypedMsg
    BY <1>2, CleanUnfold, TypedMsgRule
  <2>2. <<S, x>>[1] = S /\ <<S, x>>[2] = x
    OBVIOUS
  <2> QED
    BY <1>2, <2>1, <2>2
<1>3. ASSUME NEW x \in D
      PROVE  x[2].unrecognized \in UnknownTo(x[1]) /\ CleanParts(x[1], x[2])
  <2>1. CASE x = y
    BY <2>1
  <2>2. CASE Clean(x[1], x[2])
    BY <2>2, CleanUnfold
  <2> QED
    BY <2>1, <2>2
<1> HIDE DEF D
<1>4. Closed(D)
  <2>1. ASSUME NEW x \in D, NEW k \in 1 .. Len(Fields[x[1]]), KindOf(x[1], k) \in Parts,
               x[2][NameOf(x[1], k)] # <<>>
        PROVE  <<KindOf(x[1], k), x[2][NameOf(x[1], k)][1]>> \in D
    <3>1. Clean(KindOf(x[1], k), x[2][NameOf(x[1], k)][1])
      BY <1>3, <2>1 DEF CleanParts
    <3> QED
      BY <1>2, <3>1
  <2> QED
    BY <1>1, <1>3, <2>1 DEF Closed
<1> QED
  BY <1>1, <1>4 DEF Clean

\* A message without unknown bytes is clean if its parts are.
LEMMA NothingUnknown ==
    ASSUME NEW T \in Types, NEW m \in Msg(T), m.unrecognized = <<>>, CleanParts(T, m)
    PROVE  Clean(T, m)
BY UnknownConcat, CleanFold

-----------------------------------------------------------------------------
(* What is decoded is no longer than the bytes it is decoded from. *)

\* Shifting by seven bits.
LEMMA Div128 ==
    ASSUME NEW a \in Nat, NEW b \in Nat
    PROVE  /\ a \div 128 \in Nat /\ a \div 128 <= a /\ (a > 0 => a \div 128 < a)
           /\ a < 128 => a \div 128 = 0
           /\ (a + b + 1) \div 128 <= (a \div 128) + (b \div 128) + 1
           /\ a + b + 1 < 256 => (a + b + 1) \div 128 <= 1
OBVIOUS

\* One byte more than the two numbers take, at most, is enough for their sum.
LEMMA SovSum ==
    ASSUME NEW a \in Nat, NEW b \in Nat
    PROVE  sovMsg(a + b) <= sovMsg(a) + sovMsg(b)
<1> DEFINE Good == {n \in Nat : \A x, y \in Nat : x + y = n => sovMsg(x + y + 1) <= sovMsg(x) + sovMsg(y)}
<1>1. ASSUME NEW n \in Nat, \A i \in Nat : i < n => i \in Good PROVE n \in Good
  <2> SUFFICES ASSUME NEW x \in Nat, NEW y \in Nat, x + y = n
               PROVE  sovMsg(x + y + 1) <= sovMsg(x) + sovMsg(y)
    OBVIOUS
  <2> DEFINE X == x \div 128
             Y == y \div 128
             Z == (x + y + 1) \div 128
  <2>1. /\ X \in Nat /\ X <= x /\ (x > 0 => X < x) /\ (x < 128 => X = 0)
        /\ Y \in Nat /\ Y <= y /\ (y > 0 => Y < y) /\ (y < 128 => Y = 0)
        /\ Z \in Nat /\ Z <= X + Y + 1 /\ (x + y + 1 < 256 => Z <= 1)
    BY Div128
  <2>2. /\ sovMsg(x) \in Nat /\ sovMsg(x) = IF x < 128 THEN 1 ELSE 1 + sovMsg(X)
        /\ sovMsg(y) \in Nat /\ sovMsg(y) = IF y < 128 THEN 1 ELSE 1 + sovMsg(Y)
        /\ sovMsg(x + y + 1) \in Nat
        /\ sovMsg(x + y + 1) = IF x + y + 1 < 128 THEN 1 ELSE 1 + sovMsg(Z)
    BY SovDef
  <2>3. sovMsg(X) \in Nat /\ sovMsg(Y) \in Nat /\ sovMsg(Z) \in Nat /\ sovMsg(0) = 1 /\ sovMsg(1) = 1
    BY <2>1, SovDef
  <2> HIDE DEF X, Y, Z
  <2>4. CASE x + y + 1 < 128
    BY <2>2, <2>4
  <2>5. CASE ~(x + y + 1 < 128)
    <3>1. X + Y \in Nat /\ X + Y < n
      BY <2>1, <2>5
    <3>2. sovMsg(X + Y + 1) <= sovMsg(X) + sovMsg(Y)
      BY <1>1, <2>1, <3>1
    <3>3. sovMsg(Z) <= sovMsg(X + Y + 1)
      <4> DEFINE q == X + Y + 1
      <4>1. q \in Nat /\ Z \in 0 .. q
        BY <2>1
      <4> HIDE DEF q
      <4>2. sovMsg(Z) \in 1 .. sovMsg(q) /\ sovMsg(q) \in Nat
        BY <4>1, SovMonotonic, SovDef
      <4> QED
        BY <4>2 DEF q
    <3>4. sovMsg(X + Y + 1) \in Nat
      BY <2>1, SovDef
    <3>5. CASE x < 128 /\ y < 128
      <4>1. Z = 0 \/ Z = 1
        BY <2>1, <3>5
      <4> QED
        BY <2>2, <2>3, <3>5, <4>1
    <3>6. CASE ~(x < 128) \/ ~(y < 128)
      BY <2>1, <2>2, <2>3, <2>5, <3>2, <3>3, <3>4, <3>6
    <3> QED
      BY <3>5, <3>6
  <2> QED
    BY <2>4, <2>5
<1> HIDE DEF Good
<1>2. a + b \in Good
  BY <1>1, StrongInduction
<1>3. sovMsg(a + b + 1) <= sovMsg(a) + sovMsg(b)
  BY <1>2 DEF Good
<1>4. sovMsg(a + b) \in 1 .. sovMsg(a + b + 1)
  <2>1. a + b \in 0 .. a + b + 1 /\ a + b + 1 \in Nat
    OBVIOUS
  <2> QED
    BY <2>1, SovMonotonic
<1>5. sovMsg(a) \in Nat /\ sovMsg(b) \in Nat /\ sovMsg(a + b + 1) \in Nat
  BY SovDef
<1> QED
  BY <1>3, <1>4, <1>5

\* A varint takes few bytes, compared with the number.
LEMMA SovSmall ==
    ASSUME NEW v \in Nat
    PROVE  sovMsg(v) <= 1 + (v \div 128)
<1> DEFINE Good == {n \in Nat : sovMsg(n) <= 1 + (n \div 128)}
<1>1. ASSUME NEW n \in Nat, \A i \in Nat : i < n => i \in Good PROVE n \in Good
  <2> DEFINE q == n \div 128
  <2>1. q \in Nat /\ (n > 0 => q < n) /\ q \div 128 \in Nat /\ (n >= 128 => 1 + (q \div 128) <= q)
    OBVIOUS
  <2>2. sovMsg(n) \in Nat /\ sovMsg(n) = IF n < 128 THEN 1 ELSE 1 + sovMsg(q)
    BY SovDef
  <2> HIDE DEF q
  <2>3. CASE n < 128
    BY <2>1, <2>2, <2>3 DEF q
  <2>4. CASE ~(n < 128)
    <3>1. sovMsg(q) <= 1 + (q \div 128) /\ sovMsg(q) \in Nat
      BY <1>1, <2>1, <2>4, SovDef
    <3>2. sovMsg(n) <= 1 + q
      BY <2>1, <2>2, <2>4, <3>1
    <3> QED
      BY <3>2 DEF q
  <2> QED
    BY <2>3, <2>4
<1> HIDE DEF Good
<1>2. v \in Good
  BY <1>1, StrongInduction
<1> QED
  BY <1>2 DEF Good

\* A varint is read from at least as many bytes as it is written to.
LEMMA VarintLonger ==
    ASSUME NEW b \in Bytes, NEW w \in Varint(b)
    PROVE  sovMsg(w.v) <= w.n
<1> DEFINE Good == {n \in Nat : \A c \in Bytes : Len(c) = n => \A r \in VarintAt[c] : sovMsg(r.v) <= r.n}
<1>0. \A x \in 0 .. 255 : x \in Nat
  OBVIOUS
<1>1. ASSUME NEW n \in Nat, \A i \in Nat : i < n => i \in Good PROVE n \in Good
  <2> SUFFICES ASSUME NEW c \in Bytes, Len(c) = n, NEW r \in VarintAt[c] PROVE sovMsg(r.v) <= r.n
    OBVIOUS
  <2> HIDE DEF Good
  <2>1. c # <<>>
    BY VarintAtDef
  <2>2. /\ Len(c) \in Nat \ {0} /\ c[1] \in 0 .. 255
        /\ Tail(c) \in Bytes /\ Len(Tail(c)) = Len(c) - 1
    BY <2>1, HeadAndTail
  <2>3. CASE c[1] < 128
    <3>1. r = [v |-> c[1], n |-> 1]
      BY <2>1, <2>3, VarintAtDef
    <3>2. r.v = c[1] /\ r.n = 1
      BY <3>1
    <3>3. c[1] \in Nat /\ sovMsg(c[1]) = IF c[1] < 128 THEN 1 ELSE 1 + sovMsg(c[1] \div 128)
      <4>1. c[1] \in Nat
        BY <1>0, <2>2
      <4>2. \A x \in Nat : sovMsg(x) = IF x < 128 THEN 1 ELSE 1 + sovMsg(x \div 128)
        BY SovDef
      <4> QED
        BY <4>1, <4>2
    <3> QED
      BY <2>3, <3>2, <3>3
  <2>4. CASE ~(c[1] < 128)
    <3>1. PICK s \in VarintAt[Tail(c)] : r = [v |-> c[1] - 128 + 128 * s.v, n |-> s.n + 1]
      BY <2>1, <2>4, VarintAtDef
    <3>2. s.v \in Nat /\ s.n \in Nat
      BY <2>2, VarintAtLength
    <3>3. sovMsg(s.v) <= s.n
      <4>1. Len(Tail(c)) \in Good
        BY <1>1, <2>2
      <4> QED
        BY <2>2, <4>1 DEF Good
    <3> DEFINE z == c[1] - 128 + 128 * s.v
               y == s.v
    <3>4. z \in Nat /\ z \div 128 = y
      <4>1. ASSUME NEW i \in 0 .. 255, ~(i < 128), NEW j \in Nat
            PROVE  i - 128 + 128 * j \in Nat /\ (i - 128 + 128 * j) \div 128 = j
        <5> DEFINE h == i - 128
                   g == h + 128 * j
        <5>1. h \in 0 .. 127
          BY <4>1
        <5> HIDE DEF h
        <5>2. g \in Nat /\ g \div 128 = j
          BY <5>1
        <5> QED
          BY <5>2 DEF g, h
      <4> QED
        BY <2>2, <2>4, <3>2, <4>1
    <3>5. r.v = z /\ r.n = s.n + 1
      BY <3>1
    <3> HIDE DEF z
    <3>6. sovMsg(y) \in Nat /\ sovMsg(z) \in Nat /\ (sovMsg(z) = 1 \/ sovMsg(z) = 1 + sovMsg(y))
      BY <3>2, <3>4, SovDef
    <3> QED
      BY <3>2, <3>3, <3>5, <3>6
  <2> QED
    BY <2>3, <2>4
<1> HIDE DEF Good
<1>2. Nat \subseteq Good
  BY <1>1, StrongInduction
<1> DEFINE c == SubSeq(b, 1, Most(b))
<1>3. c \in Bytes /\ Varint(b) = {[v |-> r.v % W64, n |-> r.n] : r \in VarintAt[c]}
  BY MostProperties
<1>4. PICK r \in VarintAt[c] : w = [v |-> r.v % W64, n |-> r.n]
  BY <1>3
<1> HIDE DEF c
<1>5. Len(c) \in Nat
  BY <1>3 DEF Bytes
<1>6. sovMsg(r.v) <= r.n
  BY <1>2, <1>3, <1>5 DEF Good
<1>7. r.v \in Nat /\ r.n \in Nat
  BY <1>3, VarintAtLength
<1>8. r.v % W64 \in 0 .. r.v
  BY <1>7, Widths
<1>9. w.v = r.v % W64 /\ w.n = r.n
  BY <1>4
<1>10. sovMsg(w.v) \in 1 .. sovMsg(r.v) /\ sovMsg(r.v) \in Nat
  BY <1>7, <1>8, <1>9, SovMonotonic, SovDef
<1> QED
  BY <1>6, <1>7, <1>9, <1>10

\* A value that comes in n bytes, tag included.
ScalarComes(kind, v, n) ==
    \E u \in 0 .. W64 - 1 : v = FromUint64(kind, u) /\ 1 + sovMsg(u) <= n

BodyComes(kind, old, v, n) ==
    \E body \in Bytes : /\ v \in Received(kind, old, body, UnmarshalOf)
                        /\ 1 + Len(body) + sovMsg(Len(body)) <= n

Comes(kind, old, v, n) ==
    \/ kind \in Scalars /\ ScalarComes(kind, v, n)
    \/ kind \in Kinds \ Scalars /\ BodyComes(kind, old, v, n)

\* A round of the loop that sets field k of m, or keeps an unknown field.
SetsField(T, m, r) ==
    \E k \in 1 .. Len(Fields[T]) : \E v \in Value(KindOf(T, k)) :
        /\ r.m = [m EXCEPT ![NameOf(T, k)] = v]
        /\ Comes(KindOf(T, k), m[NameOf(T, k)], v, r.n)

KeepsUnknown(T, m, b, r) ==
    SubSeq(b, 1, r.n) \in UnknownTo(T) /\ r.m = Keep(m, SubSeq(b, 1, r.n))

\* What a field is set to has its type.
LEMMA SetValue ==
    ASSUME NEW T \in Types, NEW m \in Msg(T), NEW k \in 1 .. Len(Fields[T]), NEW v,
           [m EXCEPT ![NameOf(T, k)] = v] \in Msg(T)
    PROVE  v \in Value(KindOf(T, k))
<1> DEFINE p == [m EXCEPT ![NameOf(T, k)] = v]
<1>1. m = [x \in Names(T) |-> m[x]]
  BY MsgTable
<1>2. NameOf(T, k) \in Names(T)
  BY FieldTable DEF Names
<1>3. p[NameOf(T, k)] = v
  BY <1>1, <1>2
<1>4. p \in Msg(T)
  OBVIOUS
<1> HIDE DEF p
<1> QED
  BY <1>3, <1>4, MsgField

\* Each round sets one field, from at least as many bytes as it will take, or
\* keeps an unknown one.
LEMMA RoundSorts ==
    ASSUME NEW T \in Types, NEW m \in Msg(T), NEW b \in Bytes, NEW r \in Field(T, m, b, UnmarshalOf)
    PROVE  SetsField(T, m, r) \/ KeepsUnknown(T, m, b, r)
<1>1. PICK t \in Tag(b) : TRUE
  BY FieldNone
<1>2. Tag(b) = {t}
  BY TagCases
<1>3. t.n \in 1 .. Len(b) /\ Len(b) \in Nat
  BY TagProperties DEF Bytes
<1>4. r.m \in Msg(T) /\ r.n \in 1 .. Len(b)
  BY UnmarshalTyped, FieldProperties
<1> DEFINE k == t.num
           kind == KindOf(T, k)
           c == Drop(b, t.n)
<1>5. c \in Bytes
  <2>1. t.n \in 0 .. Len(b)
    BY <1>3
  <2> QED
    BY <2>1, DropBytes
<1>6. CASE t.num > Len(Fields[T])
  <2>1. \A x : Field(T, x, b, UnmarshalOf) = UnknownField(x, b)
    BY <1>2, <1>6, FieldCases
  <2>2. \A x : UnknownField(x, b) = {[m |-> Keep(x, SubSeq(b, 1, e)), n |-> e] :
                                        e \in {y \in skipMsg(b) : y <= Len(b)}}
    BY DEF UnknownField, Keep
  <2>3. PICK e \in skipMsg(b) : e <= Len(b) /\ r = [m |-> Keep(m, SubSeq(b, 1, e)), n |-> e]
    BY <2>1, <2>2
  <2>4. skipMsg(b) = {e}
    <3>1. e \in Nat
      BY <2>3, SkipLocal DEF skipMsg
    <3>2. Agree(b, b, e)
      BY <1>3, <2>3, <3>1, AgreeSame
    <3> QED
      BY <2>3, <3>2, SkipLocal DEF skipMsg
  <2>5. r.n = e /\ r.m = Keep(m, SubSeq(b, 1, e))
    BY <2>3
  <2>6. {y \in skipMsg(b) : y <= Len(b)} = {e}
    BY <2>3, <2>4
  <2>7. \A x : Field(T, x, b, UnmarshalOf) = {[m |-> Keep(x, SubSeq(b, 1, e)), n |-> e]}
    BY <2>1, <2>2, <2>6
  <2>8. KeepsField(T, b, r.n)
    BY <2>5, <2>7 DEF KeepsField
  <2> QED
    BY <1>4, <2>5, <2>8, KeptField DEF KeepsUnknown
<1>7. CASE k \in 1 .. Len(Fields[T]) /\ kind \in Scalars
  <2>1. r \in VarintField(T, m, t, b)
    BY <1>2, <1>7, FieldCases
  <2>2. PICK u \in Varint(c) : r = [m |-> [m EXCEPT ![NameOf(T, k)] = FromUint64(kind, u.v)], n |-> t.n + u.n]
    BY <2>1 DEF VarintField
  <2> DEFINE v == FromUint64(kind, u.v)
  <2>3. r.m = [m EXCEPT ![NameOf(T, k)] = v] /\ r.n = t.n + u.n
    BY <2>2
  <2>4. u.v \in 0 .. W64 - 1 /\ u.n \in Nat /\ u.v \in Nat
    <3>1. u \in [v : 0 .. W64 - 1, n : 1 .. Len(c)]
      BY <1>5, VarintType
    <3> QED
      BY <3>1, Widths
  <2>5. sovMsg(u.v) <= u.n /\ sovMsg(u.v) \in Nat
    BY <1>5, <2>4, VarintLonger, SovDef
  <2>6. ScalarComes(kind, v, r.n)
    BY <1>3, <2>3, <2>4, <2>5 DEF ScalarComes
  <2> HIDE DEF v
  <2>7. v \in Value(kind)
    BY <1>4, <1>7, <2>3, SetValue
  <2> QED
    BY <1>7, <2>3, <2>6, <2>7 DEF SetsField, Comes
<1>8. CASE k \in 1 .. Len(Fields[T]) /\ kind \in Kinds \ Scalars
  <2>1. r \in DelimitedField(T, m, t, b, UnmarshalOf)
    BY <1>2, <1>8, FieldCases
  <2>2. PICK l \in Length(c) : t.n + l.n + l.v <= Len(b) /\ r \in Body(T, m, t, l, b, UnmarshalOf)
    BY <2>1 DEF DelimitedField
  <2> DEFINE body == SubSeq(b, t.n + l.n + 1, t.n + l.n + l.v)
             old == m[NameOf(T, k)]
  <2>3. PICK v \in Received(kind, old, body, UnmarshalOf) :
            r = [m |-> [m EXCEPT ![NameOf(T, k)] = v], n |-> t.n + l.n + l.v]
    BY <2>2 DEF Body
  <2>4. r.m = [m EXCEPT ![NameOf(T, k)] = v] /\ r.n = t.n + l.n + l.v
    BY <2>3
  <2>5. l.n \in Nat /\ l.v \in Nat /\ body \in Bytes /\ Len(body) = l.v
    BY <1>3, <2>2, BodyProperties
  <2> HIDE DEF body
  <2>6. sovMsg(l.v) <= l.n /\ sovMsg(l.v) \in Nat
    BY <1>5, <2>2, <2>5, LengthProperties, VarintLonger, SovDef
  <2>7. 1 + Len(body) + sovMsg(Len(body)) <= r.n
    BY <1>3, <2>4, <2>5, <2>6
  <2>8. BodyComes(kind, old, v, r.n)
    BY <2>3, <2>5, <2>7 DEF BodyComes
  <2>9. v \in Value(kind)
    BY <1>4, <1>8, <2>4, SetValue
  <2> QED
    BY <1>8, <2>4, <2>8, <2>9 DEF SetsField, Comes
<1> QED
  BY <1>6, <1>7, <1>8, TagCases

\* A new message keeps nothing.
LEMMA CleanNew ==
    ASSUME NEW T \in Types
    PROVE  Clean(T, New(T))
<1>1. /\ New(T) \in Msg(T) /\ New(T).unrecognized = <<>>
      /\ \A k \in 1 .. Len(Fields[T]) : New(T)[NameOf(T, k)] = ZeroOf(KindOf(T, k))
  BY NewProperties
<1>2. CleanParts(T, New(T))
  <2>1. ASSUME NEW k \in 1 .. Len(Fields[T]), KindOf(T, k) \in Parts
        PROVE  New(T)[NameOf(T, k)] = <<>>
    BY <1>1, <2>1, ZeroCases
  <2> QED
    BY <2>1 DEF CleanParts
<1> QED
  BY <1>1, <1>2, NothingUnknown

\* Keeping an unknown field keeps a message clean.
LEMMA CleanKeep ==
    ASSUME NEW T, NEW m, Clean(T, m), NEW u \in UnknownTo(T)
    PROVE  Clean(T, Keep(m, u))
<1>1. T \in Types /\ m \in Msg(T) /\ m.unrecognized \in UnknownTo(T) /\ CleanParts(T, m)
  BY CleanUnfold
<1> DEFINE p == Keep(m, u)
<1>2. u \in Bytes
  BY DEF UnknownTo
<1>3. /\ p \in Msg(T) /\ p.unrecognized = m.unrecognized \o u
      /\ \A k \in 1 .. Len(Fields[T]) : p[NameOf(T, k)] = m[NameOf(T, k)]
  BY <1>1, <1>2, KeepProperties
<1>4. p.unrecognized \in UnknownTo(T)
  BY <1>1, <1>3, UnknownConcat
<1> HIDE DEF p
<1>5. CleanParts(T, p)
  BY <1>1, <1>3 DEF CleanParts
<1>6. Clean(T, p)
  BY <1>1, <1>3, <1>4, <1>5, CleanFold
<1> QED
  BY <1>6 DEF p

\* Decoding n bytes into a clean message leaves it clean.
CleanAfter(n) ==
    \A T \in Types : \A m \in Msg(T) : \A d \in Bytes :
        Len(d) = n /\ Clean(T, m) => \A q \in UnmarshalOf[<<T, m, d>>] : Clean(T, q)

\* So does setting a field, when that holds for the messages inside.
LEMMA CleanRound ==
    ASSUME NEW T, NEW m, Clean(T, m), NEW r, SetsField(T, m, r), r.n \in Nat,
           \A i \in Nat : i < r.n => CleanAfter(i)
    PROVE  Clean(T, r.m)
<1>1. T \in Types /\ m \in Msg(T) /\ m.unrecognized \in UnknownTo(T) /\ CleanParts(T, m)
  BY CleanUnfold
<1>0. PICK k \in 1 .. Len(Fields[T]) : \E v \in Value(KindOf(T, k)) :
        /\ r.m = [m EXCEPT ![NameOf(T, k)] = v]
        /\ Comes(KindOf(T, k), m[NameOf(T, k)], v, r.n)
  BY DEF SetsField
<1>2. PICK v \in Value(KindOf(T, k)) :
        /\ r.m = [m EXCEPT ![NameOf(T, k)] = v]
        /\ Comes(KindOf(T, k), m[NameOf(T, k)], v, r.n)
  BY <1>0
<1> DEFINE kind == KindOf(T, k)
           old == m[NameOf(T, k)]
           p == [m EXCEPT ![NameOf(T, k)] = v]
<1>3. /\ p \in Msg(T) /\ p.unrecognized = m.unrecognized /\ p[NameOf(T, k)] = v
      /\ \A j \in 1 .. Len(Fields[T]) : j # k => p[NameOf(T, j)] = m[NameOf(T, j)]
  BY <1>1, MsgExcept
<1> HIDE DEF p
<1>4. ASSUME kind \in Parts
      PROVE  Clean(kind, v[1])
  <2>1. kind \notin Scalars
    BY <1>4 DEF Scalars, Parts
  <2>2. PICK body \in Bytes : /\ v \in Received(kind, old, body, UnmarshalOf)
                              /\ 1 + Len(body) + sovMsg(Len(body)) <= r.n
    BY <1>2, <2>1 DEF Comes, BodyComes
  <2>3. Len(body) \in Nat /\ Len(body) < r.n
    <3>1. Len(body) \in Nat
      BY DEF Bytes
    <3>2. sovMsg(Len(body)) \in Nat
      BY <3>1, SovDef
    <3> QED
      BY <2>2, <3>1, <3>2
  <2>4. PICK x \in UnmarshalOf[<<kind, Target(kind, old), body>>] : v = <<x>>
    BY <1>4, <2>2, ReceivedPart
  <2>5. old \in Value(kind)
    BY <1>1, MsgField
  <2>6. kind \in Types /\ Target(kind, old) \in Msg(kind)
    BY <1>4, <2>5, TargetType
  <2>7. Clean(kind, Target(kind, old))
    <3>1. CASE old = <<>>
      BY <2>6, <3>1, CleanNew DEF Target
    <3>2. CASE old # <<>>
      <4>1. Target(kind, old) = old[1]
        BY <3>2 DEF Target
      <4>2. Clean(kind, old[1])
        BY <1>1, <1>4, <3>2 DEF CleanParts
      <4> QED
        BY <4>1, <4>2
    <3> QED
      BY <3>1, <3>2
  <2>8. Clean(kind, x)
    <3>1. CleanAfter(Len(body))
      BY <2>3
    <3> QED
      BY <2>4, <2>6, <2>7, <3>1 DEF CleanAfter
  <2> QED
    BY <2>4, <2>8
<1>5. CleanParts(T, p)
  <2> SUFFICES ASSUME NEW j \in 1 .. Len(Fields[T]), KindOf(T, j) \in Parts, p[NameOf(T, j)] # <<>>
               PROVE  Clean(KindOf(T, j), p[NameOf(T, j)][1])
    BY DEF CleanParts
  <2>1. CASE j = k
    BY <1>3, <1>4, <2>1
  <2>2. CASE j # k
    BY <1>1, <1>3, <2>2 DEF CleanParts
  <2> QED
    BY <2>1, <2>2
<1>6. Clean(T, p)
  BY <1>1, <1>3, <1>5, CleanFold
<1> QED
  BY <1>2, <1>6 DEF p

\* Unknown fields are kept in a form that is read back in the same way, in every
\* part of a message.
LEMMA CleanDecoded ==
    ASSUME NEW T \in Types, NEW m \in Msg(T), Clean(T, m), NEW b \in Bytes, NEW p \in UnmarshalOf[<<T, m, b>>]
    PROVE  Clean(T, p)
<1> DEFINE Good == {n \in Nat : CleanAfter(n)}
<1>1. ASSUME NEW n \in Nat, \A i \in Nat : i < n => i \in Good PROVE n \in Good
  <2>1. \A i \in Nat : i < n => CleanAfter(i)
    BY <1>1
  <2> HIDE DEF Good
  <2>2. ASSUME NEW S \in Types, NEW x \in Msg(S), NEW d \in Bytes, Len(d) = n, Clean(S, x),
               NEW q \in UnmarshalOf[<<S, x, d>>]
        PROVE  Clean(S, q)
    <3>1. CASE d = <<>>
      <4>1. q = x
        BY <3>1, UnmarshalEmpty
      <4> QED
        BY <2>2, <4>1
    <3>2. CASE d # <<>>
      <4>1. PICK r \in Field(S, x, d, UnmarshalOf) : q \in UnmarshalOf[<<S, r.m, Drop(d, r.n)>>]
        BY <3>2, UnmarshalMember
      <4>2. r.m \in Msg(S) /\ r.n \in 1 .. Len(d) /\ Len(d) \in Nat /\ r.n \in Nat /\ r.n <= n
        BY <2>2, UnmarshalTyped, FieldProperties DEF Bytes
      <4>3. \A i \in Nat : i < r.n => CleanAfter(i)
        BY <2>1, <4>2
      <4>4. Clean(S, r.m)
        <5>1. CASE SetsField(S, x, r)
          BY <2>2, <4>2, <4>3, <5>1, CleanRound
        <5>2. CASE KeepsUnknown(S, x, d, r)
          BY <2>2, <5>2, CleanKeep DEF KeepsUnknown
        <5> QED
          BY <5>1, <5>2, RoundSorts
      <4> DEFINE e == Drop(d, r.n)
      <4>5. e \in Bytes /\ Len(e) = Len(d) - r.n
        <5>1. r.n \in 0 .. Len(d)
          BY <4>2
        <5> QED
          BY <5>1, SplitBytes
      <4>6. q \in UnmarshalOf[<<S, r.m, e>>]
        BY <4>1
      <4> HIDE DEF e
      <4>7. Len(e) \in Nat /\ Len(e) < n
        BY <2>2, <4>2, <4>5
      <4>8. CleanAfter(Len(e))
        BY <2>1, <4>7
      <4> QED
        BY <4>2, <4>4, <4>5, <4>6, <4>8 DEF CleanAfter
    <3> QED
      BY <3>1, <3>2
  <2>3. CleanAfter(n)
    BY <2>2 DEF CleanAfter
  <2> QED
    BY <2>3 DEF Good
<1>2. Nat \subseteq Good
  <2> HIDE DEF Good
  <2> QED
    BY <1>1, StrongInduction
<1>3. Len(b) \in Nat
  BY DEF Bytes
<1>4. CleanAfter(Len(b))
  BY <1>2, <1>3
<1> QED
  BY <1>4 DEF CleanAfter

\* A sum is its first number and the rest.
LEMMA TailRule ==
    ASSUME NEW s \in Seq(Nat), s # <<>>
    PROVE  /\ s[1] \in Nat /\ Tail(s) \in Seq(Nat) /\ Len(Tail(s)) = Len(s) - 1
           /\ Len(s) \in Nat \ {0} /\ Len(Tail(s)) \in Nat
           /\ \A j \in 1 .. Len(s) - 1 : Tail(s)[j] = s[j + 1]
           /\ SumOf[s] = s[1] + SumOf[Tail(s)] /\ SumOf[Tail(s)] \in Nat
<1>1. /\ s[1] \in Nat /\ Tail(s) \in Seq(Nat) /\ Len(Tail(s)) = Len(s) - 1 /\ Len(s) \in Nat \ {0}
      /\ \A j \in 1 .. Len(s) - 1 : Tail(s)[j] = s[j + 1]
  OBVIOUS
<1>2. SumOf[s] = s[1] + SumOf[Tail(s)]
  BY SumOfDef
<1>3. SumOf[Tail(s)] \in Nat
  BY <1>1, SumOfDef
<1> QED
  BY <1>1, <1>2, <1>3

\* Sums that differ in one summand.
DiffersBy(s, t, k, d) ==
    /\ s \in Seq(Nat) /\ t \in Seq(Nat) /\ Len(s) = Len(t) /\ k \in 1 .. Len(s)
    /\ \A j \in 1 .. Len(s) : j # k => t[j] = s[j]
    /\ t[k] <= s[k] + d

\* Sums that differ in one number.
LEMMA SumCompare ==
    ASSUME NEW d \in Nat, NEW s, NEW t, NEW k, DiffersBy(s, t, k, d)
    PROVE  SumOf[t] <= SumOf[s] + d
<1> DEFINE Good == {n \in Nat : \A x, y, j : Len(x) = n /\ DiffersBy(x, y, j, d) => SumOf[y] <= SumOf[x] + d}
<1>1. ASSUME NEW n \in Nat, \A i \in Nat : i < n => i \in Good PROVE n \in Good
  <2> SUFFICES ASSUME NEW x, NEW y, NEW j, Len(x) = n, DiffersBy(x, y, j, d)
               PROVE  SumOf[y] <= SumOf[x] + d
    OBVIOUS
  <2>0. ASSUME NEW i \in Nat, i < n, NEW u, NEW v, NEW l, Len(u) = i, DiffersBy(u, v, l, d)
        PROVE  SumOf[v] <= SumOf[u] + d
    BY <1>1, <2>0
  <2> HIDE DEF Good
  <2>1. /\ x \in Seq(Nat) /\ y \in Seq(Nat) /\ Len(x) = n /\ Len(y) = n /\ j \in 1 .. n
        /\ \A i \in 1 .. n : i # j => y[i] = x[i]
        /\ y[j] <= x[j] + d
    BY DEF DiffersBy
  <2>2. x # <<>> /\ y # <<>>
    BY <2>1
  <2> DEFINE u == Tail(x)
             v == Tail(y)
  <2>3. /\ x[1] \in Nat /\ u \in Seq(Nat) /\ Len(u) = n - 1 /\ n - 1 \in Nat
        /\ \A i \in 1 .. n - 1 : u[i] = x[i + 1]
        /\ SumOf[x] = x[1] + SumOf[u] /\ SumOf[u] \in Nat
    BY <2>1, <2>2, TailRule
  <2>4. /\ y[1] \in Nat /\ v \in Seq(Nat) /\ Len(v) = n - 1
        /\ \A i \in 1 .. n - 1 : v[i] = y[i + 1]
        /\ SumOf[y] = y[1] + SumOf[v] /\ SumOf[v] \in Nat
    BY <2>1, <2>2, TailRule
  <2> HIDE DEF u, v
  <2>5. CASE j = 1
    <3>1. \A i \in 1 .. n - 1 : u[i] = v[i]
      <4> SUFFICES ASSUME NEW i \in 1 .. n - 1 PROVE u[i] = v[i]
        OBVIOUS
      <4>1. i + 1 \in 1 .. n /\ i + 1 # j
        BY <2>5
      <4> QED
        BY <2>1, <2>3, <2>4, <4>1
    <3>2. u = v
      BY <2>3, <2>4, <3>1, SeqEqual
    <3> QED
      BY <2>1, <2>3, <2>4, <2>5, <3>2
  <2>6. CASE j # 1
    <3>1. 1 \in 1 .. n /\ y[1] = x[1]
      BY <2>1, <2>6
    <3>2. DiffersBy(u, v, j - 1, d)
      <4>1. j - 1 \in 1 .. n - 1 /\ (j - 1) + 1 = j
        BY <2>1, <2>6
      <4>2. v[j - 1] <= u[j - 1] + d
        BY <2>1, <2>3, <2>4, <4>1
      <4>3. ASSUME NEW i \in 1 .. n - 1, i # j - 1 PROVE v[i] = u[i]
        <5>1. i + 1 \in 1 .. n /\ i + 1 # j
          BY <2>1, <4>3
        <5> QED
          BY <2>1, <2>3, <2>4, <5>1
      <4> QED
        BY <2>3, <2>4, <4>1, <4>2, <4>3 DEF DiffersBy
    <3>3. SumOf[v] <= SumOf[u] + d
      BY <2>0, <2>3, <3>2
    <3> QED
      BY <2>3, <2>4, <3>1, <3>3
  <2> QED
    BY <2>5, <2>6
<1>2. Nat \subseteq Good
  <2> HIDE DEF Good
  <2> QED
    BY <1>1, StrongInduction
<1>3. Len(s) \in Nat
  BY DEF DiffersBy
<1>4. Len(s) \in Good
  BY <1>2, <1>3
<1> QED
  BY <1>4

\* A sum of zeros.
LEMMA SumZero ==
    ASSUME NEW s \in Seq(Nat), \A j \in 1 .. Len(s) : s[j] = 0
    PROVE  SumOf[s] = 0
<1> DEFINE Good == {n \in Nat : \A x \in Seq(Nat) : Len(x) = n /\ (\A j \in 1 .. Len(x) : x[j] = 0) => SumOf[x] = 0}
<1>1. ASSUME NEW n \in Nat, \A i \in Nat : i < n => i \in Good PROVE n \in Good
  <2> SUFFICES ASSUME NEW x \in Seq(Nat), Len(x) = n, \A j \in 1 .. Len(x) : x[j] = 0
               PROVE  SumOf[x] = 0
    OBVIOUS
  <2>0. ASSUME NEW y \in Seq(Nat), Len(y) \in Nat, Len(y) < n, \A j \in 1 .. Len(y) : y[j] = 0
        PROVE  SumOf[y] = 0
    BY <1>1, <2>0
  <2> HIDE DEF Good
  <2>1. CASE x = <<>>
    BY <2>1, SumOfDef
  <2>2. CASE x # <<>>
    <3> DEFINE y == Tail(x)
    <3>1. /\ x[1] \in Nat /\ y \in Seq(Nat) /\ Len(y) = Len(x) - 1
          /\ Len(x) \in Nat \ {0} /\ Len(y) \in Nat
          /\ \A j \in 1 .. Len(x) - 1 : y[j] = x[j + 1]
          /\ SumOf[x] = x[1] + SumOf[y] /\ SumOf[y] \in Nat
      BY <2>2, TailRule
    <3> HIDE DEF y
    <3>2. \A j \in 1 .. Len(y) : y[j] = 0
      <4> SUFFICES ASSUME NEW j \in 1 .. Len(y) PROVE y[j] = 0
        OBVIOUS
      <4>1. j + 1 \in 1 .. Len(x) /\ j \in 1 .. Len(x) - 1
        BY <3>1
      <4> QED
        BY <3>1, <4>1
    <3>3. SumOf[y] = 0
      <4>1. Len(y) < n
        BY <3>1
      <4> QED
        BY <2>0, <3>1, <3>2, <4>1
    <3>4. x[1] = 0
      BY <3>1
    <3> QED
      BY <3>1, <3>3, <3>4
  <2> QED
    BY <2>1, <2>2
<1>2. Nat \subseteq Good
  <2> HIDE DEF Good
  <2> QED
    BY <1>1, StrongInduction
<1>3. Len(s) \in Good
  BY <1>2
<1> QED
  BY <1>3

\* A sum with one more number.
LEMMA SumAppend ==
    ASSUME NEW s \in Seq(Nat), NEW d \in Nat
    PROVE  SumOf[Append(s, d)] = SumOf[s] + d
<1> DEFINE Good == {n \in Nat : \A x \in Seq(Nat) : Len(x) = n => SumOf[Append(x, d)] = SumOf[x] + d}
<1>1. ASSUME NEW n \in Nat, \A i \in Nat : i < n => i \in Good PROVE n \in Good
  <2> SUFFICES ASSUME NEW x \in Seq(Nat), Len(x) = n PROVE SumOf[Append(x, d)] = SumOf[x] + d
    OBVIOUS
  <2>0. ASSUME NEW y \in Seq(Nat), Len(y) \in Nat, Len(y) < n PROVE SumOf[Append(y, d)] = SumOf[y] + d
    BY <1>1, <2>0
  <2> HIDE DEF Good
  <2> DEFINE a == Append(x, d)
  <2>1. a \in Seq(Nat) /\ a # <<>>
    OBVIOUS
  <2>2. SumOf[a] = a[1] + SumOf[Tail(a)]
    BY <2>1, TailRule
  <2>3. CASE x = <<>>
    <3>1. a[1] = d /\ Tail(a) = <<>>
      BY <2>3
    <3>2. SumOf[<<>>] = 0
      <4>1. <<>> \in Seq(Nat)
        OBVIOUS
      <4> QED
        BY <4>1, SumOfDef
    <3> QED
      BY <2>2, <2>3, <3>1, <3>2
  <2>4. CASE x # <<>>
    <3>1. a[1] = x[1] /\ Tail(a) = Append(Tail(x), d)
      BY <2>4
    <3>2. /\ x[1] \in Nat /\ Tail(x) \in Seq(Nat) /\ Len(Tail(x)) \in Nat /\ Len(Tail(x)) < n
          /\ SumOf[x] = x[1] + SumOf[Tail(x)] /\ SumOf[Tail(x)] \in Nat
      BY <2>4, TailRule
    <3>3. SumOf[Append(Tail(x), d)] = SumOf[Tail(x)] + d
      BY <2>0, <3>2
    <3>4. SumOf[Tail(a)] = SumOf[Tail(x)] + d
      BY <3>1, <3>3
    <3>5. SumOf[a] = x[1] + (SumOf[Tail(x)] + d)
      BY <2>2, <3>1, <3>4
    <3> HIDE DEF a
    <3>6. SumOf[a] = SumOf[x] + d
      BY <3>2, <3>5
    <3> QED
      BY <3>6 DEF a
  <2> QED
    BY <2>3, <2>4
<1>2. Nat \subseteq Good
  <2> HIDE DEF Good
  <2> QED
    BY <1>1, StrongInduction
<1>3. Len(s) \in Good
  BY <1>2
<1> QED
  BY <1>3

\* Message.Type is the only enum.
LEMMA EnumOnly ==
    ASSUME NEW T \in Types, NEW k \in 1 .. Len(Fields[T]), KindOf(T, k) = "enum"
    PROVE  T = "Message" /\ k = 1
<1>1. CASE T = "Offer"
  BY <1>1 DEF Fields, OfferFields, F, KindOf
<1>2. CASE T = "Contract"
  BY <1>2 DEF Fields, ContractFields, F, KindOf
<1>3. CASE T = "MsgStorageRequest"
  BY <1>3 DEF Fields, MsgStorageRequestFields, F, KindOf
<1>4. CASE T = "MsgStorageResponse"
  BY <1>4 DEF Fields, MsgStorageResponseFields, F, KindOf
<1>5. CASE T = "MsgRetrievalRequest"
  BY <1>5 DEF Fields, MsgRetrievalRequestFields, F, KindOf
<1>6. CASE T = "MsgRetrievalResponse"
  BY <1>6 DEF Fields, MsgRetrievalResponseFields, F, KindOf
<1>7. CASE T = "Message"
  BY <1>7 DEF Fields, MessageFields, F, KindOf
<1> QED
  BY <1>1, <1>2, <1>3, <1>4, <1>5, <1>6, <1>7 DEF Types

\* Size and Marshal of a message.
LEMMA SizeNat ==
    ASSUME NEW T \in Types, NEW m \in Msg(T)
    PROVE  /\ SizeOf[<<T, m>>] \in Nat /\ SizeOf[<<T, m>>] = Len(MarshalOf[<<T, m>>])
           /\ MarshalOf[<<T, m>>] \in Bytes
<1>1. MarshalOf[<<T, m>>] \in Bytes
  BY MarshalOfDef, TypedMsgRule
<1>2. Len(MarshalOf[<<T, m>>]) \in Nat
  BY <1>1 DEF Bytes
<1> QED
  BY <1>1, <1>2, SizeIsExact DEF Size, Marshal

\* The size of a field is a number.
LEMMA FieldSizeNat ==
    ASSUME NEW kind \in Kinds, NEW v \in Value(kind)
    PROVE  FieldSize(kind, v, SizeOf) \in Nat
<1>1. ASSUME kind \in Parts, v # ZeroOf(kind)
      PROVE  /\ MarshalOf[<<kind, v[1]>>] \in Bytes
             /\ SizeOf[<<kind, v[1]>>] = Len(MarshalOf[<<kind, v[1]>>])
  <2>1. kind \in Types /\ v[1] \in Msg(kind)
    BY <1>1, PartValue
  <2> QED
    BY <2>1, SizeNat
<1>2. 1 \in 1 .. 6
  OBVIOUS
<1>3. FieldBytes(1, kind, v, MarshalOf) \in Bytes
  BY <1>1, <1>2, FieldBytesType
<1>4. FieldSize(kind, v, SizeOf) = Len(FieldBytes(1, kind, v, MarshalOf))
  <2>1. ASSUME NEW num \in 1 .. 6
        PROVE  FieldSize(kind, v, SizeOf) = Len(FieldBytes(num, kind, v, MarshalOf))
    <3>1. kind \in Parts /\ v # ZeroOf(kind) =>
            /\ MarshalOf[<<kind, v[1]>>] \in Bytes
            /\ SizeOf[<<kind, v[1]>>] = Len(MarshalOf[<<kind, v[1]>>])
      BY <1>1
    <3> QED
      BY ONLY <3>1, FieldSizeExact, kind \in Kinds, v \in Value(kind), num \in 1 .. 6
  <2> QED
    BY ONLY <1>2, <2>1
<1> QED
  BY <1>3, <1>4 DEF Bytes

\* The size of a message without its type: re-written, a negative type may take
\* more bytes than it was read from.
FieldWeight(kind, v) == IF kind = "enum" THEN 0 ELSE FieldSize(kind, v, SizeOf)

Weights(T, m) == [k \in DOMAIN Fields[T] |-> FieldWeight(KindOf(T, k), m[NameOf(T, k)])]

Weight(T, m) == SumOf[Weights(T, m)] + Len(m.unrecognized)

\* The weights of the fields.
LEMMA WeightsType ==
    ASSUME NEW T \in Types, NEW m \in Msg(T)
    PROVE  /\ Weights(T, m) \in Seq(Nat) /\ Len(Weights(T, m)) = Len(Fields[T])
           /\ \A k \in 1 .. Len(Fields[T]) :
                Weights(T, m)[k] = FieldWeight(KindOf(T, k), m[NameOf(T, k)])
           /\ SumOf[Weights(T, m)] \in Nat /\ Len(m.unrecognized) \in Nat /\ Weight(T, m) \in Nat
<1>1. Len(Fields[T]) \in 1 .. 6 /\ DOMAIN Fields[T] = 1 .. Len(Fields[T])
  BY FieldTable
<1>2. \A k \in 1 .. Len(Fields[T]) : FieldWeight(KindOf(T, k), m[NameOf(T, k)]) \in Nat
  <2> SUFFICES ASSUME NEW k \in 1 .. Len(Fields[T])
               PROVE  FieldWeight(KindOf(T, k), m[NameOf(T, k)]) \in Nat
    OBVIOUS
  <2>1. KindOf(T, k) \in Kinds /\ m[NameOf(T, k)] \in Value(KindOf(T, k))
    BY FieldTable, MsgField
  <2> QED
    BY <2>1, FieldSizeNat DEF FieldWeight
<1> DEFINE s == Weights(T, m)
           n == Len(Fields[T])
<1>3. /\ s = [k \in 1 .. n |-> FieldWeight(KindOf(T, k), m[NameOf(T, k)])]
  BY <1>1 DEF Weights
<1>4. s \in [1 .. n -> Nat] /\ n \in Nat
  BY <1>1, <1>2, <1>3
<1>5. s \in Seq(Nat) /\ Len(s) = n
  <2> HIDE DEF s, n
  <2> QED
    BY <1>4
<1>6. \A k \in 1 .. n : s[k] = FieldWeight(KindOf(T, k), m[NameOf(T, k)])
  BY <1>3
<1>7. m.unrecognized \in Bytes
  BY MsgField
<1>8. Len(m.unrecognized) \in Nat
  BY <1>7 DEF Bytes
<1>9. SumOf[s] \in Nat
  BY <1>5, SumOfDef
<1> QED
  BY <1>5, <1>6, <1>8, <1>9 DEF Weight

\* An enum takes at most the ten bytes of the longest varint.
LEMMA EnumSize ==
    ASSUME NEW v \in Value("enum")
    PROVE  FieldSize("enum", v, SizeOf) <= 1 + sovMsg(W64 - 1)
<1>1. "enum" \in Scalars \ {"bool"} /\ "enum" \in Scalars
  BY DEF Scalars
<1>2. sovMsg(W64 - 1) \in Nat /\ W64 - 1 \in Nat
  BY Widths, SovDef
<1>3. CASE v = ZeroOf("enum")
  BY <1>2, <1>3, FieldSizeZero
<1>4. CASE v # ZeroOf("enum")
  <2> DEFINE u == ToUint64("enum", v)
  <2>1. FieldSize("enum", v, SizeOf) = 1 + sovMsg(u)
    BY <1>1, <1>4, FieldSizeInteger
  <2>2. u \in 0 .. W64 - 1
    BY <1>1, Uint64RoundTrip
  <2> HIDE DEF u
  <2>3. sovMsg(u) \in 1 .. sovMsg(W64 - 1)
    BY <1>2, <2>2, SovMonotonic
  <2> QED
    BY <1>2, <2>1, <2>3
<1> QED
  BY <1>3, <1>4

\* Size is the weight and, in a Message, the bytes of its type.
LEMMA SizeWeight ==
    ASSUME NEW T \in Types, NEW m \in Msg(T)
    PROVE  /\ SizeOf[<<T, m>>] <= Weight(T, m) + 1 + sovMsg(W64 - 1)
           /\ T # "Message" => SizeOf[<<T, m>>] = Weight(T, m)
<1> DEFINE s == Weights(T, m)
           t == Sizes(T, m, SizeOf)
           n == Len(Fields[T])
           d == 1 + sovMsg(W64 - 1)
<1>1. /\ s \in Seq(Nat) /\ Len(s) = n /\ SumOf[s] \in Nat /\ Len(m.unrecognized) \in Nat
      /\ \A k \in 1 .. n : s[k] = FieldWeight(KindOf(T, k), m[NameOf(T, k)])
  BY WeightsType
<1>2. n \in 1 .. 6 /\ DOMAIN Fields[T] = 1 .. n
  BY FieldTable
<1>11. \A x \in 1 .. 6 : 1 \in 1 .. x
  OBVIOUS
<1>3. /\ t = [k \in 1 .. n |-> FieldSize(KindOf(T, k), m[NameOf(T, k)], SizeOf)]
  BY <1>2 DEF Sizes
<1>4. \A k \in 1 .. n : FieldSize(KindOf(T, k), m[NameOf(T, k)], SizeOf) \in Nat
  <2> SUFFICES ASSUME NEW k \in 1 .. n PROVE FieldSize(KindOf(T, k), m[NameOf(T, k)], SizeOf) \in Nat
    OBVIOUS
  <2>1. KindOf(T, k) \in Kinds /\ m[NameOf(T, k)] \in Value(KindOf(T, k))
    BY FieldTable, MsgField
  <2> QED
    BY <2>1, FieldSizeNat
<1>5. t \in Seq(Nat) /\ Len(t) = n
  <2>1. t \in [1 .. n -> Nat] /\ n \in Nat
    BY <1>2, <1>3, <1>4
  <2> HIDE DEF t, n
  <2> QED
    BY <2>1
<1>6. \A k \in 1 .. n : t[k] = FieldSize(KindOf(T, k), m[NameOf(T, k)], SizeOf)
  BY <1>3
<1>7. SizeOf[<<T, m>>] = SumOf[t] + Len(m.unrecognized) /\ SumOf[t] \in Nat
  BY <1>5, SizeOfDef, SumOfDef
<1>8. d \in Nat /\ sovMsg(W64 - 1) \in Nat
  BY Widths, SovDef
<1> HIDE DEF s, t, d
<1>9. CASE T = "Message"
  <2>1. \A k \in 1 .. n : k # 1 => KindOf(T, k) # "enum"
    BY EnumOnly
  <2>2. \A k \in 1 .. n : k # 1 => t[k] = s[k]
    BY <1>1, <1>6, <2>1 DEF FieldWeight
  <2>3. 1 \in 1 .. n /\ t[1] <= s[1] + d
    <3>1. 1 \in 1 .. n
      <4> HIDE DEF n
      <4> QED
        BY ONLY <1>2, <1>11
    <3>2. KindOf(T, 1) = "enum"
      BY <1>9 DEF KindOf, Fields, MessageFields, F
    <3>3. m[NameOf(T, 1)] \in Value("enum")
      BY <3>1, <3>2, MsgField
    <3>4. s[1] = 0
      BY <1>1, <3>1, <3>2 DEF FieldWeight
    <3>5. t[1] = FieldSize("enum", m[NameOf(T, 1)], SizeOf)
      BY <1>6, <3>1, <3>2
    <3>6. t[1] <= d
      BY <3>3, <3>5, EnumSize DEF d
    <3> QED
      BY <1>8, <3>1, <3>4, <3>6
  <2>4. DiffersBy(s, t, 1, d)
    BY <1>1, <1>5, <2>2, <2>3 DEF DiffersBy
  <2>5. SumOf[t] <= SumOf[s] + d
    BY <1>8, <2>4, SumCompare
  <2> QED
    BY <1>1, <1>7, <1>8, <1>9, <2>5 DEF Weight, s, d
<1>10. CASE T # "Message"
  <2>1. \A k \in 1 .. n : KindOf(T, k) # "enum"
    BY <1>10, EnumOnly
  <2>2. \A k \in 1 .. n : t[k] = s[k]
    BY <1>1, <1>6, <2>1 DEF FieldWeight
  <2>3. t = s
    BY <1>1, <1>5, <2>2, SeqEqual
  <2> QED
    BY <1>1, <1>7, <1>8, <2>3 DEF Weight, s
<1> QED
  BY <1>9, <1>10

\* A new message weighs nothing.
LEMMA WeightNew ==
    ASSUME NEW T \in Types
    PROVE  Weight(T, New(T)) = 0
<1> DEFINE m == New(T)
           s == Weights(T, m)
<1>1. /\ m \in Msg(T) /\ m.unrecognized = <<>>
      /\ \A k \in 1 .. Len(Fields[T]) : m[NameOf(T, k)] = ZeroOf(KindOf(T, k))
  BY NewProperties
<1> HIDE DEF m
<1>2. /\ s \in Seq(Nat) /\ Len(s) = Len(Fields[T])
      /\ \A k \in 1 .. Len(Fields[T]) : s[k] = FieldWeight(KindOf(T, k), m[NameOf(T, k)])
  BY <1>1, WeightsType
<1>3. \A k \in 1 .. Len(s) : s[k] = 0
  BY <1>1, <1>2, FieldSizeZero DEF FieldWeight
<1> HIDE DEF s
<1>4. SumOf[s] = 0
  BY <1>2, <1>3, SumZero
<1>5. Weight(T, m) = 0
  BY <1>1, <1>4 DEF Weight, s
<1> QED
  BY <1>5 DEF m

\* Decoding n bytes adds at most n to the weight of a message.
WeightAfter(n) ==
    \A T \in Types : \A m \in Msg(T) : \A d \in Bytes :
        Len(d) = n => \A q \in UnmarshalOf[<<T, m, d>>] : Weight(T, q) <= Weight(T, m) + n

\* An integer takes no more bytes than the varint it was read from.
LEMMA ScalarWeight ==
    ASSUME NEW kind \in Scalars, NEW v \in Value(kind), NEW n \in Nat, ScalarComes(kind, v, n)
    PROVE  FieldWeight(kind, v) <= n
<1>1. PICK u \in 0 .. W64 - 1 : v = FromUint64(kind, u) /\ 1 + sovMsg(u) <= n
  BY DEF ScalarComes
<1>2. u \in Nat /\ sovMsg(u) \in 1 .. sovMsg(u)
  BY <1>1, Widths, SovMonotonic
<1>3. sovMsg(u) \in Nat /\ sovMsg(u) >= 1
  BY <1>2, SovDef
<1>4. CASE v = ZeroOf(kind) \/ kind = "enum"
  BY <1>1, <1>3, <1>4, FieldSizeZero DEF FieldWeight
<1>5. CASE kind = "bool" /\ v # ZeroOf(kind)
  BY <1>1, <1>3, <1>5, FieldSizeBool DEF FieldWeight
<1>6. CASE kind \in {"uint32", "int64"} /\ v # ZeroOf(kind)
  <2>1. FieldWeight(kind, v) = 1 + sovMsg(ToUint64(kind, v))
    BY <1>6, FieldSizeInteger DEF FieldWeight, Scalars
  <2>2. ToUint64(kind, v) = v % W64
    BY <1>6, Uint64Cases
  <2>3. v % W64 \in 0 .. u
    <3>1. CASE kind = "uint32"
      <4>1. v = u % W32
        BY <1>1, <3>1, Uint64Cases
      <4>2. W32 \in Nat \ {0} /\ W64 \in Nat \ {0} /\ W32 < W64
        BY Widths
      <4>3. u % W32 \in 0 .. u /\ u % W32 < W64
        BY <1>2, <4>2
      <4>4. v % W64 = v
        BY <4>1, <4>2, <4>3
      <4> QED
        BY <4>1, <4>3, <4>4
    <3>2. CASE kind = "int64"
      <4>1. v = Signed(W64, u)
        BY <1>1, <3>2, Uint64Cases
      <4>2. W64 \div 2 \in Nat \ {0} /\ W64 = 2 * (W64 \div 2) /\ W64 \in Nat \ {0}
        BY Widths
      <4> DEFINE h == W64 \div 2
      <4>3. Signed(2 * h, u) % (2 * h) = u % (2 * h)
        BY <1>2, <4>2, SignedProperties
      <4>4. v % W64 = u % W64
        BY <4>1, <4>2, <4>3
      <4>5. u % W64 = u
        BY <1>1, <4>2
      <4> QED
        BY <1>2, <4>4, <4>5
    <3> QED
      BY <1>6, <3>1, <3>2
  <2>4. sovMsg(v % W64) \in 1 .. sovMsg(u)
    BY <1>2, <2>3, SovMonotonic
  <2> QED
    BY <1>1, <1>3, <2>1, <2>2, <2>4
<1> QED
  BY <1>4, <1>5, <1>6 DEF Scalars

\* Nor does a string.
LEMMA StringWeight ==
    ASSUME NEW old \in Bytes, NEW v, NEW n \in Nat, BodyComes("string", old, v, n)
    PROVE  FieldWeight("string", v) <= n
<1>1. PICK body \in Bytes : /\ v \in Received("string", old, body, UnmarshalOf)
                            /\ 1 + Len(body) + sovMsg(Len(body)) <= n
  BY DEF BodyComes
<1>2. v = body
  BY <1>1, ReceivedString
<1>3. CASE v = ZeroOf("string")
  BY <1>3, FieldSizeZero DEF FieldWeight
<1>4. CASE v # ZeroOf("string")
  BY <1>1, <1>2, <1>4, FieldSizeString DEF FieldWeight
<1> QED
  BY <1>3, <1>4

StringWeights(v) == [k \in DOMAIN v |-> 1 + Len(v[k]) + sovMsg(Len(v[k]))]

\* The weight of a list, and of a list with one more string.
LEMMA StringWeightsRule ==
    ASSUME NEW v \in Seq(Bytes)
    PROVE  /\ StringWeights(v) \in Seq(Nat)
           /\ FieldWeight("strings", v) = SumOf[StringWeights(v)]
           /\ \A body \in Bytes :
                /\ Append(v, body) \in Seq(Bytes)
                /\ StringWeights(Append(v, body))
                    = Append(StringWeights(v), 1 + Len(body) + sovMsg(Len(body)))
                /\ 1 + Len(body) + sovMsg(Len(body)) \in Nat
<1>1. \A body \in Bytes : 1 + Len(body) + sovMsg(Len(body)) \in Nat
  <2> SUFFICES ASSUME NEW body \in Bytes PROVE 1 + Len(body) + sovMsg(Len(body)) \in Nat
    OBVIOUS
  <2>1. Len(body) \in Nat
    BY DEF Bytes
  <2>2. sovMsg(Len(body)) \in Nat
    BY <2>1, SovDef
  <2> QED
    BY <2>1, <2>2
<1>2. \A w \in Seq(Bytes) : /\ StringWeights(w) \in Seq(Nat) /\ Len(StringWeights(w)) = Len(w)
                            /\ \A k \in 1 .. Len(w) :
                                StringWeights(w)[k] = 1 + Len(w[k]) + sovMsg(Len(w[k]))
  <2> SUFFICES ASSUME NEW w \in Seq(Bytes)
               PROVE  /\ StringWeights(w) \in Seq(Nat) /\ Len(StringWeights(w)) = Len(w)
                      /\ \A k \in 1 .. Len(w) :
                            StringWeights(w)[k] = 1 + Len(w[k]) + sovMsg(Len(w[k]))
    OBVIOUS
  <2>1. DOMAIN w = 1 .. Len(w) /\ Len(w) \in Nat /\ \A k \in 1 .. Len(w) : w[k] \in Bytes
    OBVIOUS
  <2>2. StringWeights(w) = [k \in 1 .. Len(w) |-> 1 + Len(w[k]) + sovMsg(Len(w[k]))]
    BY <2>1 DEF StringWeights
  <2>3. StringWeights(w) \in [1 .. Len(w) -> Nat]
    BY <1>1, <2>1, <2>2
  <2>4. StringWeights(w) \in Seq(Nat) /\ Len(StringWeights(w)) = Len(w)
    BY <2>1, <2>3
  <2> QED
    BY <2>2, <2>4
<1>3. ASSUME NEW body \in Bytes
      PROVE  /\ Append(v, body) \in Seq(Bytes)
             /\ StringWeights(Append(v, body))
                    = Append(StringWeights(v), 1 + Len(body) + sovMsg(Len(body)))
  <2> DEFINE d == 1 + Len(body) + sovMsg(Len(body))
             w == Append(v, body)
             s == Append(StringWeights(v), d)
             t == StringWeights(w)
  <2>1. d \in Nat
    BY <1>1
  <2>2. /\ w \in Seq(Bytes) /\ Len(w) = Len(v) + 1 /\ w[Len(v) + 1] = body /\ Len(v) \in Nat
        /\ \A k \in 1 .. Len(v) : w[k] = v[k]
    OBVIOUS
  <2>3. /\ t \in Seq(Nat) /\ Len(t) = Len(w)
        /\ \A k \in 1 .. Len(w) : t[k] = 1 + Len(w[k]) + sovMsg(Len(w[k]))
    BY <1>2, <2>2
  <2>4. /\ StringWeights(v) \in Seq(Nat) /\ Len(StringWeights(v)) = Len(v)
        /\ \A k \in 1 .. Len(v) : StringWeights(v)[k] = 1 + Len(v[k]) + sovMsg(Len(v[k]))
    BY <1>2
  <2> HIDE DEF w, t
  <2>5. d = 1 + Len(body) + sovMsg(Len(body))
    OBVIOUS
  <2> HIDE DEF d
  <2>6. /\ s \in Seq(Nat) /\ Len(s) = Len(v) + 1 /\ s[Len(v) + 1] = d
        /\ \A k \in 1 .. Len(v) : s[k] = StringWeights(v)[k]
    BY <2>1, <2>4
  <2> HIDE DEF s
  <2>7. \A k \in 1 .. Len(v) + 1 : t[k] = s[k]
    <3> SUFFICES ASSUME NEW k \in 1 .. Len(v) + 1 PROVE t[k] = s[k]
      OBVIOUS
    <3>1. CASE k = Len(v) + 1
      BY <2>2, <2>3, <2>5, <2>6, <3>1
    <3>2. CASE k \in 1 .. Len(v)
      BY <2>2, <2>3, <2>4, <2>6, <3>2
    <3> QED
      BY <2>2, <3>1, <3>2
  <2>8. t = s
    BY <2>2, <2>3, <2>6, <2>7, SeqEqual
  <2> QED
    BY <2>2, <2>5, <2>8 DEF t, s, w, d
<1>4. FieldWeight("strings", v) = SumOf[StringWeights(v)]
  <2>1. CASE v # ZeroOf("strings")
    BY <2>1, FieldSizeStrings DEF FieldWeight, StringWeights
  <2>2. CASE v = ZeroOf("strings")
    <3>1. v = <<>>
      BY <2>2, ZeroCases
    <3>2. StringWeights(v) = <<>>
      <4> DEFINE s == StringWeights(v)
      <4>1. s \in Seq(Nat) /\ Len(s) = Len(v)
        BY <1>2
      <4>2. Len(v) = 0
        BY <3>1
      <4> HIDE DEF s
      <4>3. s = <<>>
        BY ONLY <4>1, <4>2
      <4> QED
        BY <4>3 DEF s
    <3>3. SumOf[StringWeights(v)] = 0
      BY <1>2, <3>2, SumOfDef
    <3> QED
      BY <2>2, <3>3, FieldSizeZero DEF FieldWeight
  <2> QED
    BY <2>1, <2>2
<1> QED
  BY <1>1, <1>2, <1>3, <1>4

\* A list grows by no more than the string read.
LEMMA StringsWeight ==
    ASSUME NEW old \in Seq(Bytes), NEW v, NEW n \in Nat, BodyComes("strings", old, v, n)
    PROVE  FieldWeight("strings", v) <= FieldWeight("strings", old) + n
<1>1. PICK body \in Bytes : /\ v \in Received("strings", old, body, UnmarshalOf)
                            /\ 1 + Len(body) + sovMsg(Len(body)) <= n
  BY DEF BodyComes
<1> DEFINE d == 1 + Len(body) + sovMsg(Len(body))
<1>2. v = Append(old, body)
  BY <1>1, ReceivedStrings
<1>3. /\ v \in Seq(Bytes) /\ d \in Nat
      /\ StringWeights(v) = Append(StringWeights(old), d)
      /\ StringWeights(old) \in Seq(Nat)
      /\ FieldWeight("strings", old) = SumOf[StringWeights(old)]
  BY <1>2, StringWeightsRule
<1>4. FieldWeight("strings", v) = SumOf[StringWeights(v)]
  BY <1>3, StringWeightsRule
<1>5. d <= n
  BY <1>1
<1>6. SumOf[StringWeights(old)] \in Nat
  BY <1>3, SumOfDef
<1> HIDE DEF d
<1>7. SumOf[Append(StringWeights(old), d)] = SumOf[StringWeights(old)] + d
  BY <1>3, SumAppend
<1> QED
  BY <1>3, <1>4, <1>5, <1>6, <1>7

\* The weight of a message in a message.
LEMMA PartFieldWeight ==
    ASSUME NEW kind \in Parts, NEW x \in Msg(kind)
    PROVE  /\ kind \in Types /\ kind # "Message" /\ kind # "enum"
           /\ Weight(kind, x) \in Nat
           /\ FieldWeight(kind, <<x>>) = 1 + Weight(kind, x) + sovMsg(Weight(kind, x))
<1>1. kind \in Types /\ kind # "Message" /\ kind # "enum"
  BY DEF Parts, Types
<1>2. Weight(kind, x) \in Nat
  BY <1>1, WeightsType
<1>3. SizeOf[<<kind, x>>] = Weight(kind, x)
  BY <1>1, SizeWeight
<1> DEFINE v == <<x>>
<1>4. v # ZeroOf(kind) /\ v[1] = x
  BY ZeroCases
<1> HIDE DEF v
<1>5. FieldWeight(kind, v) = 1 + SizeOf[<<kind, x>>] + sovMsg(SizeOf[<<kind, x>>])
  BY <1>1, <1>4, FieldSizePart DEF FieldWeight
<1> QED
  BY <1>1, <1>2, <1>3, <1>5 DEF v

\* A message merged into another grows by no more than the bytes read.
LEMMA PartWeight ==
    ASSUME NEW kind \in Parts, NEW old \in Value(kind), NEW v, NEW n \in Nat,
           BodyComes(kind, old, v, n), \A i \in Nat : i < n => WeightAfter(i)
    PROVE  FieldWeight(kind, v) <= FieldWeight(kind, old) + n
<1>1. PICK body \in Bytes : /\ v \in Received(kind, old, body, UnmarshalOf)
                            /\ 1 + Len(body) + sovMsg(Len(body)) <= n
  BY DEF BodyComes
<1>2. kind \in Types /\ Target(kind, old) \in Msg(kind) /\ kind # "Message"
  BY TargetType DEF Parts
<1> DEFINE y == Target(kind, old)
           L == Len(body)
<1>3. PICK x \in UnmarshalOf[<<kind, y, body>>] : v = <<x>>
  BY <1>1, ReceivedPart
<1>4. L \in Nat
  BY DEF Bytes
<1>5. sovMsg(L) \in Nat
  BY <1>4, SovDef
<1>6. <<kind, y, body>> \in Decoding
  BY <1>2, DecodingRule
<1>7. x \in Msg(kind)
  BY <1>3, <1>6, UnmarshalOfDef
<1>8. L < n
  BY <1>1, <1>4, <1>5
<1>9. WeightAfter(L)
  BY <1>4, <1>8
<1>10. Weight(kind, x) <= Weight(kind, y) + L
  BY <1>2, <1>3, <1>9 DEF WeightAfter
<1>11. Weight(kind, y) \in Nat /\ Weight(kind, x) \in Nat
  BY <1>2, <1>7, WeightsType
<1> DEFINE wx == Weight(kind, x)
           wy == Weight(kind, y)
<1>12. FieldWeight(kind, v) = 1 + wx + sovMsg(wx)
  BY <1>3, <1>7, PartFieldWeight
<1>13. wx \in Nat /\ wy \in Nat /\ wx <= wy + L
  BY <1>10, <1>11
<1>14. CASE old = <<>>
  <2>1. y = New(kind)
    BY <1>14 DEF Target
  <2>2. wy = 0
    BY <1>2, <2>1, WeightNew
  <2>3. FieldWeight(kind, old) = 0
    BY <1>14, ZeroCases, FieldSizeZero DEF FieldWeight
  <2> HIDE DEF wx, wy, L, y
  <2>4. wx \in 0 .. L
    BY <1>4, <1>13, <2>2
  <2>5. sovMsg(wx) \in 1 .. sovMsg(L)
    BY <1>4, <2>4, SovMonotonic
  <2> QED
    BY <1>1, <1>4, <1>5, <1>12, <1>13, <2>3, <2>4, <2>5 DEF L
<1>15. CASE old # <<>>
  <2>1. y = old[1] /\ old = <<old[1]>> /\ old[1] \in Msg(kind)
    BY <1>15, ZeroCases, PartValue DEF Target
  <2>2. FieldWeight(kind, <<y>>) = 1 + wy + sovMsg(wy)
    BY <1>2, PartFieldWeight
  <2>3. FieldWeight(kind, old) = 1 + wy + sovMsg(wy)
    BY <2>1, <2>2
  <2>4. 1 + L + sovMsg(L) <= n
    BY <1>1
  <2> HIDE DEF wx, wy, L, y
  <2>5. sovMsg(wy) \in Nat
    BY <1>13, SovDef
  <2>6. wy + L \in Nat /\ wx \in 0 .. (wy + L)
    BY <1>4, <1>13
  <2>7. sovMsg(wx) \in 1 .. sovMsg(wy + L)
    BY <2>6, SovMonotonic
  <2>8. sovMsg(wy + L) <= sovMsg(wy) + sovMsg(L)
    BY <1>4, <1>13, SovSum
  <2>9. sovMsg(wy + L) \in Nat
    BY <2>6, SovDef
  <2> QED
    BY <1>4, <1>5, <1>12, <1>13, <2>3, <2>4, <2>5, <2>7, <2>8, <2>9
<1> QED
  BY <1>14, <1>15

\* No field grows by more than the bytes it was read from.
LEMMA FieldWeightGrows ==
    ASSUME NEW kind \in Kinds, NEW old \in Value(kind), NEW v \in Value(kind), NEW n \in Nat,
           Comes(kind, old, v, n), \A i \in Nat : i < n => WeightAfter(i)
    PROVE  FieldWeight(kind, v) <= FieldWeight(kind, old) + n
<1>1. FieldWeight(kind, old) \in Nat /\ FieldWeight(kind, v) \in Nat
  BY FieldSizeNat DEF FieldWeight
<1>2. CASE kind \in Scalars
  <2>1. ScalarComes(kind, v, n)
    BY <1>2 DEF Comes
  <2>2. FieldWeight(kind, v) <= n
    BY <1>2, <2>1, ScalarWeight
  <2> QED
    BY <1>1, <2>2
<1>3. CASE kind \notin Scalars
  <2>1. BodyComes(kind, old, v, n)
    BY <1>3 DEF Comes
  <2>2. CASE kind = "string"
    <3>1. FieldWeight("string", v) <= n
      BY <2>1, <2>2, ValueCases, StringWeight
    <3> QED
      BY <1>1, <2>2, <3>1
  <2>3. CASE kind = "strings"
    BY <2>1, <2>3, ValueCases, StringsWeight
  <2>4. CASE kind \in Parts
    BY <2>1, <2>4, PartWeight
  <2> QED
    BY <1>3, <2>2, <2>3, <2>4 DEF Kinds
<1> QED
  BY <1>2, <1>3

\* Setting a field changes the weight of that field only.
LEMMA WeightSet ==
    ASSUME NEW T \in Types, NEW m \in Msg(T), NEW k \in 1 .. Len(Fields[T]),
           NEW v \in Value(KindOf(T, k)), NEW n \in Nat,
           FieldWeight(KindOf(T, k), v) <= FieldWeight(KindOf(T, k), m[NameOf(T, k)]) + n
    PROVE  Weight(T, [m EXCEPT ![NameOf(T, k)] = v]) <= Weight(T, m) + n
<1> DEFINE p == [m EXCEPT ![NameOf(T, k)] = v]
           s == Weights(T, m)
           t == Weights(T, p)
<1>1. /\ p \in Msg(T) /\ p.unrecognized = m.unrecognized /\ p[NameOf(T, k)] = v
      /\ \A j \in 1 .. Len(Fields[T]) : j # k => p[NameOf(T, j)] = m[NameOf(T, j)]
  BY MsgExcept
<1> HIDE DEF p
<1>2. /\ s \in Seq(Nat) /\ Len(s) = Len(Fields[T]) /\ SumOf[s] \in Nat /\ Len(m.unrecognized) \in Nat
      /\ \A j \in 1 .. Len(Fields[T]) : s[j] = FieldWeight(KindOf(T, j), m[NameOf(T, j)])
  BY WeightsType
<1>3. /\ t \in Seq(Nat) /\ Len(t) = Len(Fields[T]) /\ SumOf[t] \in Nat
      /\ \A j \in 1 .. Len(Fields[T]) : t[j] = FieldWeight(KindOf(T, j), p[NameOf(T, j)])
  BY <1>1, WeightsType
<1> HIDE DEF s, t
<1>4. \A j \in 1 .. Len(s) : j # k => t[j] = s[j]
  BY <1>1, <1>2, <1>3
<1>5. t[k] <= s[k] + n
  BY <1>1, <1>2, <1>3
<1>6. DiffersBy(s, t, k, n)
  BY <1>2, <1>3, <1>4, <1>5 DEF DiffersBy
<1>7. SumOf[t] <= SumOf[s] + n
  BY <1>6, SumCompare
<1>8. Weight(T, p) = SumOf[t] + Len(m.unrecognized) /\ Weight(T, m) = SumOf[s] + Len(m.unrecognized)
  BY <1>1 DEF Weight, s, t
<1>9. Weight(T, p) <= Weight(T, m) + n
  BY <1>2, <1>3, <1>7, <1>8
<1> QED
  BY <1>9 DEF p

\* Keeping an unknown field adds its bytes.
LEMMA WeightKeep ==
    ASSUME NEW T \in Types, NEW m \in Msg(T), NEW u \in Bytes
    PROVE  Weight(T, Keep(m, u)) = Weight(T, m) + Len(u)
<1> DEFINE p == Keep(m, u)
           s == Weights(T, m)
           t == Weights(T, p)
<1>1. /\ p \in Msg(T)
      /\ \A k \in 1 .. Len(Fields[T]) : p[NameOf(T, k)] = m[NameOf(T, k)]
  BY KeepProperties
<1>2. /\ Len(m.unrecognized) \in Nat /\ Len(u) \in Nat
      /\ Len(p.unrecognized) = Len(m.unrecognized) + Len(u)
  BY KeepLength
<1> HIDE DEF p
<1>3. /\ s \in Seq(Nat) /\ Len(s) = Len(Fields[T]) /\ SumOf[s] \in Nat
      /\ \A j \in 1 .. Len(Fields[T]) : s[j] = FieldWeight(KindOf(T, j), m[NameOf(T, j)])
  BY WeightsType
<1>4. /\ t \in Seq(Nat) /\ Len(t) = Len(Fields[T])
      /\ \A j \in 1 .. Len(Fields[T]) : t[j] = FieldWeight(KindOf(T, j), p[NameOf(T, j)])
  BY <1>1, WeightsType
<1> HIDE DEF s, t
<1>5. \A j \in 1 .. Len(s) : t[j] = s[j]
  BY <1>1, <1>3, <1>4
<1>6. t = s
  BY <1>3, <1>4, <1>5, SeqEqual
<1>7. Weight(T, p) = SumOf[s] + Len(p.unrecognized) /\ Weight(T, m) = SumOf[s] + Len(m.unrecognized)
  BY <1>6 DEF Weight, s, t
<1>8. Weight(T, p) = Weight(T, m) + Len(u)
  BY <1>2, <1>3, <1>7
<1> QED
  BY <1>8 DEF p

\* One round of the loop adds at most the bytes it reads.
LEMMA WeightRound ==
    ASSUME NEW T \in Types, NEW m \in Msg(T), NEW b \in Bytes, NEW r \in Field(T, m, b, UnmarshalOf),
           r.n \in 1 .. Len(b), r.n \in Nat, \A i \in Nat : i < r.n => WeightAfter(i)
    PROVE  Weight(T, r.m) <= Weight(T, m) + r.n
<1>1. CASE SetsField(T, m, r)
  <2>0. PICK k \in 1 .. Len(Fields[T]) : \E v \in Value(KindOf(T, k)) :
        /\ r.m = [m EXCEPT ![NameOf(T, k)] = v]
        /\ Comes(KindOf(T, k), m[NameOf(T, k)], v, r.n)
    BY <1>1 DEF SetsField
  <2>1. PICK v \in Value(KindOf(T, k)) :
        /\ r.m = [m EXCEPT ![NameOf(T, k)] = v]
        /\ Comes(KindOf(T, k), m[NameOf(T, k)], v, r.n)
    BY <2>0
  <2> DEFINE kind == KindOf(T, k)
             old == m[NameOf(T, k)]
             n == r.n
  <2>2. kind \in Kinds /\ old \in Value(kind) /\ v \in Value(kind) /\ n \in Nat
    BY FieldTable, MsgField
  <2>3. Comes(kind, old, v, n)
    BY <2>1
  <2>4. \A i \in Nat : i < n => WeightAfter(i)
    OBVIOUS
  <2> HIDE DEF kind, old, n
  <2>5. FieldWeight(kind, v) <= FieldWeight(kind, old) + n
    BY <2>2, <2>3, <2>4, FieldWeightGrows
  <2> USE DEF kind, old, n
  <2>6. FieldWeight(KindOf(T, k), v) <= FieldWeight(KindOf(T, k), m[NameOf(T, k)]) + n
    BY <2>5
  <2> QED
    BY <2>1, <2>6, WeightSet
<1>2. CASE KeepsUnknown(T, m, b, r)
  <2> DEFINE u == SubSeq(b, 1, r.n)
  <2>1. r.m = Keep(m, u)
    BY <1>2 DEF KeepsUnknown
  <2>2. r.n \in 0 .. Len(b)
    BY DEF Bytes
  <2>3. u \in Bytes /\ Len(u) = r.n
    BY <2>2, SplitBytes
  <2> HIDE DEF u
  <2>4. Weight(T, r.m) = Weight(T, m) + r.n
    BY <2>1, <2>3, WeightKeep
  <2>5. Weight(T, m) \in Nat
    BY WeightsType
  <2> QED
    BY <2>4, <2>5
<1> QED
  BY <1>1, <1>2, RoundSorts

\* Unmarshal builds no more than it reads: apart from the type, what a message
\* occupies when it is written again grows by at most the bytes decoded.
LEMMA WeightDecoded ==
    ASSUME NEW T \in Types, NEW m \in Msg(T), NEW b \in Bytes, NEW p \in UnmarshalOf[<<T, m, b>>]
    PROVE  Weight(T, p) <= Weight(T, m) + Len(b)
<1> DEFINE Good == {n \in Nat : WeightAfter(n)}
<1>1. ASSUME NEW n \in Nat, \A i \in Nat : i < n => i \in Good PROVE n \in Good
  <2>1. \A i \in Nat : i < n => WeightAfter(i)
    BY <1>1
  <2> HIDE DEF Good
  <2>2. ASSUME NEW S \in Types, NEW x \in Msg(S), NEW d \in Bytes, Len(d) = n,
               NEW q \in UnmarshalOf[<<S, x, d>>]
        PROVE  Weight(S, q) <= Weight(S, x) + n
    <3>0. Weight(S, x) \in Nat
      BY WeightsType
    <3>1. CASE d = <<>>
      <4>1. q = x
        BY <3>1, UnmarshalEmpty
      <4> QED
        BY <3>0, <4>1
    <3>2. CASE d # <<>>
      <4>1. PICK r \in Field(S, x, d, UnmarshalOf) : q \in UnmarshalOf[<<S, r.m, Drop(d, r.n)>>]
        BY <3>2, UnmarshalMember
      <4>2. r.m \in Msg(S) /\ r.n \in 1 .. Len(d) /\ Len(d) \in Nat /\ r.n \in Nat /\ r.n <= n
        BY <2>2, UnmarshalTyped, FieldProperties DEF Bytes
      <4>3. \A i \in Nat : i < r.n => WeightAfter(i)
        BY <2>1, <4>2
      <4>4. Weight(S, r.m) <= Weight(S, x) + r.n
        BY <4>2, <4>3, WeightRound
      <4> DEFINE e == Drop(d, r.n)
      <4>5. e \in Bytes /\ Len(e) = Len(d) - r.n
        <5>1. r.n \in 0 .. Len(d)
          BY <4>2
        <5> QED
          BY <5>1, SplitBytes
      <4>6. q \in UnmarshalOf[<<S, r.m, e>>]
        BY <4>1
      <4> HIDE DEF e
      <4>7. Len(e) \in Nat /\ Len(e) < n
        BY <2>2, <4>2, <4>5
      <4>8. WeightAfter(Len(e))
        BY <2>1, <4>7
      <4>9. Weight(S, q) <= Weight(S, r.m) + Len(e)
        BY <4>2, <4>5, <4>6, <4>8 DEF WeightAfter
      <4>10. <<S, r.m, e>> \in Decoding
        BY <4>2, <4>5, DecodingRule
      <4>11. q \in Msg(S)
        BY <4>6, <4>10, UnmarshalOfDef
      <4>12. Weight(S, r.m) \in Nat /\ Weight(S, q) \in Nat
        BY <4>2, <4>11, WeightsType
      <4> QED
        BY <2>2, <3>0, <4>2, <4>4, <4>5, <4>9, <4>12
    <3> QED
      BY <3>1, <3>2
  <2>3. WeightAfter(n)
    BY <2>2 DEF WeightAfter
  <2> QED
    BY <2>3 DEF Good
<1>2. Nat \subseteq Good
  <2> HIDE DEF Good
  <2> QED
    BY <1>1, StrongInduction
<1>3. Len(b) \in Nat
  BY DEF Bytes
<1>4. WeightAfter(Len(b))
  BY <1>2, <1>3
<1> QED
  BY <1>4 DEF WeightAfter

\* A quarter of W64 and the bytes of a type are below half of it.
LEMMA RoomForType ==
    ASSUME NEW n \in Nat, n < W64 \div 4
    PROVE  n + 1 + sovMsg(W64 - 1) < W64 \div 2
<1>1. W64 \in Nat /\ W64 - 1 \in Nat /\ W32 \in Nat /\ W32 >= 130 /\ W64 >= 260
  <2>1. W32 \in Nat /\ W64 \in Nat /\ W32 % 2 = 0 /\ W32 > 128 /\ W64 > W32
    BY WidthAssumption
  <2>2. W64 % W32 = 0
    BY WidthAssumption
  <2>3. W32 >= 130
    BY <2>1
  <2>4. ASSUME W64 < 2 * W32 PROVE FALSE
    <3>1. W64 = 1 * W32 + (W64 - W32) /\ W64 - W32 \in 0 .. W32 - 1
      BY <2>1, <2>4
    <3> DEFINE r == W64 - W32
    <3>2. (1 * W32 + r) % W32 = r
      <4> HIDE DEF r
      <4> QED
        BY <2>1, <3>1, ModUnique DEF r
    <3> QED
      BY <2>1, <2>2, <3>1, <3>2
  <2> QED
    BY <2>1, <2>3, <2>4
<1>2. sovMsg(W64 - 1) <= 1 + ((W64 - 1) \div 128)
  BY <1>1, SovSmall
<1>3. sovMsg(W64 - 1) \in Nat
  BY <1>1, SovDef
<1> DEFINE x == sovMsg(W64 - 1)
<1> HIDE DEF x
<1>4. x \in Nat /\ x <= 1 + ((W64 - 1) \div 128)
  BY <1>2, <1>3 DEF x
<1>5. n + 1 + x < W64 \div 2
  BY <1>1, <1>4
<1> QED
  BY <1>5 DEF x

\* What Unmarshal returns is written and read again unchanged: decoded from fewer
\* than W64 \div 4 bytes it fits a slice when it is written, also where a negative
\* type takes more bytes than it came in.
THEOREM DecodedRoundTrip ==
    ASSUME NEW T \in Types, NEW b \in Bytes, Len(b) < W64 \div 4, NEW p \in Unmarshal(T, b)
    PROVE  Unmarshal(T, Marshal(T, p)) = {p}
<1> DEFINE m == New(T)
<1>1. m \in Msg(T) /\ Clean(T, m) /\ Weight(T, m) = 0
  BY NewProperties, CleanNew, WeightNew
<1>2. p \in UnmarshalOf[<<T, m, b>>]
  BY DEF Unmarshal
<1> HIDE DEF m
<1>3. <<T, m, b>> \in Decoding
  BY <1>1, DecodingRule
<1>4. p \in Msg(T)
  BY <1>2, <1>3, UnmarshalOfDef
<1>5. Clean(T, p)
  BY <1>1, <1>2, CleanDecoded
<1>6. Weight(T, p) <= Weight(T, m) + Len(b)
  BY <1>1, <1>2, WeightDecoded
<1>7. Weight(T, p) \in Nat /\ Len(b) \in Nat
  BY <1>4, WeightsType DEF Bytes
<1>8. SizeOf[<<T, p>>] <= Weight(T, p) + 1 + sovMsg(W64 - 1)
  BY <1>4, SizeWeight
<1>9. Len(b) + 1 + sovMsg(W64 - 1) < W64 \div 2
  BY <1>7, RoomForType
<1>10. sovMsg(W64 - 1) \in Nat /\ W64 \div 2 \in Nat
  BY Widths, SovDef
<1>11. SizeOf[<<T, p>>] \in Nat /\ SizeOf[<<T, p>>] = Len(Marshal(T, p))
  BY <1>4, SizeNat DEF Marshal
<1>12. Len(Marshal(T, p)) < W64 \div 2
  BY <1>1, <1>6, <1>7, <1>8, <1>9, <1>10, <1>11
<1> QED
  BY <1>4, <1>5, <1>12, RoundTrip
=============================================================================
