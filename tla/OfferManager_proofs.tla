------------------------ MODULE OfferManager_proofs ------------------------
(***************************************************************************)
(* Proofs about OfferManager, for any number of requests, contracts and    *)
(* SetOffer calls, any sizes, expiry times and capacities, and any number  *)
(* of crashes.  IInv is inductive: TypeOK needs TrimInv (the rebuilt array *)
(* has no negative length, the trimmer's index is one of om.contracts),    *)
(* and TrimInv needs LockInv (nobody appends during the rebuild).          *)
(***************************************************************************)
EXTENDS OfferManager, FiniteSetTheorems, SequenceTheorems, TLAPS

(* uint32 arithmetic stays in its range. *)
LEMMA ModuloRange ==
    ASSUME NEW a \in Nat
    PROVE  a % W \in 0 .. W-1
BY DataAssumption

LEMMA PlusRange ==
    ASSUME NEW a \in 0 .. W-1, NEW b \in 0 .. W-1
    PROVE  Plus(a, b) \in 0 .. W-1
<1>1. a + b \in Nat
  BY DataAssumption
<1> QED BY <1>1, ModuloRange DEF Plus

LEMMA MinusRange ==
    ASSUME NEW a \in 0 .. W-1, NEW b \in 0 .. W-1
    PROVE  Minus(a, b) \in 0 .. W-1
<1>1. a + W - b \in Nat
  BY DataAssumption
<1> QED BY <1>1, ModuloRange DEF Minus

(* The zero entries behind the kept ones make a list of contracts. *)
LEMMA PaddingIsSeq ==
    ASSUME NEW n \in Nat
    PROVE  [i \in 1 .. n |-> Zero] \in Seq(Contract)
<1>1. [i \in 1 .. n |-> Zero] \in [1 .. n -> Contract]
  BY DEF Contract
<1> QED BY <1>1, SeqDef

(* The indices kept by the rebuild and the marked ones are disjoint and are
   all indices of om.contracts, so the new array has room. *)
LEMMA RoomForKept ==
    ASSUME TypeOK, TrimInv, trim = "loop"
    PROVE  /\ IsFiniteSet(toTrim)
           /\ Cardinality(toTrim) \in Nat
           /\ IsFiniteSet(KeptIndices)
           /\ Len(newContracts) + Cardinality(toTrim) <= Len(contracts)
<1> DEFINE All == 1 .. Len(contracts)
<1>1. Len(contracts) \in Nat /\ limit \in Nat /\ ix \in Nat /\ limit <= Len(contracts)
      /\ ix <= limit + 1 /\ toTrim \subseteq 1 .. limit
      /\ Len(newContracts) = Cardinality(KeptIndices)
  BY LenProperties DEF TypeOK, TrimInv
<1>2. toTrim \in SUBSET All /\ KeptIndices \in SUBSET All /\ KeptIndices \cup toTrim \in SUBSET All
      /\ KeptIndices \cap toTrim = {}
  BY <1>1 DEF KeptIndices
<1>3. IsFiniteSet(All) /\ Cardinality(All) = Len(contracts)
  <2>1. 1 \in Int /\ Len(contracts) \in Int
    BY <1>1
  <2>2. /\ IsFiniteSet(1 .. Len(contracts))
        /\ Cardinality(1 .. Len(contracts)) =
               IF 1 > Len(contracts) THEN 0 ELSE Len(contracts) - 1 + 1
    BY <2>1, FS_Interval
  <2> QED BY <1>1, <2>2
<1> HIDE DEF All
<1>4. IsFiniteSet(toTrim) /\ IsFiniteSet(KeptIndices)
      /\ Cardinality(KeptIndices \cup toTrim) <= Cardinality(All)
  BY <1>2, <1>3, FS_Subset
<1>5. Cardinality(toTrim) \in Nat /\ Cardinality(KeptIndices) \in Nat
  BY <1>4, FS_CardinalityType
<1>6. Cardinality(KeptIndices \cup toTrim) = Cardinality(KeptIndices) + Cardinality(toTrim)
  <2>1. Cardinality(KeptIndices \cup toTrim) =
            Cardinality(KeptIndices) + Cardinality(toTrim) - Cardinality(KeptIndices \cap toTrim)
    BY <1>4, FS_Union
  <2> QED BY <2>1, <1>2, <1>5, FS_EmptySet
<1> QED BY <1>1, <1>3, <1>4, <1>5, <1>6

LEMMA RebuiltIsSeq ==
    ASSUME TypeOK, TrimInv, trim = "loop"
    PROVE  Rebuilt \in Seq(Contract)
<1> DEFINE n == Len(contracts) - Cardinality(toTrim) - Len(newContracts)
<1>1. Len(newContracts) \in Nat /\ Len(contracts) \in Nat /\ newContracts \in Seq(Contract)
  BY LenProperties DEF TypeOK
<1>2. n \in Nat
  BY <1>1, RoomForKept
<1> HIDE DEF n
<1>3. [i \in 1 .. n |-> Zero] \in Seq(Contract)
  BY <1>2, PaddingIsSeq
<1> QED BY <1>1, <1>3, ConcatProperties DEF Rebuilt, n

-----------------------------------------------------------------------------
LEMMA TypeStep == TypeOK /\ TrimInv /\ [Next]_vars => TypeOK'
<1> SUFFICES ASSUME TypeOK, TrimInv, [Next]_vars PROVE TypeOK'
  OBVIOUS
<1> USE DEF TypeOK, procVars, offerVars, trimVars, pinVars, envVars
<1>1. ASSUME NEW r \in Requests, ProcessStorageRequest(r) PROVE TypeOK'
  <2> USE <1>1 DEF Goto, Receive, RequestStates, Working
  <2>1. CASE Consider(r)
    BY <2>1 DEF Consider
  <2>2. CASE Refuse(r)
    BY <2>2 DEF Refuse
  <2>3. CASE Host(r)
    BY <2>3 DEF Host
  <2>4. CASE HostFails(r)
    BY <2>4 DEF HostFails
  <2>5. CASE StoreContract(r)
    <3>1. Append(contracts, r) \in Seq(Contract)
      BY AppendProperties DEF Contract
    <3> QED BY <2>5, <3>1 DEF StoreContract
  <2>6. CASE StoreFails(r)
    BY <2>6 DEF StoreFails
  <2>7. CASE WriteBegin(r)
    <3>1. Unreadable \in [ok : BOOLEAN, list : Seq(Contract)]
      BY DEF Unreadable
    <3> QED BY <2>7, <3>1 DEF WriteBegin
  <2>8. CASE WriteEnd(r)
    BY <2>8 DEF WriteEnd, Saved
  <2>9. CASE WriteFault(r)
    BY <2>9 DEF WriteFault
  <2>10. CASE Charge(r)
    <3>1. Minus(capacity, Size[r]) \in 0 .. W-1
      BY MinusRange, DataAssumption
    <3> QED BY <2>10, <3>1 DEF Charge
  <2> QED BY <2>1, <2>2, <2>3, <2>4, <2>5, <2>6, <2>7, <2>8, <2>9, <2>10
      DEF ProcessStorageRequest
<1>2. ASSUME NEW r \in Requests, Unpin(r) PROVE TypeOK'
  BY <1>2 DEF Unpin
<1>3. ASSUME NEW s \in Setters, SetOffer(s) PROVE TypeOK'
  <2>1. OfferCap[s] \in 0 .. W-1
    BY DataAssumption
  <2>2. CASE SetOfferAgain(s)
    BY <2>1, <2>2 DEF SetOfferAgain, SetterStates
  <2>3. CASE SetOfferCheck(s)
    BY <2>3 DEF SetOfferCheck, SetterStates
  <2>4. CASE SetOfferLocked(s)
    BY <2>1, <2>4 DEF SetOfferLocked, SetterStates
  <2> QED BY <1>3, <2>2, <2>3, <2>4 DEF SetOffer
<1>4. CASE ContractTrimmer
  <2> USE DEF TrimStates
  <2>1. CASE TrimTick
    <3>1. Len(contracts) \in Nat
      BY LenProperties
    <3> QED BY <2>1, <3>1 DEF TrimTick
  <2>2. CASE TrimScan
    <3>1. toTrim' = toTrim \/ toTrim' = toTrim \cup {ix}
      BY <2>2 DEF TrimScan
    <3>2. ix \in Nat \ {0} /\ toTrim \subseteq Nat \ {0} /\ ix' = ix + 1
      BY <2>2 DEF TrimScan
    <3> HIDE DEF TypeOK
    <3>3. toTrim' \subseteq Nat \ {0}
      BY <3>1, <3>2
    <3>4. ix' \in Nat \ {0}
      BY <3>2
    <3> QED BY <2>2, <3>3, <3>4 DEF TrimScan, TypeOK
  <2>3. CASE TrimScanned
    BY <2>3 DEF TrimScanned
  <2>4. CASE TrimLock
    BY <2>4 DEF TrimLock
  <2>5. CASE TrimExpired
    <3>1. ix \in 1 .. Len(contracts)
      BY <2>5, LenProperties DEF TrimExpired, TrimInv
    <3>2. contracts[ix] \in Contract
      BY <3>1, ElementOfSeq
    <3>3. ASSUME contracts[ix] # Zero
          PROVE  Plus(capacity, Size[contracts[ix]]) \in 0 .. W-1
      <4>1. contracts[ix] \in Requests
        BY <3>2, <3>3 DEF Contract
      <4>2. Size[contracts[ix]] \in 0 .. W-1
        BY <4>1, DataAssumption
      <4> QED BY <4>2, PlusRange
    <3>4. capacity' \in 0 .. W-1
      BY <2>5, <3>3 DEF TrimExpired
    <3>5. unpins' \subseteq Requests
      BY <2>5, <3>2 DEF TrimExpired, Contract
    <3> QED BY <2>5, <3>4, <3>5 DEF TrimExpired
  <2>6. CASE TrimKeep
    <3>1. ix \in 1 .. Len(contracts)
      BY <2>6, LenProperties DEF TrimKeep, TrimInv
    <3>2. Append(newContracts, contracts[ix]) \in Seq(Contract)
      BY <3>1, ElementOfSeq, AppendProperties
    <3> QED BY <2>6, <3>2 DEF TrimKeep
  <2>7. CASE TrimCommit
    BY <2>7, RebuiltIsSeq DEF TrimCommit
  <2>8. CASE TrimStoreFails
    BY <2>8 DEF TrimStoreFails
  <2>9. CASE TrimWriteBegin
    <3>1. Unreadable \in [ok : BOOLEAN, list : Seq(Contract)]
      BY DEF Unreadable
    <3> QED BY <2>9, <3>1 DEF TrimWriteBegin
  <2>10. CASE TrimWriteEnd
    BY <2>10 DEF TrimWriteEnd, Saved
  <2>11. CASE TrimWriteFault
    BY <2>11 DEF TrimWriteFault
  <2> QED BY <1>4, <2>1, <2>2, <2>3, <2>4, <2>5, <2>6, <2>7, <2>8, <2>9, <2>10, <2>11
      DEF ContractTrimmer
<1>5. CASE Tick
  BY <1>5 DEF Tick
<1>6. CASE Crash
  <2>1. pc' \in [Requests -> RequestStates]
    BY <1>6 DEF Crash, RequestStates
  <2>2. rpc' \in [Setters -> SetterStates]
    BY <1>6 DEF Crash, SetterStates
  <2>3. pinned' \subseteq {Cid[r] : r \in Requests}
    BY <1>6 DEF Crash
  <2>4. trim' \in TrimStates
    BY <1>6 DEF Crash, TrimStates
  <2>5. capacity' \in 0 .. W-1 /\ granted' \in 0 .. W-1
    BY <1>6, DataAssumption DEF Crash
  <2>6. unpins' \subseteq Requests /\ toTrim' \subseteq Nat \ {0}
    BY <1>6 DEF Crash
  <2>7. contracts' \in Seq(Contract) /\ newContracts' \in Seq(Contract)
    BY <1>6 DEF Crash
  <2>8. up' \in BOOLEAN /\ isOfferSet' \in BOOLEAN /\ UNCHANGED <<file, now>>
    BY <1>6 DEF Crash
  <2>9. lock' \in Requests \cup {Free, Trimmer}
    BY <1>6 DEF Crash
  <2>10. ix' \in Nat \ {0} /\ limit' \in Nat
    BY <1>6 DEF Crash
  <2>11. crashes' \in Nat
    BY <1>6 DEF Crash
  <2> QED BY <2>1, <2>2, <2>3, <2>4, <2>5, <2>6, <2>7, <2>8, <2>9, <2>10, <2>11
<1>7. CASE Restart
  <2>1. file.list \in Seq(Contract)
    OBVIOUS
  <2> QED BY <1>7, <2>1 DEF Restart
<1>8. CASE UNCHANGED vars
  BY <1>8 DEF vars
<1> QED BY <1>1, <1>2, <1>3, <1>4, <1>5, <1>6, <1>7, <1>8 DEF Next

-----------------------------------------------------------------------------
LEMMA LockStep == TypeOK /\ LockInv /\ [Next]_vars => LockInv'
<1> SUFFICES ASSUME TypeOK, LockInv, [Next]_vars PROVE LockInv'
  OBVIOUS
<1> USE SentinelAssumption
    DEF LockInv, Locked, TrimLocked, procVars, offerVars, trimVars, pinVars, envVars
<1>0. /\ pc \in [Requests -> RequestStates]
      /\ lock \in Requests \cup {Free, Trimmer}
  BY DEF TypeOK
<1>1. ASSUME NEW r \in Requests, ProcessStorageRequest(r) PROVE LockInv'
  <2> USE <1>0 DEF Goto, Receive
  <2>1. CASE Consider(r)
    BY <2>1 DEF Consider
  <2>2. CASE Refuse(r)
    BY <2>2 DEF Refuse
  <2>3. CASE Host(r) \/ HostFails(r)
    BY <2>3 DEF Host, HostFails
  <2>4. CASE StoreContract(r)
    BY <2>4 DEF StoreContract
  <2>5. CASE StoreFails(r)
    BY <2>5 DEF StoreFails
  <2>6. CASE WriteBegin(r)
    BY <2>6 DEF WriteBegin
  <2>7. CASE WriteEnd(r)
    BY <2>7 DEF WriteEnd
  <2>8. CASE WriteFault(r)
    BY <2>8 DEF WriteFault
  <2>9. CASE Charge(r)
    BY <2>9 DEF Charge
  <2> QED BY <1>1, <2>1, <2>2, <2>3, <2>4, <2>5, <2>6, <2>7, <2>8, <2>9
      DEF ProcessStorageRequest
<1>2. ASSUME NEW r \in Requests, Unpin(r) PROVE LockInv'
  BY <1>2 DEF Unpin
<1>3. ASSUME NEW s \in Setters, SetOffer(s) PROVE LockInv'
  BY <1>3 DEF SetOffer, SetOfferAgain, SetOfferCheck, SetOfferLocked
<1>4. CASE ContractTrimmer
  <2>1. CASE TrimTick \/ TrimScan \/ TrimScanned
    BY <2>1 DEF TrimTick, TrimScan, TrimScanned
  <2>2. CASE TrimLock
    BY <2>2 DEF TrimLock
  <2>3. CASE TrimExpired \/ TrimKeep \/ TrimCommit
    BY <2>3 DEF TrimExpired, TrimKeep, TrimCommit
  <2>4. CASE TrimStoreFails \/ TrimWriteEnd \/ TrimWriteFault
    BY <2>4 DEF TrimStoreFails, TrimWriteEnd, TrimWriteFault
  <2>5. CASE TrimWriteBegin
    BY <2>5 DEF TrimWriteBegin
  <2> QED BY <1>4, <2>1, <2>2, <2>3, <2>4, <2>5 DEF ContractTrimmer
<1>5. CASE Tick \/ Restart
  BY <1>5 DEF Tick, Restart
<1>6. CASE Crash
  BY <1>6 DEF Crash, Working
<1>7. CASE UNCHANGED vars
  BY <1>7 DEF vars
<1> QED BY <1>1, <1>2, <1>3, <1>4, <1>5, <1>6, <1>7 DEF Next

-----------------------------------------------------------------------------
LEMMA TrimStep == TypeOK /\ LockInv /\ TrimInv /\ [Next]_vars => TrimInv'
<1> SUFFICES ASSUME TypeOK, LockInv, TrimInv, [Next]_vars PROVE TrimInv'
  OBVIOUS
<1> USE DEF procVars, offerVars, trimVars, pinVars, envVars
<1>0. /\ contracts \in Seq(Contract) /\ Len(contracts) \in Nat
      /\ ix \in Nat \ {0} /\ limit \in Nat
  BY LenProperties DEF TypeOK
<1>a. ASSUME UNCHANGED <<contracts, trimVars>> PROVE TrimInv'
  BY <1>a DEF TrimInv, KeptIndices
<1>1. ASSUME NEW r \in Requests, StoreContract(r) PROVE TrimInv'
  <2>1. Len(contracts') = Len(contracts) + 1
    BY <1>0, <1>1, AppendProperties DEF StoreContract, Contract
  <2>2. trim # "loop"
    BY <1>1, SentinelAssumption DEF StoreContract, LockInv, TrimLocked
  <2>3. UNCHANGED trimVars
    BY <1>1 DEF StoreContract
  <2> QED BY <1>0, <2>1, <2>2, <2>3 DEF TrimInv
<1>2. ASSUME NEW r \in Requests, ProcessStorageRequest(r), ~StoreContract(r)
      PROVE  UNCHANGED <<contracts, trimVars>>
  BY <1>2 DEF ProcessStorageRequest, Receive, Consider, Refuse, Host, HostFails,
     StoreFails, WriteBegin, WriteEnd, WriteFault, Charge
<1>3. ASSUME NEW r \in Requests, Unpin(r) PROVE TrimInv'
  BY <1>3, <1>a DEF Unpin
<1>4. ASSUME NEW s \in Setters, SetOffer(s) PROVE TrimInv'
  BY <1>4, <1>a DEF SetOffer, SetOfferAgain, SetOfferCheck, SetOfferLocked
<1>5. CASE ContractTrimmer
  <2>1. CASE TrimTick
    BY <1>0, <2>1 DEF TrimTick, TrimInv
  <2>2. CASE TrimScan
    <3>1. toTrim' = toTrim \/ toTrim' = toTrim \cup {ix}
      BY <2>2 DEF TrimScan
    <3>2. toTrim' \subseteq 1 .. ix'-1
      BY <1>0, <2>2, <3>1 DEF TrimScan, TrimInv
    <3> QED BY <1>0, <2>2, <3>2 DEF TrimScan, TrimInv
  <2>3. CASE TrimScanned
    BY <1>0, <2>3 DEF TrimScanned, TrimInv
  <2>4. CASE TrimLock
    <3>1. KeptIndices' = {}
      BY <2>4 DEF TrimLock, KeptIndices
    <3>2. Len(newContracts') = Cardinality(KeptIndices')
      BY <2>4, <3>1, FS_EmptySet DEF TrimLock
    <3> QED BY <1>0, <2>4, <3>2 DEF TrimLock, TrimInv
  <2>5. CASE TrimExpired
    <3>1. KeptIndices' = KeptIndices
      BY <1>0, <2>5 DEF TrimExpired, KeptIndices
    <3>2. ix <= limit
      BY <1>0, <2>5 DEF TrimExpired, TrimInv
    <3> QED BY <1>0, <2>5, <3>1, <3>2 DEF TrimExpired, TrimInv
  <2>6. CASE TrimKeep
    <3>1. IsFiniteSet(KeptIndices) /\ ix \notin KeptIndices
      BY <1>0, <2>6, RoomForKept DEF TrimKeep, KeptIndices
    <3>2. KeptIndices' = KeptIndices \cup {ix}
      BY <1>0, <2>6 DEF TrimKeep, KeptIndices
    <3>3. Cardinality(KeptIndices') = Cardinality(KeptIndices) + 1
      BY <3>1, <3>2, FS_AddElement
    <3>4. ix < limit
      BY <1>0, <2>6 DEF TrimKeep, TrimInv
    <3>5. Len(newContracts') = Len(newContracts) + 1
      <4>1. contracts[ix] \in Contract
        BY <1>0, <2>6, <3>4, ElementOfSeq DEF TrimKeep, TrimInv
      <4> QED BY <2>6, <4>1, AppendProperties DEF TrimKeep, TypeOK
    <3>6. Len(newContracts') = Cardinality(KeptIndices')
      BY <2>6, <3>3, <3>5 DEF TrimKeep, TrimInv
    <3> QED BY <1>0, <2>6, <3>4, <3>6 DEF TrimKeep, TrimInv
  <2>7. CASE TrimCommit
    BY <2>7 DEF TrimCommit, TrimInv
  <2>8. CASE TrimStoreFails \/ TrimWriteBegin \/ TrimWriteEnd \/ TrimWriteFault
    BY <2>8 DEF TrimStoreFails, TrimWriteBegin, TrimWriteEnd, TrimWriteFault, TrimInv
  <2> QED BY <1>5, <2>1, <2>2, <2>3, <2>4, <2>5, <2>6, <2>7, <2>8 DEF ContractTrimmer
<1>6. CASE Tick
  BY <1>6, <1>a DEF Tick
<1>7. CASE Crash
  BY <1>7 DEF Crash, TrimInv
<1>8. CASE Restart
  <2>1. trim \notin {"scan", "lock", "loop"}
    BY <1>8 DEF Restart, LockInv
  <2> QED BY <1>8, <2>1 DEF Restart, TrimInv
<1>9. CASE UNCHANGED vars
  BY <1>9, <1>a DEF vars
<1> QED BY <1>1, <1>2, <1>3, <1>4, <1>5, <1>6, <1>7, <1>8, <1>9, <1>a DEF Next

-----------------------------------------------------------------------------
(* Everything about the file.  It needs writes that do not fail. *)
LEMMA FileStep ==
    ASSUME ~DiskFaults
    PROVE  TypeOK /\ LockInv /\ FileInv /\ [Next]_vars => FileInv'
<1> SUFFICES ASSUME TypeOK, LockInv, FileInv, [Next]_vars PROVE FileInv'
  OBVIOUS
<1> USE SentinelAssumption
    DEF FileInv, DiskMatchesMemory, Idle, Saved, Unreadable,
        procVars, offerVars, trimVars, pinVars, envVars
<1>0. /\ pc \in [Requests -> RequestStates]
      /\ file \in [ok : BOOLEAN, list : Seq(Contract)]
  BY DEF TypeOK
<1>a. ASSUME UNCHANGED <<contracts, file, lock, pc, up>> PROVE FileInv'
  BY <1>a DEF MarshalFails
<1>1. ASSUME NEW r \in Requests, ProcessStorageRequest(r) PROVE FileInv'
  <2> USE <1>0 DEF Goto, Receive, MarshalFails
  <2>1. CASE Consider(r)
    BY <2>1 DEF Consider
  <2>2. CASE Refuse(r)
    BY <2>2 DEF Refuse
  <2>3. CASE Host(r)
    BY <2>3 DEF Host
  <2>4. CASE HostFails(r)
    BY <2>4 DEF HostFails
  <2>5. CASE StoreContract(r)
    BY <2>5 DEF StoreContract, LockInv, Locked
  <2>6. CASE StoreFails(r)
    BY <2>6 DEF StoreFails
  <2>7. CASE WriteBegin(r)
    BY <2>7 DEF WriteBegin, LockInv, Locked
  <2>8. CASE WriteEnd(r)
    BY <2>8 DEF WriteEnd, LockInv, Locked
  <2>9. CASE WriteFault(r)
    BY <2>9 DEF WriteFault
  <2>10. CASE Charge(r)
    BY <2>10 DEF Charge
  <2> QED BY <1>1, <2>1, <2>2, <2>3, <2>4, <2>5, <2>6, <2>7, <2>8, <2>9, <2>10
      DEF ProcessStorageRequest
<1>2. ASSUME NEW r \in Requests, Unpin(r) PROVE FileInv'
  BY <1>2, <1>a DEF Unpin
<1>3. ASSUME NEW s \in Setters, SetOffer(s) PROVE FileInv'
  BY <1>3, <1>a DEF SetOffer, SetOfferAgain, SetOfferCheck, SetOfferLocked
<1>4. CASE ContractTrimmer
  <2>0. ASSUME trim \in TrimLocked
        PROVE  lock = Trimmer /\ \A r \in Requests : pc[r] # "charging"
    BY <2>0 DEF LockInv, Locked
  <2>1. CASE TrimTick \/ TrimScan \/ TrimScanned
    BY <2>1, <1>a DEF TrimTick, TrimScan, TrimScanned
  <2>2. CASE TrimLock
    BY <2>2 DEF TrimLock
  <2>3. CASE TrimExpired \/ TrimKeep
    BY <2>3, <1>a DEF TrimExpired, TrimKeep
  <2>4. CASE TrimCommit
    BY <2>0, <2>4 DEF TrimCommit, TrimLocked
  <2>5. CASE TrimStoreFails
    BY <2>5 DEF TrimStoreFails, MarshalFails
  <2>6. CASE TrimWriteBegin
    BY <2>0, <2>6 DEF TrimWriteBegin, TrimLocked
  <2>7. CASE TrimWriteEnd
    BY <2>0, <2>7 DEF TrimWriteEnd, TrimLocked
  <2>8. CASE TrimWriteFault
    BY <2>8 DEF TrimWriteFault
  <2> QED BY <1>4, <2>1, <2>2, <2>3, <2>4, <2>5, <2>6, <2>7, <2>8 DEF ContractTrimmer
<1>5. CASE Tick
  BY <1>5, <1>a DEF Tick
<1>6. CASE Crash
  BY <1>6, <1>0 DEF Crash, Working
<1>7. CASE Restart
  BY <1>7, <1>0 DEF Restart, LockInv, Locked
<1>8. CASE UNCHANGED vars
  BY <1>8, <1>a DEF vars
<1> QED BY <1>1, <1>2, <1>3, <1>4, <1>5, <1>6, <1>7, <1>8 DEF Next

-----------------------------------------------------------------------------
LEMMA IInvInit == Init => IInv
<1> SUFFICES ASSUME Init PROVE IInv
  OBVIOUS
<1>1. TypeOK
  <2>1. capacity \in 0 .. W-1 /\ granted \in 0 .. W-1
    BY DataAssumption DEF Init
  <2>2. file \in [ok : BOOLEAN, list : Seq(Contract)]
    BY DEF Init, Unreadable
  <2>3. contracts \in Seq(Contract) /\ newContracts \in Seq(Contract)
    BY DEF Init
  <2>4. pc \in [Requests -> RequestStates] /\ rpc \in [Setters -> SetterStates]
    BY DEF Init, RequestStates, SetterStates
  <2>5. trim \in TrimStates /\ lock \in Requests \cup {Free, Trimmer}
    BY DEF Init, TrimStates
  <2>6. /\ toTrim \subseteq Nat \ {0}
        /\ pinned \subseteq {Cid[r] : r \in Requests} /\ unpins \subseteq Requests
    BY DEF Init
  <2>7. ix \in Nat \ {0} /\ limit \in Nat /\ now \in Nat /\ crashes \in Nat
    BY DEF Init
  <2>8. up \in BOOLEAN /\ isOfferSet \in BOOLEAN
    BY DEF Init
  <2> QED BY <2>1, <2>2, <2>3, <2>4, <2>5, <2>6, <2>7, <2>8 DEF TypeOK
<1>2. LockInv
  BY SentinelAssumption DEF Init, LockInv, Locked, TrimLocked
<1>3. TrimInv
  BY DEF Init, TrimInv
<1> QED BY <1>1, <1>2, <1>3 DEF IInv

LEMMA IInvHolds == Spec => []IInv
<1>1. IInv /\ [Next]_vars => IInv'
  BY TypeStep, LockStep, TrimStep DEF IInv
<1> QED BY IInvInit, <1>1, PTL DEF Spec

(* Every field of the OfferManager keeps its type in every execution: the
   capacity arithmetic of ProcessStorageRequest and contractTrimmer wraps but
   stays a uint32, and the rebuilt contracts array is a proper one. *)
THEOREM TypeCorrect == Spec => []TypeOK
<1>1. IInv => TypeOK
  BY DEF IInv
<1> QED BY IInvHolds, <1>1, PTL

(* contractTrimmer never panics, although it scans om.contracts without the
   lock while requests append to it. *)
THEOREM TrimmerNeverPanics == Spec => []TrimNeverPanics
<1>1. IInv => TrimNeverPanics
  <2> SUFFICES ASSUME IInv PROVE TrimNeverPanics
    OBVIOUS
  <2>1. trim \in {"scan", "lock", "loop"} =>
            limit <= Len(contracts) /\ toTrim \subseteq 1 .. limit
    BY DEF IInv, TrimInv, TypeOK
  <2>2. trim = "loop" => Len(newContracts) + Cardinality(toTrim) <= Len(contracts)
    BY RoomForKept DEF IInv
  <2> QED BY <2>1, <2>2 DEF TrimNeverPanics
<1> QED BY IInvHolds, <1>1, PTL

(* As long as writes to the contracts file do not fail, the file agrees with
   memory between critical sections, through any number of crashes. *)
THEOREM FileIsCurrent ==
    ASSUME ~DiskFaults
    PROVE  Spec => []DiskMatchesMemory
<1>1. Init => FileInv
  BY DEF Init, FileInv, DiskMatchesMemory, Unreadable
<1>2. IInv /\ FileInv /\ [Next]_vars => FileInv'
  BY FileStep DEF IInv
<1>3. FileInv => DiskMatchesMemory
  BY DEF FileInv
<1> QED BY IInvHolds, <1>1, <1>2, <1>3, PTL DEF Spec

-----------------------------------------------------------------------------
(* No step uncovers a contract: only expired ones are unpinned, and what is
   unpinned is the content of no other contract. *)
LEMMA CoveredGrows ==
    ASSUME TypeOK, \A r \in unpins : Expires[r] < now,
           \A r, q \in Requests : Cid[r] = Cid[q] => r = q,
           [Next]_vars
    PROVE  Covered \subseteq Covered' /\ now' \in Nat /\ now <= now'
<1> USE DEF procVars, offerVars, trimVars, pinVars, envVars
<1>0. now \in Nat /\ Expires \in [Requests -> Nat]
  BY DataAssumption DEF TypeOK
<1>a. ASSUME now' = now, pinned \subseteq pinned'
      PROVE  Covered \subseteq Covered' /\ now' \in Nat /\ now <= now'
  BY <1>0, <1>a DEF Covered
<1>1. ASSUME NEW r \in Requests, ProcessStorageRequest(r)
      PROVE  now' = now /\ pinned \subseteq pinned'
  BY <1>1 DEF ProcessStorageRequest, Receive, Consider, Refuse, Host, HostFails,
     StoreContract, StoreFails, WriteBegin, WriteEnd, WriteFault, Charge
<1>2. ASSUME NEW r \in Requests, Unpin(r)
      PROVE  Covered \subseteq Covered' /\ now' \in Nat /\ now <= now'
  <2>1. now' = now /\ pinned' = pinned \ {Cid[r]} /\ Expires[r] < now
    BY <1>2 DEF Unpin
  <2>2. ASSUME NEW q \in Covered PROVE q \in Covered'
    <3>1. CASE q = r
      BY <2>1, <2>2, <3>1 DEF Covered
    <3>2. CASE q # r
      BY <2>1, <2>2, <3>2 DEF Covered
    <3> QED BY <3>1, <3>2
  <2> QED BY <1>0, <2>1, <2>2
<1>3. ASSUME NEW s \in Setters, SetOffer(s) PROVE now' = now /\ pinned \subseteq pinned'
  BY <1>3 DEF SetOffer, SetOfferAgain, SetOfferCheck, SetOfferLocked
<1>4. ASSUME ContractTrimmer PROVE now' = now /\ pinned \subseteq pinned'
  BY <1>4 DEF ContractTrimmer, TrimTick, TrimScan, TrimScanned, TrimLock, TrimExpired, TrimKeep,
     TrimCommit, TrimStoreFails, TrimWriteBegin, TrimWriteEnd, TrimWriteFault
<1>5. CASE Tick
  <2>1. now' = now + 1 /\ pinned' = pinned
    BY <1>5 DEF Tick
  <2> QED BY <1>0, <2>1 DEF Covered
<1>6. ASSUME Crash PROVE now' = now /\ pinned \subseteq pinned'
  BY <1>6 DEF Crash
<1>7. ASSUME Restart \/ UNCHANGED vars PROVE now' = now /\ pinned \subseteq pinned'
  BY <1>7 DEF Restart, vars
<1> QED BY <1>a, <1>1, <1>2, <1>3, <1>4, <1>5, <1>6, <1>7 DEF Next

(* The marks stay those of expired contracts while time goes on and om.contracts
   grows at its end. *)
LEMMA MarksStay ==
    ASSUME TypeOK, TrimInv, now' \in Nat, now <= now', UNCHANGED <<trim, toTrim>>,
           \A i \in 1 .. Len(contracts) : contracts'[i] = contracts[i],
           trim \in {"scan", "lock", "loop"} => \A i \in toTrim : Expired(contracts[i])
    PROVE  trim' \in {"scan", "lock", "loop"} => \A i \in toTrim' : Expired(contracts[i])'
<1> SUFFICES ASSUME trim \in {"scan", "lock", "loop"}, NEW i \in toTrim
             PROVE  Expired(contracts[i])'
  OBVIOUS
<1>1. i \in 1 .. Len(contracts)
  BY LenProperties DEF TrimInv, TypeOK
<1>2. contracts[i] \in Contract /\ contracts'[i] = contracts[i]
  BY <1>1, ElementOfSeq DEF TypeOK
<1>3. Expired(contracts[i]) /\ now \in Nat
  BY DEF TypeOK
<1> QED BY <1>2, <1>3, DataAssumption DEF Expired, Contract

LEMMA PinStep ==
    ASSUME ~TornReads, \A r, q \in Requests : Cid[r] = Cid[q] => r = q
    PROVE  IInv /\ PinInv /\ [Next]_vars => PinInv'
<1> SUFFICES ASSUME IInv, PinInv, [Next]_vars PROVE PinInv'
  OBVIOUS
<1> USE DEF procVars, offerVars, trimVars, pinVars, envVars
<1>0. /\ TypeOK /\ TrimInv /\ LockInv
      /\ \A r \in unpins : Expires[r] < now
      /\ trim \in {"scan", "lock", "loop"} => \A i \in toTrim : Expired(contracts[i])
      /\ {r \in Requests : pc[r] = "hosted"} \subseteq Covered
      /\ {contracts, newContracts, file.list} \subseteq Seq(Covered \cup {Zero})
  BY DEF IInv, PinInv
<1>1. Covered \subseteq Covered' /\ now' \in Nat /\ now <= now'
  BY <1>0, CoveredGrows
<1>2. /\ Expires \in [Requests -> Nat] /\ now \in Nat /\ unpins \subseteq Requests
      /\ pc \in [Requests -> RequestStates] /\ contracts \in Seq(Contract)
      /\ Len(contracts) \in Nat /\ file \in [ok : BOOLEAN, list : Seq(Contract)]
  BY <1>0, DataAssumption, LenProperties DEF TypeOK
<1>3. \A q \in Seq(Covered \cup {Zero}) : q \in Seq(Covered' \cup {Zero})
  BY <1>1, SeqMonotonic
<1>4. ASSUME unpins' \subseteq unpins PROVE \A r \in unpins' : Expires[r] < now'
  BY <1>0, <1>1, <1>2, <1>4
<1>5. ASSUME \A r \in Requests : pc'[r] = "hosted" => pc[r] = "hosted"
      PROVE  {r \in Requests : pc'[r] = "hosted"} \subseteq Covered'
  BY <1>0, <1>1, <1>5
<1>6. ASSUME UNCHANGED <<trim, toTrim, contracts>>
      PROVE  trim' \in {"scan", "lock", "loop"} => \A i \in toTrim' : Expired(contracts[i])'
  BY <1>0, <1>1, <1>6, MarksStay
<1>7. ASSUME {contracts', newContracts', file'.list} \subseteq {contracts, newContracts, file.list, <<>>}
      PROVE  {contracts', newContracts', file'.list} \subseteq Seq(Covered' \cup {Zero})
  <2>1. <<>> \in Seq(Covered' \cup {Zero})
    BY EmptySeq
  <2> QED BY <1>0, <1>3, <1>7, <2>1
<1>8. ASSUME UNCHANGED <<contracts, newContracts, unpins, trim, toTrim>>,
             file' \in {file, Unreadable, Saved(contracts)},
             \A r \in Requests : pc'[r] = "hosted" => pc[r] = "hosted"
      PROVE  PinInv'
  <2>1. {contracts', newContracts', file'.list} \subseteq {contracts, newContracts, file.list, <<>>}
    BY <1>8 DEF Unreadable, Saved
  <2> QED BY <1>4, <1>5, <1>6, <1>7, <1>8, <2>1 DEF PinInv
<1>9. ASSUME NEW r \in Requests, ProcessStorageRequest(r) PROVE PinInv'
  <2>1. CASE Host(r)
    <3>1. {q \in Requests : pc'[q] = "hosted"} \subseteq Covered'
      <4>1. r \in Covered'
        BY <2>1 DEF Host, Covered
      <4>2. \A q \in Requests \ {r} : pc'[q] = pc[q]
        BY <1>2, <2>1 DEF Host, Goto
      <4> QED BY <1>0, <1>1, <4>1, <4>2
    <3>2. UNCHANGED <<contracts, newContracts, file, unpins, trim, toTrim>>
      BY <2>1 DEF Host
    <3>3. {contracts', newContracts', file'.list} \subseteq Seq(Covered' \cup {Zero})
      BY <1>7, <3>2
    <3> QED BY <1>4, <1>6, <3>1, <3>2, <3>3 DEF PinInv
  <2>2. CASE StoreContract(r)
    <3>1. /\ contracts' = Append(contracts, r) /\ pc[r] = "hosted"
          /\ UNCHANGED <<newContracts, file, unpins, trim, toTrim>>
          /\ \A q \in Requests : pc'[q] = "hosted" => pc[q] = "hosted"
      BY <1>2, <2>2 DEF StoreContract, Goto
    <3>2. r \in Covered' /\ contracts \in Seq(Covered' \cup {Zero})
      BY <1>0, <1>1, <1>3, <3>1
    <3>3. contracts' \in Seq(Covered' \cup {Zero})
      BY <3>1, <3>2, AppendProperties
    <3>4. {contracts', newContracts', file'.list} \subseteq Seq(Covered' \cup {Zero})
      BY <1>0, <1>3, <3>1, <3>3
    <3>5. \A i \in 1 .. Len(contracts) : contracts'[i] = contracts[i]
      BY <1>2, <3>1, AppendProperties DEF Contract
    <3>6. trim' \in {"scan", "lock", "loop"} => \A i \in toTrim' : Expired(contracts[i])'
      BY <1>0, <1>1, <3>1, <3>5, MarksStay
    <3> QED BY <1>4, <1>5, <3>1, <3>4, <3>6 DEF PinInv
  <2>3. CASE Consider(r) \/ Refuse(r) \/ HostFails(r) \/ StoreFails(r) \/ WriteBegin(r)
             \/ WriteEnd(r) \/ WriteFault(r) \/ Charge(r)
    <3>1. \A q \in Requests : pc'[q] = "hosted" => pc[q] = "hosted"
      BY <1>2, <2>3 DEF Goto, Consider, Refuse, HostFails, StoreFails, WriteBegin, WriteEnd,
         WriteFault, Charge
    <3>2. /\ UNCHANGED <<contracts, newContracts, unpins, trim, toTrim>>
          /\ file' \in {file, Unreadable, Saved(contracts)}
      BY <2>3 DEF Receive, Consider, Refuse, HostFails, StoreFails, WriteBegin, WriteEnd,
         WriteFault, Charge
    <3> QED BY <1>8, <3>1, <3>2
  <2> QED BY <1>9, <2>1, <2>2, <2>3 DEF ProcessStorageRequest
<1>10. ASSUME NEW r \in Requests, Unpin(r) PROVE PinInv'
  <2>1. unpins' \subseteq unpins /\ UNCHANGED <<contracts, newContracts, file, trim, toTrim, pc>>
    BY <1>10 DEF Unpin
  <2> QED BY <1>4, <1>5, <1>6, <1>7, <2>1 DEF PinInv
<1>11. ASSUME NEW s \in Setters, SetOffer(s) PROVE PinInv'
  BY <1>8, <1>11 DEF SetOffer, SetOfferAgain, SetOfferCheck, SetOfferLocked
<1>12. CASE ContractTrimmer
  <2>0. UNCHANGED <<pc, now>>
    BY <1>12 DEF ContractTrimmer, TrimTick, TrimScan, TrimScanned, TrimLock, TrimExpired, TrimKeep,
       TrimCommit, TrimStoreFails, TrimWriteBegin, TrimWriteEnd, TrimWriteFault
  <2>a. ASSUME UNCHANGED contracts, trim' \in {"scan", "lock", "loop"},
               (trim \in {"scan", "lock", "loop"} /\ toTrim' = toTrim) \/ toTrim' = {}
        PROVE  \A i \in toTrim' : Expired(contracts[i])'
    BY <1>0, <2>0, <2>a DEF Expired
  <2>1. CASE TrimTick
    <3>1. UNCHANGED <<contracts, newContracts, file, unpins>> /\ toTrim' = {}
      BY <2>1 DEF TrimTick
    <3> QED BY <1>4, <1>5, <1>7, <2>0, <3>1 DEF PinInv
  <2>2. CASE TrimScan
    <3>1. UNCHANGED <<contracts, newContracts, file, unpins, trim>> /\ trim = "scan"
      BY <2>2 DEF TrimScan
    <3>2. toTrim' = toTrim \/ (toTrim' = toTrim \cup {ix} /\ Expired(contracts[ix]))
      BY <2>2 DEF TrimScan, Torn
    <3>3. \A i \in toTrim' : Expired(contracts[i])'
      BY <1>0, <2>0, <3>1, <3>2 DEF Expired
    <3> QED BY <1>4, <1>5, <1>7, <2>0, <3>1, <3>3 DEF PinInv
  <2>3. CASE TrimScanned \/ TrimLock
    <3>1. /\ UNCHANGED <<contracts, file, unpins, toTrim>> /\ trim \in {"scan", "lock", "loop"}
          /\ newContracts' \in {newContracts, <<>>}
      BY <2>3 DEF TrimScanned, TrimLock
    <3> QED BY <1>4, <1>5, <1>7, <2>0, <2>a, <3>1 DEF PinInv
  <2>4. CASE TrimExpired
    <3>1. /\ UNCHANGED <<contracts, newContracts, file, toTrim, trim>>
          /\ unpins' = unpins \cup ({contracts[ix]} \ {Zero}) /\ Expired(contracts[ix])
      BY <1>0, <2>4 DEF TrimExpired
    <3>2. \A r \in unpins' : Expires[r] < now'
      BY <1>0, <2>0, <3>1 DEF Expired
    <3> QED BY <1>5, <1>6, <1>7, <2>0, <3>1, <3>2 DEF PinInv
  <2>5. CASE TrimKeep
    <3>1. /\ UNCHANGED <<contracts, file, unpins, toTrim, trim>>
          /\ newContracts' = Append(newContracts, contracts[ix])
      BY <2>5 DEF TrimKeep
    <3>a. ix \in 1 .. Len(contracts)
      <4>1. /\ trim = "loop" /\ \E m \in toTrim : m > ix
            /\ ix \in Nat \ {0} /\ limit \in Nat
        BY <1>0, <2>5 DEF TrimKeep, TypeOK
      <4>2. toTrim \subseteq 1 .. limit /\ limit <= Len(contracts)
        BY <1>0, <4>1 DEF TrimInv
      <4> QED BY <1>2, <4>1, <4>2
    <3>2. contracts[ix] \in Covered \cup {Zero}
      BY <1>0, <3>a, ElementOfSeq
    <3>3. newContracts' \in Seq(Covered \cup {Zero})
      BY <1>0, <3>1, <3>2, AppendProperties
    <3>4. {contracts', newContracts', file'.list} \subseteq Seq(Covered' \cup {Zero})
      BY <1>0, <1>3, <3>1, <3>3
    <3> QED BY <1>4, <1>5, <1>6, <2>0, <3>1, <3>4 DEF PinInv
  <2>6. CASE TrimCommit
    <3>1. /\ UNCHANGED <<newContracts, file, unpins, toTrim>>
          /\ contracts' = Rebuilt /\ trim = "loop" /\ trim' = "commit"
      BY <2>6 DEF TrimCommit
    <3>2. Rebuilt \in Seq(Covered \cup {Zero})
      <4> DEFINE n == Len(contracts) - Cardinality(toTrim) - Len(newContracts)
      <4>1. n \in Nat
        BY <1>0, <1>2, <3>1, RoomForKept, LenProperties DEF TypeOK
      <4> HIDE DEF n
      <4>2. [i \in 1 .. n |-> Zero] \in [1 .. n -> Covered \cup {Zero}]
        OBVIOUS
      <4>3. [i \in 1 .. n |-> Zero] \in Seq(Covered \cup {Zero})
        BY <4>1, <4>2, SeqDef
      <4> QED BY <1>0, <4>3, ConcatProperties DEF Rebuilt, n
    <3>3. {contracts', newContracts', file'.list} \subseteq Seq(Covered' \cup {Zero})
      BY <1>0, <1>3, <3>1, <3>2
    <3> QED BY <1>4, <1>5, <2>0, <3>1, <3>3 DEF PinInv
  <2>7. CASE TrimStoreFails \/ TrimWriteBegin \/ TrimWriteEnd \/ TrimWriteFault
    <3>1. /\ UNCHANGED <<contracts, newContracts, unpins, toTrim>>
          /\ trim' \notin {"scan", "lock", "loop"}
          /\ file' \in {file, Unreadable, Saved(contracts)}
      BY <2>7 DEF TrimStoreFails, TrimWriteBegin, TrimWriteEnd, TrimWriteFault
    <3>2. {contracts', newContracts', file'.list} \subseteq {contracts, newContracts, file.list, <<>>}
      BY <3>1 DEF Unreadable, Saved
    <3> QED BY <1>4, <1>5, <1>7, <2>0, <3>1, <3>2 DEF PinInv
  <2> QED BY <1>12, <2>1, <2>2, <2>3, <2>4, <2>5, <2>6, <2>7 DEF ContractTrimmer
<1>13. CASE Tick
  BY <1>8, <1>13 DEF Tick
<1>14. CASE Crash
  <2>1. /\ contracts' = <<>> /\ newContracts' = <<>> /\ file' = file
        /\ trim' = "tick" /\ unpins' \subseteq unpins
    BY <1>14 DEF Crash
  <2>2. \A r \in Requests : pc'[r] = "hosted" => pc[r] = "hosted"
    BY <1>14 DEF Crash, Working
  <2>3. {contracts', newContracts', file'.list} \subseteq {contracts, newContracts, file.list, <<>>}
    BY <2>1
  <2> QED BY <1>4, <1>5, <1>7, <2>1, <2>2, <2>3 DEF PinInv
<1>15. CASE Restart
  <2>1. /\ contracts' = file.list /\ UNCHANGED <<newContracts, file, unpins, pc>>
        /\ trim' = "tick"
    BY <1>0, <1>15 DEF Restart, LockInv
  <2>2. {contracts', newContracts', file'.list} \subseteq {contracts, newContracts, file.list, <<>>}
    BY <2>1
  <2> QED BY <1>4, <1>5, <1>7, <2>1, <2>2 DEF PinInv
<1>16. CASE UNCHANGED vars
  BY <1>8, <1>16 DEF vars
<1> QED BY <1>9, <1>10, <1>11, <1>12, <1>13, <1>14, <1>15, <1>16 DEF Next

(* The content of a contract that has not expired stays pinned, through any
   number of expiries, trims, crashes and restarts, provided that contents are
   not shared and that the scan reads no half-appended entry. *)
THEOREM ContractedIsPinned ==
    ASSUME ~TornReads, \A r, q \in Requests : Cid[r] = Cid[q] => r = q
    PROVE  Spec => []PinnedWhileContracted
<1>1. Init => PinInv
  BY EmptySeq DEF Init, PinInv, Unreadable
<1>2. IInv /\ PinInv /\ [Next]_vars => PinInv'
  BY PinStep
<1>3. IInv /\ PinInv => PinnedWhileContracted
  <2> SUFFICES ASSUME IInv, PinInv, NEW r \in Range(contracts) \ {Zero}, now <= Expires[r]
               PROVE  Cid[r] \in pinned
    BY DEF PinnedWhileContracted
  <2>1. contracts \in Seq(Covered \cup {Zero})
    BY DEF PinInv
  <2>2. PICK i \in DOMAIN contracts : contracts[i] = r
    BY DEF Range
  <2>3. i \in 1 .. Len(contracts)
    BY <2>1, <2>2, LenProperties
  <2>4. r \in Covered
    BY <2>1, <2>2, <2>3, ElementOfSeq
  <2> QED BY <2>4, DataAssumption DEF Covered, IInv, TypeOK
<1> QED BY IInvHolds, <1>1, <1>2, <1>3, PTL DEF Spec
=============================================================================
