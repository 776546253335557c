---------------------------- MODULE Node_proofs -----------------------------
(***************************************************************************)
(* Proofs about Node, for any number of starts, SetOffer calls and         *)
(* contracts.                                                              *)
(***************************************************************************)
EXTENDS Node, TLAPS

USE ConstantAssumption

LEMMA KeysProperties ==
    /\ Absent \notin Keys /\ Torn \notin Keys /\ Absent # Torn /\ 0 \in Keys
    /\ \A n \in Nat : n < MaxStarts => n + 1 \in Keys
BY DEF Keys, Absent, Torn

LEMMA TypeInit == Init => TypeOK
<1> SUFFICES ASSUME Init PROVE TypeOK
  OBVIOUS
<1>1. file \in [{"default", "other"} -> Keys \cup {Absent, Torn}]
  BY KeysProperties DEF Init, Keys
<1>2. args \in Args /\ pubOffer \in [cap : (0 .. W-1) \cup {Absent}, signed : (0 .. W-1) \cup {Absent}]
  BY DEF Init, Args, NoOffer
<1>3. starts \in 0 .. MaxStarts
  BY DEF Init
<1>4. lastId \in Keys \cup {Absent}
  BY KeysProperties DEF Init
<1>5. /\ req \in [Contracts -> {"new", "done", "failed"} \cup Working]
      /\ home \in [Contracts -> Keys \cup {Absent}]
      /\ saved \in [Keys -> SUBSET Contracts]
      /\ contracts \subseteq Contracts /\ trimmed \subseteq Contracts /\ unsaved \subseteq Contracts
      /\ pubContracts \subseteq Contracts /\ trim \in {"tick", "writing"}
  BY DEF Init
<1>6. /\ call \in [Callers -> {"new", "locking", "done", "changed", "refused", "dead"}]
      /\ adv \in [Callers -> {"none", "tick", "signed"}] /\ second \subseteq Callers
      /\ lock \in Callers \cup Contracts \cup {Free, Trimmer}
      /\ isOfferSet \in BOOLEAN /\ joined \in BOOLEAN
  BY DEF Init
<1>7. /\ phase = "off" /\ id \in Keys \cup {Absent}
      /\ capacity \in 0 .. W-1 /\ signed \in (0 .. W-1) \cup {Absent}
  BY DEF Init
<1> QED BY <1>1, <1>2, <1>3, <1>4, <1>5, <1>6, <1>7 DEF TypeOK

LEMMA DieType == TypeOK /\ Die => TypeOK'
<1> SUFFICES ASSUME TypeOK, Die PROVE TypeOK'
  OBVIOUS
<1>1. lastId' \in Keys \cup {Absent}
  BY DEF Die, TypeOK
<1>2. pubOffer' \in [cap : (0 .. W-1) \cup {Absent}, signed : (0 .. W-1) \cup {Absent}]
  BY DEF Die, NoOffer
<1>3. call' \in [Callers -> {"new", "locking", "done", "changed", "refused", "dead"}]
  BY DEF Die, TypeOK
<1>4. /\ req' \in [Contracts -> {"new", "done", "failed"} \cup Working]
      /\ home' \in [Contracts -> Keys \cup {Absent}] /\ unsaved' \subseteq Contracts
  BY DEF Die, TypeOK
<1>5. /\ adv' \in [Callers -> {"none", "tick", "signed"}] /\ second' \subseteq Callers
      /\ capacity' \in 0 .. W-1
  BY DEF Die
<1> QED BY <1>1, <1>2, <1>3, <1>4, <1>5 DEF Die, TypeOK

LEMMA StartType == TypeOK /\ Start => TypeOK'
<1> SUFFICES ASSUME TypeOK, Start PROVE TypeOK'
  OBVIOUS
<1> USE DEF contractVars, offerVars, callVars, pubVars, Running
<1>1. ASSUME NEW a \in Args, LoadKey(a) \/ RefuseKey(a) \/ GenerateKey(a) PROVE TypeOK'
  <2>1. args' \in Args /\ starts' \in 0 .. MaxStarts /\ starts' \in Keys
    BY <1>1, KeysProperties DEF LoadKey, RefuseKey, GenerateKey, Exec, TypeOK
  <2>2. /\ id' \in Keys \cup {Absent} /\ phase' \in {"off", "creating"} \cup Running
        /\ phase' # "off" => id' \in Keys
    BY <1>1, KeysProperties DEF LoadKey, RefuseKey, GenerateKey, Exec, TypeOK
  <2>3. file' \in [{"default", "other"} -> Keys \cup {Absent, Torn}]
    BY <1>1, KeysProperties DEF LoadKey, RefuseKey, GenerateKey, TypeOK
  <2>4. UNCHANGED lastId /\ Untouched
    BY <1>1 DEF LoadKey, RefuseKey, GenerateKey
  <2> QED BY <2>1, <2>2, <2>3, <2>4 DEF TypeOK, Untouched
<1>2. CASE WriteKey
  <2>1. file' \in [{"default", "other"} -> Keys \cup {Absent, Torn}]
    BY <1>2 DEF WriteKey, TypeOK
  <2> QED BY <1>2, <2>1 DEF WriteKey, TypeOK, Untouched
<1>3. CASE StartManagers
  <2>1. contracts' \subseteq Contracts /\ trimmed' \subseteq Contracts
    BY <1>3 DEF StartManagers, LoadFromDisk, TypeOK
  <2> QED BY <1>3, <2>1 DEF StartManagers, TypeOK
<1> QED BY <1>1, <1>2, <1>3 DEF Start

(* uint32 arithmetic stays in range. *)
LEMMA Unsigned ==
    ASSUME NEW a \in 0 .. W-1, NEW b \in 0 .. W-1
    PROVE  Minus(a, b) \in 0 .. W-1 /\ Plus(a, b) \in 0 .. W-1
BY DEF Minus, Plus

LEMMA FileType ==
    ASSUME TypeOK, id \in Keys, NEW cs, cs \subseteq Contracts,
           NEW held, held \subseteq Contracts, File(cs, held)
    PROVE  saved' \in [Keys -> SUBSET Contracts] /\ unsaved' \subseteq Contracts
BY DEF File, TypeOK

LEMMA RequestType ==
    ASSUME TypeOK, WorkInv, NEW k \in Contracts, ProcessStorageRequest(k)
    PROVE  TypeOK'
<1> USE DEF idVars, offerVars, callVars, pubVars, Working
<1>1. CASE Consider(k) \/ HostFails(k)
  BY <1>1 DEF Consider, HostFails, Goto, TypeOK
<1>2. CASE StoreContract(k) \/ StoreFails(k)
  <2>1. /\ AppendContract(k) /\ phase = "up"
        /\ contracts' \subseteq Contracts
        /\ id \in Keys /\ saved[id] \subseteq Contracts
    BY <1>2 DEF StoreContract, StoreFails, AppendContract, WorkInv, TypeOK
  <2>2. home' \in [Contracts -> Keys \cup {Absent}]
    BY <2>1 DEF AppendContract, TypeOK
  <2>3. saved' \in [Keys -> SUBSET Contracts] /\ unsaved' \subseteq Contracts
    <3>1. CASE StoreContract(k)
      BY <2>1, <3>1, FileType DEF StoreContract, Truncate, WriteRefused
    <3>2. CASE StoreFails(k)
      BY <3>2 DEF StoreFails, TypeOK
    <3> QED BY <1>2, <3>1, <3>2
  <2>4. /\ req' \in [Contracts -> {"new", "done", "failed"} \cup Working]
        /\ lock' \in Callers \cup Contracts \cup {Free, Trimmer}
    BY <1>2 DEF StoreContract, StoreFails, Goto, TypeOK
  <2> QED BY <2>1, <2>2, <2>3, <2>4 DEF AppendContract, TypeOK
<1>3. CASE Written(k)
  <2>1. id \in Keys /\ contracts \subseteq Contracts
    BY <1>3 DEF Written, WorkInv, TypeOK
  <2>2. saved' \in [Keys -> SUBSET Contracts] /\ unsaved' \subseteq Contracts
    BY <1>3, <2>1, FileType DEF Written, Fill
  <2> QED BY <1>3, <2>2 DEF Written, Goto, TypeOK
<1>4. CASE Charge(k)
  <2>1. capacity' \in 0 .. W-1
    <3>1. CASE W = 1
      BY <1>4, <3>1 DEF Charge, Minus, TypeOK
    <3>2. CASE W # 1
      BY <1>4, <3>2, Unsigned DEF Charge, TypeOK
    <3> QED BY <3>1, <3>2
  <2> QED BY <1>4, <2>1 DEF Charge, Goto, TypeOK
<1> QED BY <1>1, <1>2, <1>3, <1>4 DEF ProcessStorageRequest

LEMMA TrimType ==
    ASSUME TypeOK, WorkInv, Trim
    PROVE  TypeOK'
<1> USE DEF idVars, offerVars, callVars, pubVars
<1>1. ASSUME NEW T \in SUBSET contracts, NEW n \in 0 .. W-1,
             TrimWrite(T, n) \/ TrimUnwritten(T, n)
      PROVE  TypeOK'
  <2>1. /\ Drop(T, n) /\ id \in Keys /\ saved[id] \subseteq Contracts
        /\ contracts' \subseteq Contracts /\ trimmed' \subseteq Contracts
    BY <1>1 DEF TrimWrite, TrimUnwritten, Drop, Managing, TypeOK
  <2>2. capacity' \in 0 .. W-1
    BY <2>1, Unsigned DEF Drop, TypeOK
  <2>3. saved' \in [Keys -> SUBSET Contracts] /\ unsaved' \subseteq Contracts
    <3>1. CASE TrimWrite(T, n)
      BY <2>1, <3>1, FileType DEF TrimWrite, Truncate, WriteRefused
    <3>2. CASE TrimUnwritten(T, n)
      BY <3>2 DEF TrimUnwritten, TypeOK
    <3> QED BY <1>1, <3>1, <3>2
  <2>4. /\ lock' \in Callers \cup Contracts \cup {Free, Trimmer}
        /\ trim' \in {"tick", "writing"}
    BY <1>1 DEF TrimWrite, TrimUnwritten, TypeOK
  <2> QED BY <2>1, <2>2, <2>3, <2>4 DEF Drop, TypeOK
<1>2. CASE TrimWritten
  <2>1. id \in Keys /\ contracts \subseteq Contracts
    BY <1>2 DEF TrimWritten, WorkInv, Managing, TypeOK
  <2>2. saved' \in [Keys -> SUBSET Contracts] /\ unsaved' \subseteq Contracts
    BY <1>2, <2>1, FileType DEF TrimWritten, Fill
  <2> QED BY <1>2, <2>2 DEF TrimWritten, TypeOK
<1> QED BY <1>1, <1>2 DEF Trim

LEMMA TypeStep == TypeOK /\ WorkInv /\ [Next]_vars => TypeOK'
<1> SUFFICES ASSUME TypeOK, WorkInv, [Next]_vars PROVE TypeOK'
  OBVIOUS
<1> USE DEF idVars, contractVars, offerVars, callVars, pubVars, Running
<1>1. CASE Start
  BY <1>1, StartType
<1>2. CASE Bootstrap
  BY <1>2 DEF Bootstrap, JoinOmnidisk, Serve, Untouched, TypeOK
<1>3. CASE Stop
  BY <1>3, DieType DEF Stop
<1>4. ASSUME NEW c \in Callers, SetOffer(c) PROVE TypeOK'
  <2>1. CASE SetOfferRefused(c) \/ SetOfferFirst(c)
    BY <2>1 DEF SetOfferRefused, SetOfferFirst, Arrive, Become, TypeOK
  <2>2. CASE SetOfferAgain(c)
    BY <2>2 DEF SetOfferAgain, Arrive, Become, TypeOK
  <2>3. CASE SetOfferLocked(c)
    BY <2>3 DEF SetOfferLocked, FlagSet, Become, TypeOK
  <2> QED BY <1>4, <2>1, <2>2, <2>3 DEF SetOffer
<1>5. ASSUME NEW c \in Callers, AdvertiseOffer(c) PROVE TypeOK'
  <2>1. CASE SignOffer(c)
    BY <2>1 DEF SignOffer, TypeOK
  <2>2. CASE PublishOffer(c)
    <3>1. pubOffer' \in [cap : (0 .. W-1) \cup {Absent}, signed : (0 .. W-1) \cup {Absent}]
      BY <2>2 DEF PublishOffer, TypeOK
    <3> QED BY <2>2, <3>1 DEF PublishOffer, Ticked, TypeOK
  <2>3. CASE PublishFails(c)
    BY <2>3 DEF PublishFails, Ticked, TypeOK
  <2>4. CASE PublishPanics(c)
    BY <2>4, DieType DEF PublishPanics
  <2> QED BY <1>5, <2>1, <2>2, <2>3, <2>4 DEF AdvertiseOffer, Publish
<1>6. CASE PublishContracts
  BY <1>6 DEF PublishContracts, TypeOK
<1>7. CASE Trim \/ \E k \in Contracts : ProcessStorageRequest(k)
  BY <1>7, RequestType, TrimType
<1>8. CASE UNCHANGED vars
  BY <1>8 DEF vars, TypeOK
<1> QED BY <1>1, <1>2, <1>3, <1>4, <1>5, <1>6, <1>7, <1>8 DEF Next

-----------------------------------------------------------------------------
(* Steps that leave the process, its files and its identity alone. *)
LEMMA Identified ==
    ASSUME IdInv, IdentityKept, UNCHANGED <<args, file, id, lastId>>,
           \/ phase' = phase
           \/ phase \in Running /\ phase' \in Running
    PROVE  IdInv' /\ IdentityKept'
BY DEF IdInv, IdentityKept, OnDefaultFile, Running

(* Requests and the trimmer leave everything else alone. *)
LEMMA WorkFrame ==
    ASSUME Trim \/ \E k \in Contracts : ProcessStorageRequest(k)
    PROVE  UNCHANGED <<idVars, joined, isOfferSet, signed, callVars, adv, pubVars>>
BY DEF Trim, TrimWrite, TrimUnwritten, Drop, TrimWritten, ProcessStorageRequest, Consider,
       HostFails, StoreContract, StoreFails, AppendContract, Written, Charge, offerVars

LEMMA IdDies == TypeOK /\ IdInv /\ IdentityKept /\ Die => IdInv' /\ IdentityKept'
<1> SUFFICES ASSUME TypeOK, IdInv, IdentityKept, Die PROVE IdInv' /\ IdentityKept'
  OBVIOUS
<1>1. /\ phase' = "off" /\ file' = file
      /\ lastId' = IF phase \in Running /\ OnDefaultFile THEN id ELSE lastId
  BY DEF Die
<1>2. lastId' = Absent \/ file'["default"] \in {lastId', Torn}
  <2>1. CASE phase \in Running /\ OnDefaultFile
    BY <1>1, <2>1 DEF IdInv
  <2>2. CASE phase \in Running /\ ~OnDefaultFile
    BY <1>1, <2>2 DEF IdInv
  <2>3. CASE phase = "off"
    BY <1>1, <2>3 DEF IdInv, Running
  <2>4. CASE phase = "creating"
    BY <1>1, <2>4, KeysProperties DEF IdInv, Running
  <2> QED BY <2>1, <2>2, <2>3, <2>4 DEF TypeOK
<1> QED BY <1>1, <1>2 DEF IdInv, IdentityKept, Running

LEMMA IdStep == TypeOK /\ IdInv /\ IdentityKept /\ [Next]_vars => IdInv' /\ IdentityKept'
<1> SUFFICES ASSUME TypeOK, IdInv, IdentityKept, [Next]_vars PROVE IdInv' /\ IdentityKept'
  OBVIOUS
<1>1. ASSUME NEW a \in Args, LoadKey(a) PROVE IdInv' /\ IdentityKept'
  <2>1. /\ phase = "off" /\ phase' = "keyed" /\ args' = a /\ file' = file /\ lastId' = lastId
        /\ a.privkey \in {"default", "other"} /\ id' = file[a.privkey] /\ id' \in Keys
    BY <1>1, KeysProperties DEF LoadKey, Exec, Named, Args
  <2>2. lastId = Absent \/ file["default"] \in {lastId, Torn}
    BY <2>1 DEF IdInv
  <2>3. OnDefaultFile' <=> a.privkey = "default"
    BY <2>1 DEF OnDefaultFile
  <2> QED BY <2>1, <2>2, <2>3, KeysProperties DEF IdInv, IdentityKept, Running
<1>2. ASSUME NEW a \in Args, RefuseKey(a) PROVE IdInv' /\ IdentityKept'
  BY <1>2 DEF RefuseKey, Exec, IdInv, IdentityKept, Running
<1>3. ASSUME NEW a \in Args, GenerateKey(a) PROVE IdInv' /\ IdentityKept'
  <2>1. /\ phase = "off" /\ phase' = "creating" /\ args' = a /\ lastId' = lastId
        /\ file' = [file EXCEPT !["default"] = Torn]
        /\ a.privkey = "default" => file["default"] = Absent
        /\ a.privkey = "other" => file["other"] = Absent
    BY <1>3 DEF GenerateKey, Exec, Named, NoKeyIn
  <2>2. lastId = Absent \/ file["default"] \in {lastId, Torn}
    BY <2>1 DEF IdInv
  <2>3. OnDefaultFile' /\ file'["default"] = Torn
    BY <2>1, KeysProperties DEF OnDefaultFile, TypeOK
  <2>4. a.privkey = "default" => lastId = Absent
    BY <2>1, <2>2, KeysProperties
  <2> QED BY <2>1, <2>3, <2>4 DEF IdInv, IdentityKept, Running
<1>4. CASE WriteKey
  <2>1. /\ phase = "creating" /\ phase' = "keyed" /\ UNCHANGED <<args, id, lastId>>
        /\ file' = [file EXCEPT !["default"] = id]
    BY <1>4 DEF WriteKey
  <2>2. file'["default"] = id /\ file'["other"] = file["other"]
    BY <2>1 DEF TypeOK
  <2>3. OnDefaultFile' /\ (args.privkey = "default" => lastId = Absent)
    BY <2>1, <2>2 DEF OnDefaultFile, IdInv
  <2> QED BY <2>1, <2>2, <2>3 DEF IdInv, IdentityKept, Running
<1>5. CASE StartManagers \/ Bootstrap
  BY <1>5, Identified DEF StartManagers, Bootstrap, JoinOmnidisk, Serve, Running
<1>6. CASE Stop
  BY <1>6, IdDies DEF Stop
<1>7. ASSUME NEW c \in Callers, SetOffer(c) \/ AdvertiseOffer(c) PROVE IdInv' /\ IdentityKept'
  <2>1. CASE PublishPanics(c)
    BY <2>1, IdDies DEF PublishPanics
  <2>2. CASE SetOffer(c) \/ SignOffer(c) \/ PublishOffer(c) \/ PublishFails(c)
    BY <2>2, Identified DEF SetOffer, SetOfferRefused, SetOfferAgain, SetOfferFirst,
                            SetOfferLocked, SignOffer, PublishOffer, PublishFails, idVars
  <2> QED BY <1>7, <2>1, <2>2 DEF AdvertiseOffer, Publish
<1>8. CASE Trim \/ \E k \in Contracts : ProcessStorageRequest(k)
  BY <1>8, Identified, WorkFrame DEF idVars
<1>9. CASE PublishContracts \/ UNCHANGED vars
  BY <1>9, Identified DEF PublishContracts, vars, idVars
<1> QED BY <1>1, <1>2, <1>3, <1>4, <1>5, <1>6, <1>7, <1>8, <1>9 DEF Next, Start

-----------------------------------------------------------------------------
(* Steps that leave the offer and the SetOffer calls alone. *)
LEMMA OfferKept ==
    ASSUME OfferInv, UNCHANGED <<isOfferSet, call, second>>,
           phase = "up" => phase' = "up" /\ args' = args
    PROVE  OfferInv'
BY DEF OfferInv

LEMMA OfferDies == OfferInv /\ Die => OfferInv'
BY DEF OfferInv, Die

LEMMA OfferStep == TypeOK /\ OfferInv /\ [Next]_vars => OfferInv'
<1> SUFFICES ASSUME TypeOK, OfferInv, [Next]_vars PROVE OfferInv'
  OBVIOUS
<1>1. CASE Start
  BY <1>1, OfferKept DEF Start, LoadKey, RefuseKey, GenerateKey, Exec, WriteKey, StartManagers,
                         Untouched, offerVars, callVars
<1>2. CASE Bootstrap
  BY <1>2, OfferKept DEF Bootstrap, JoinOmnidisk, Serve, Untouched, offerVars, callVars
<1>3. CASE Stop
  BY <1>3, OfferDies DEF Stop
<1>4. ASSUME NEW c \in Callers, SetOffer(c) PROVE OfferInv'
  <2>1. CASE SetOfferRefused(c)
    BY <2>1 DEF SetOfferRefused, Arrive, Become, OfferInv, TypeOK, idVars, offerVars
  <2>2. CASE SetOfferAgain(c)
    BY <2>2 DEF SetOfferAgain, Arrive, Become, OfferInv, TypeOK, idVars
  <2>3. CASE SetOfferFirst(c)
    BY <2>3 DEF SetOfferFirst, Arrive, Become, OfferInv, TypeOK, idVars, offerVars
  <2>4. CASE SetOfferLocked(c)
    BY <2>4 DEF SetOfferLocked, FlagSet, Become, OfferInv, TypeOK, idVars
  <2> QED BY <1>4, <2>1, <2>2, <2>3, <2>4 DEF SetOffer
<1>5. ASSUME NEW c \in Callers, AdvertiseOffer(c) PROVE OfferInv'
  <2>1. CASE PublishPanics(c)
    BY <2>1, OfferDies DEF PublishPanics
  <2>2. CASE SignOffer(c) \/ PublishOffer(c) \/ PublishFails(c)
    BY <2>2, OfferKept DEF SignOffer, PublishOffer, PublishFails, idVars, offerVars, callVars
  <2> QED BY <1>5, <2>1, <2>2 DEF AdvertiseOffer, Publish
<1>6. CASE PublishContracts
  BY <1>6, OfferKept DEF PublishContracts, idVars, offerVars, callVars
<1>7. CASE Trim \/ \E k \in Contracts : ProcessStorageRequest(k)
  BY <1>7, OfferKept, WorkFrame DEF idVars, callVars
<1>8. CASE UNCHANGED vars
  BY <1>8, OfferKept DEF vars, idVars, offerVars, callVars
<1> QED BY <1>1, <1>2, <1>3, <1>4, <1>5, <1>6, <1>7, <1>8 DEF Next

-----------------------------------------------------------------------------
(* Steps that leave the contracts and the loops alone and let the process run
   on. *)
LEMMA WorkKept ==
    ASSUME WorkInv, UNCHANGED <<contractVars, adv, lock>>,
           phase = "up" => phase' = "up",
           phase \in Managing => phase' \in Managing /\ UNCHANGED <<args, id>>
    PROVE  WorkInv'
BY DEF WorkInv, contractVars, Managing, Working

(* Steps that take or release the lock for SetOffer or a loop. *)
LEMMA WorkLocked ==
    ASSUME WorkInv, UNCHANGED <<contractVars, phase, args, id>>,
           lock \in Callers \cup {Free},
           \A c \in Callers : adv'[c] = "signed" => lock' = c
    PROVE  WorkInv'
<1>1. trim # "writing" /\ \A k \in Contracts : req[k] \notin {"writing", "charging"}
  BY DEF WorkInv
<1> QED BY <1>1 DEF WorkInv, contractVars

(* Only the holder of the lock writes the contracts file. *)
LEMMA OneWriter ==
    ASSUME WorkInv, NEW k \in Contracts, req[k] \in {"writing", "charging"}
    PROVE  /\ lock = k /\ trim # "writing"
           /\ \A q \in Contracts \ {k} : req[q] \notin {"writing", "charging"}
           /\ \A c \in Callers : adv[c] # "signed"
BY DEF WorkInv

LEMMA NoWriter ==
    ASSUME WorkInv, lock \notin Contracts
    PROVE  \A q \in Contracts : req[q] \notin {"writing", "charging"}
BY DEF WorkInv

(* While nobody, or the trimmer, holds the lock no loop is between signing and
   broadcasting. *)
LEMMA NoneSigned ==
    ASSUME WorkInv, lock \in {Free, Trimmer}
    PROVE  \A c \in Callers : adv[c] # "signed"
BY DEF WorkInv

LEMMA WorkDies == ASSUME TypeOK, WorkInv, Die PROVE WorkInv'
<1>1. \A k \in Contracts : req'[k] \notin Working
  BY DEF Die, TypeOK, Working
<1>2. ASSUME NEW k \in Contracts, req'[k] = "new" PROVE home'[k] = Absent
  <2>1. Traceless(k) \/ req[k] = "new"
    BY <1>2 DEF Die, Working
  <2> QED BY <2>1 DEF Die, WorkInv
<1> QED BY <1>1, <1>2 DEF Die, WorkInv, Working

LEMMA RequestWork ==
    ASSUME TypeOK, OfferInv, WorkInv, NEW k \in Contracts, ProcessStorageRequest(k)
    PROVE  WorkInv'
<1> USE DEF idVars, Goto
<1>0. UNCHANGED <<phase, args, id, trim, adv>> /\ \A q \in Contracts \ {k} : req'[q] = req[q]
  BY DEF ProcessStorageRequest, Consider, HostFails, StoreContract, StoreFails,
         AppendContract, Written, Charge, TypeOK
<1>1. CASE Consider(k) \/ HostFails(k)
  <2>1. phase = "up" /\ ~args.bootstrapOnly /\ home[k] = Absent
    BY <1>1 DEF Consider, HostFails, HasRoom, OfferInv, WorkInv, Working
  <2>2. req'[k] \in {"new", "hosting"} /\ UNCHANGED <<contracts, saved, home, unsaved, lock>>
    BY <1>1 DEF Consider, HostFails, TypeOK
  <2> QED BY <1>0, <2>1, <2>2 DEF WorkInv
<1>2. CASE StoreContract(k) \/ StoreFails(k)
  <2>1. /\ lock = Free /\ phase = "up" /\ ~args.bootstrapOnly
        /\ k \in contracts' /\ contracts \subseteq contracts' /\ home'[k] = id
        /\ \A q \in Contracts \ {k} : home'[q] = home[q]
    BY <1>2 DEF StoreContract, StoreFails, AppendContract, GetLock, WorkInv, Working, TypeOK
  <2>2. /\ trim # "writing" /\ \A q \in Contracts : req[q] \notin {"writing", "charging"}
        /\ \A c \in Callers : adv[c] # "signed"
    BY <2>1, NoWriter, NoneSigned DEF WorkInv
  <2>3. CASE StoreContract(k)
    <3>1. lock' = k /\ req'[k] \in {"writing", "charging"}
      BY <2>3 DEF StoreContract, TypeOK
    <3>2. req'[k] = "charging" => k \in saved'[id] \cup unsaved'
      <4>1. req'[k] = "charging" => WriteRefused
        BY <2>3 DEF StoreContract, TypeOK
      <4> QED BY <2>1, <4>1 DEF WriteRefused, File, TypeOK
    <3> QED BY <1>0, <2>1, <2>2, <3>1, <3>2 DEF WorkInv, Working
  <2>4. CASE StoreFails(k)
    <3>1. req'[k] = "failed"
      BY <2>4 DEF StoreFails, TypeOK
    <3> QED BY <1>0, <2>1, <2>2, <3>1 DEF WorkInv, Working
  <2> QED BY <1>2, <2>3, <2>4
<1>3. CASE Written(k)
  <2>1. /\ lock = k /\ phase = "up" /\ ~args.bootstrapOnly /\ home[k] = id /\ k \in contracts
        /\ req'[k] = "charging" /\ UNCHANGED <<contracts, home, lock>>
    BY <1>3 DEF Written, WorkInv, Working, TypeOK
  <2>2. k \in saved'[id] \cup unsaved'
    BY <1>3, <2>1 DEF Written, Fill, File, TypeOK
  <2>3. trim # "writing" /\ \A q \in Contracts \ {k} : req[q] \notin {"writing", "charging"}
    BY <1>3, OneWriter DEF Written
  <2> QED BY <1>0, <2>1, <2>2, <2>3 DEF WorkInv, Working
<1>4. CASE Charge(k)
  <2>1. /\ trim # "writing" /\ \A q \in Contracts \ {k} : req[q] \notin {"writing", "charging"}
        /\ \A c \in Callers : adv[c] # "signed"
    BY <1>4, OneWriter DEF Charge
  <2>2. req'[k] = "done" /\ UNCHANGED <<contracts, saved, home, unsaved>>
    BY <1>4 DEF Charge, TypeOK
  <2> QED BY <1>0, <2>1, <2>2 DEF WorkInv, Working
<1> QED BY <1>1, <1>2, <1>3, <1>4 DEF ProcessStorageRequest

LEMMA TrimWork == ASSUME TypeOK, WorkInv, Trim PROVE WorkInv'
<1> USE DEF idVars
<1>1. ASSUME NEW T, NEW n, TrimWrite(T, n) \/ TrimUnwritten(T, n) PROVE WorkInv'
  <2>1. /\ lock = Free /\ phase \in Managing /\ ~args.bootstrapOnly
        /\ UNCHANGED <<phase, args, id, req, home, adv>>
        /\ trim' = "writing" => lock' = Trimmer
    BY <1>1 DEF TrimWrite, TrimUnwritten, Drop
  <2>2. /\ \A q \in Contracts : req[q] \notin {"writing", "charging"}
        /\ \A c \in Callers : adv[c] # "signed"
    BY <2>1, NoWriter, NoneSigned
  <2> QED BY <2>1, <2>2 DEF WorkInv
<1>2. CASE TrimWritten
  <2>1. /\ \A q \in Contracts : req[q] \notin {"writing", "charging"}
        /\ \A c \in Callers : adv[c] # "signed"
    BY <1>2, NoWriter, NoneSigned DEF TrimWritten, WorkInv
  <2> QED BY <1>2, <2>1 DEF TrimWritten, WorkInv
<1> QED BY <1>1, <1>2 DEF Trim

LEMMA WorkStep == TypeOK /\ OfferInv /\ WorkInv /\ [Next]_vars => WorkInv'
<1> SUFFICES ASSUME TypeOK, OfferInv, WorkInv, [Next]_vars PROVE WorkInv'
  OBVIOUS
<1> USE DEF idVars, Managing
<1>1. ASSUME NEW a \in Args, LoadKey(a) \/ RefuseKey(a) \/ GenerateKey(a) PROVE WorkInv'
  BY <1>1, WorkKept DEF LoadKey, RefuseKey, GenerateKey, Exec, Untouched
<1>2. CASE WriteKey \/ Bootstrap
  BY <1>2, WorkKept DEF WriteKey, Bootstrap, JoinOmnidisk, Serve, Untouched
<1>3. CASE StartManagers
  BY <1>3 DEF StartManagers, WorkInv, Working
<1>4. ASSUME Die PROVE WorkInv'
  BY <1>4, WorkDies
<1>5. ASSUME NEW c \in Callers, SetOffer(c) PROVE WorkInv'
  <2>1. CASE SetOfferRefused(c) \/ SetOfferAgain(c) \/ SetOfferFirst(c)
    BY <2>1, WorkKept DEF SetOfferRefused, SetOfferAgain, SetOfferFirst
  <2>2. CASE SetOfferLocked(c)
    <3>1. \A d \in Callers : adv'[d] # "signed"
      BY <2>2, NoneSigned DEF SetOfferLocked, TypeOK
    <3> QED BY <2>2, <3>1, WorkLocked DEF SetOfferLocked
  <2> QED BY <1>5, <2>1, <2>2 DEF SetOffer
<1>6. ASSUME NEW c \in Callers, AdvertiseOffer(c) PROVE WorkInv'
  <2>1. CASE PublishPanics(c)
    BY <2>1, <1>4 DEF PublishPanics
  <2>2. CASE SignOffer(c)
    <3>1. \A d \in Callers : adv'[d] = "signed" => d = c
      BY <2>2, NoneSigned DEF SignOffer, TypeOK
    <3> QED BY <2>2, <3>1, WorkLocked DEF SignOffer
  <2>3. CASE PublishOffer(c) \/ PublishFails(c)
    <3>1. lock = c /\ \A d \in Callers : adv'[d] # "signed"
      BY <2>3 DEF PublishOffer, PublishFails, Ticked, WorkInv, TypeOK
    <3> QED BY <2>3, <3>1, WorkLocked DEF PublishOffer, PublishFails
  <2> QED BY <1>6, <2>1, <2>2, <2>3 DEF AdvertiseOffer, Publish
<1>7. CASE PublishContracts \/ UNCHANGED vars
  BY <1>7, WorkKept DEF PublishContracts, vars
<1>8. CASE Trim \/ \E k \in Contracts : ProcessStorageRequest(k)
  BY <1>8, RequestWork, TrimWork
<1> QED BY <1>1, <1>2, <1>3, <1>4, <1>5, <1>6, <1>7, <1>8 DEF Next, Start, Stop

-----------------------------------------------------------------------------
LEMMA NodeAlways == Spec => [](TypeOK /\ OfferInv /\ WorkInv)
<1>1. Init => OfferInv
  BY DEF Init, OfferInv
<1>2. Init => WorkInv
  BY DEF Init, WorkInv, Working
<1>3. TypeOK /\ OfferInv /\ WorkInv /\ [Next]_vars => (TypeOK /\ OfferInv /\ WorkInv)'
  BY TypeStep, OfferStep, WorkStep
<1> QED BY <1>1, <1>2, <1>3, TypeInit, PTL DEF Spec

(* Whatever the sequence of starts, calls, requests and failures, a running
   node has a key for its id, and the capacity is a uint32. *)
THEOREM TypeCorrect == Spec => []TypeOK
<1> QED BY NodeAlways, PTL

(* The identity of a node that is started with its key file survives every
   sequence of starts, stops and crashes, even between the creation and the
   writing of that file. *)
THEOREM IdentitySurvives == Spec => []IdentityKept
<1>1. Init => IdInv /\ IdentityKept
  BY DEF Init, IdInv, IdentityKept, Running
<1>2. TypeOK /\ IdInv /\ IdentityKept /\ [Next]_vars => (IdInv /\ IdentityKept)'
  BY IdStep
<1> QED BY <1>1, <1>2, NodeAlways, PTL DEF Spec

(* Of all SetOffer calls of a run, none made after another has returned Done
   returns Done. *)
THEOREM SetOfferOnce == Spec => []SecondSetOfferRefused
<1>1. OfferInv => SecondSetOfferRefused
  BY DEF OfferInv, SecondSetOfferRefused
<1> QED BY <1>1, NodeAlways, PTL

-----------------------------------------------------------------------------
ContractInv == SavedInv /\ KnowsItsContracts

(* Steps that leave the contracts and their node alone. *)
LEMMA ContractsKept ==
    ASSUME ContractInv, UNCHANGED <<contracts, saved, home, trimmed, unsaved>>,
           phase' \in Managing => phase \in Managing /\ UNCHANGED <<args, id>>,
           \A k \in Contracts : req'[k] = "done" => req[k] = "done"
    PROVE  ContractInv'
BY DEF ContractInv, SavedInv, KnowsItsContracts, Accepted

(* A write of the contracts file, whether it fills the file with what is in
   memory, leaves it as it was or leaves it without contracts. *)
LEMMA FileKept ==
    ASSUME TypeOK, ContractInv, phase \in Managing, ~args.bootstrapOnly,
           UNCHANGED <<phase, args, id>>,
           NEW cs, File(cs, contracts'), cs \subseteq contracts' \/ cs = saved[id],
           contracts' \subseteq Contracts,
           \A k \in contracts' : home'[k] = id,
           \A i \in Keys : \A k \in saved[i] : home'[k] = home[k],
           \A k \in Contracts : req'[k] = "done" => req[k] = "done" /\ home'[k] = home[k],
           \A k \in contracts \ contracts' : req[k] = "done" => k \in trimmed',
           trimmed \subseteq trimmed'
    PROVE  ContractInv'
<1>1. /\ id \in Keys /\ saved'[id] = cs /\ \A i \in Keys \ {id} : saved'[i] = saved[i]
      /\ unsaved' = (unsaved \cup contracts') \ cs
  BY DEF File, TypeOK, Managing
<1>2. \A k \in cs : home'[k] = id
  BY <1>1 DEF ContractInv, SavedInv
<1>3. \A i \in Keys : \A k \in saved'[i] : home'[k] = i
  BY <1>1, <1>2 DEF ContractInv, SavedInv
<1>4. ASSUME NEW i \in Keys, NEW k \in Contracts, Accepted(k, i)'
      PROVE  k \in saved'[i] \cup trimmed' \cup unsaved'
  <2>1. Accepted(k, i)
    BY <1>4 DEF Accepted
  <2>2. CASE i = id
    <3>1. k \in contracts \cup trimmed \cup unsaved
      BY <2>1, <2>2 DEF ContractInv, KnowsItsContracts
    <3>2. k \in contracts' \cup trimmed' \cup unsaved
      BY <2>1, <3>1 DEF Accepted
    <3> QED BY <1>1, <2>2, <3>2
  <2>3. CASE i # id
    <3>1. k \in saved[i] \cup trimmed \cup unsaved /\ k \notin cs
      BY <1>2, <1>4, <2>1, <2>3 DEF ContractInv, SavedInv, Accepted
    <3> QED BY <1>1, <2>3, <3>1
  <2> QED BY <2>2, <2>3
<1>5. \A i \in Keys : saved'[i] \cap unsaved' = {}
  BY <1>1, <1>3 DEF ContractInv, SavedInv
<1>6. ASSUME NEW k \in Contracts, Accepted(k, id)'
      PROVE  k \in contracts' \cup trimmed' \cup unsaved'
  <2>1. k \in contracts \cup trimmed \cup unsaved
    BY <1>6 DEF Accepted, ContractInv, KnowsItsContracts
  <2>2. k \in contracts' \cup trimmed' \cup unsaved
    BY <1>6, <2>1 DEF Accepted
  <2>3. k \in unsaved => k \notin saved[id]
    BY <1>1 DEF ContractInv, SavedInv
  <2> QED BY <1>1, <2>2, <2>3
<1> QED BY <1>1, <1>3, <1>4, <1>5, <1>6 DEF ContractInv, SavedInv, KnowsItsContracts

LEMMA ContractsDie == ASSUME TypeOK, ContractInv, Die PROVE ContractInv'
<1>1. \A i \in Keys : \A k \in saved[i] : k \in Contracts /\ home'[k] = home[k]
  BY DEF Die, Traceless, TypeOK
<1>2. ASSUME NEW k \in Contracts, req'[k] = "done"
      PROVE  /\ req[k] = "done" /\ home'[k] = home[k]
             /\ k \in unsaved => k \in unsaved'
  <2>1. req[k] = "done" /\ ~Traceless(k)
    BY <1>2 DEF Die
  <2> QED BY <2>1 DEF Die
<1> QED BY <1>1, <1>2 DEF Die, ContractInv, SavedInv, KnowsItsContracts, Accepted, Managing

LEMMA ContractsLoaded == ASSUME TypeOK, ContractInv, StartManagers PROVE ContractInv'
<1>1. /\ UNCHANGED <<args, id, saved, req, home, unsaved>> /\ id \in Keys
      /\ contracts' = IF args.bootstrapOnly THEN {} ELSE saved[id]
      /\ trimmed' = trimmed \ contracts'
  BY DEF StartManagers, LoadFromDisk, TypeOK
<1>2. ASSUME NEW i \in Keys, NEW k \in Contracts, Accepted(k, i)
      PROVE  k \in saved[i] \cup trimmed' \cup unsaved
  BY <1>1, <1>2 DEF ContractInv, SavedInv, Accepted
<1> QED BY <1>1, <1>2 DEF ContractInv, SavedInv, KnowsItsContracts, Accepted

LEMMA RequestContracts ==
    ASSUME TypeOK, WorkInv, ContractInv, NEW k \in Contracts, ProcessStorageRequest(k)
    PROVE  ContractInv'
<1> USE DEF idVars, Goto
<1>1. CASE Consider(k) \/ HostFails(k)
  BY <1>1, ContractsKept DEF Consider, HostFails, TypeOK
<1>2. CASE StoreContract(k) \/ StoreFails(k)
  <2>1. /\ UNCHANGED <<phase, args, id, trimmed>> /\ phase \in Managing /\ ~args.bootstrapOnly
        /\ contracts' = contracts \cup {k} /\ contracts' \subseteq Contracts
        /\ home' = [home EXCEPT ![k] = id] /\ home[k] = Absent /\ id \in Keys
    BY <1>2 DEF StoreContract, StoreFails, AppendContract, WorkInv, Working, Managing, TypeOK
  <2>2. \A i \in Keys : k \notin saved[i]
    BY <2>1, KeysProperties DEF ContractInv, SavedInv
  <2>3. /\ \A q \in contracts' : home'[q] = id
        /\ \A i \in Keys : \A q \in saved[i] : home'[q] = home[q]
    BY <2>1, <2>2 DEF ContractInv, KnowsItsContracts, TypeOK
  <2>4. \A q \in Contracts : req'[q] = "done" => req[q] = "done" /\ home'[q] = home[q]
    BY <1>2, <2>1 DEF StoreContract, StoreFails, TypeOK
  <2>5. CASE StoreContract(k)
    <3>1. Truncate \/ WriteRefused
      BY <2>5 DEF StoreContract
    <3> QED BY <2>1, <2>3, <2>4, <3>1, FileKept DEF Truncate, WriteRefused
  <2>6. CASE StoreFails(k)
    <3>1. UNCHANGED <<saved, unsaved>>
      BY <2>6 DEF StoreFails
    <3> QED BY <2>1, <2>3, <2>4, <3>1 DEF ContractInv, SavedInv, KnowsItsContracts, Accepted
  <2> QED BY <1>2, <2>5, <2>6
<1>3. CASE Written(k)
  <2>1. /\ UNCHANGED <<phase, args, id, contracts, home, trimmed>>
        /\ phase \in Managing /\ ~args.bootstrapOnly /\ contracts \subseteq Contracts
        /\ \A q \in Contracts : req'[q] = "done" => req[q] = "done"
    BY <1>3 DEF Written, WorkInv, Working, Managing, TypeOK
  <2>2. \A q \in contracts' : home'[q] = id
    BY <2>1 DEF ContractInv, KnowsItsContracts
  <2> QED BY <1>3, <2>1, <2>2, FileKept DEF Written, Fill
<1>4. CASE Charge(k)
  <2>1. UNCHANGED <<phase, args, id, contracts, saved, home, trimmed, unsaved>>
    BY <1>4 DEF Charge
  <2>2. home[k] = id /\ k \in contracts /\ k \in saved[id] \cup unsaved
    BY <1>4 DEF Charge, WorkInv
  <2>3. \A q \in Contracts \ {k} : req'[q] = req[q]
    BY <1>4 DEF Charge, TypeOK
  <2> QED BY <2>1, <2>2, <2>3 DEF ContractInv, SavedInv, KnowsItsContracts, Accepted
<1> QED BY <1>1, <1>2, <1>3, <1>4 DEF ProcessStorageRequest

LEMMA TrimContracts == ASSUME TypeOK, WorkInv, ContractInv, Trim PROVE ContractInv'
<1> USE DEF idVars
<1>1. ASSUME NEW T, NEW n, TrimWrite(T, n) \/ TrimUnwritten(T, n) PROVE ContractInv'
  <2>1. /\ UNCHANGED <<phase, args, id, req, home>> /\ phase \in Managing /\ ~args.bootstrapOnly
        /\ contracts' = contracts \ T /\ contracts' \subseteq Contracts
        /\ trimmed' = trimmed \cup {k \in T : req[k] = "done"}
    BY <1>1 DEF TrimWrite, TrimUnwritten, Drop, TypeOK
  <2>2. /\ \A k \in contracts' : home'[k] = id
        /\ \A k \in contracts \ contracts' : req[k] = "done" => k \in trimmed'
    BY <2>1 DEF ContractInv, KnowsItsContracts
  <2>3. CASE TrimWrite(T, n)
    <3>1. Truncate \/ WriteRefused
      BY <2>3 DEF TrimWrite
    <3> QED BY <2>1, <2>2, <3>1, FileKept DEF Truncate, WriteRefused
  <2>4. CASE TrimUnwritten(T, n)
    <3>1. UNCHANGED <<saved, unsaved>>
      BY <2>4 DEF TrimUnwritten
    <3> QED BY <2>1, <2>2, <3>1 DEF ContractInv, SavedInv, KnowsItsContracts, Accepted
  <2> QED BY <1>1, <2>3, <2>4
<1>2. CASE TrimWritten
  <2>1. /\ UNCHANGED <<phase, args, id, req, contracts, home, trimmed>>
        /\ phase \in Managing /\ ~args.bootstrapOnly /\ contracts \subseteq Contracts
    BY <1>2 DEF TrimWritten, WorkInv, TypeOK
  <2>2. \A k \in contracts' : home'[k] = id
    BY <2>1 DEF ContractInv, KnowsItsContracts
  <2> QED BY <1>2, <2>1, <2>2, FileKept DEF TrimWritten, Fill
<1> QED BY <1>1, <1>2 DEF Trim

LEMMA ContractStep == TypeOK /\ WorkInv /\ ContractInv /\ [Next]_vars => ContractInv'
<1> SUFFICES ASSUME TypeOK, WorkInv, ContractInv, [Next]_vars PROVE ContractInv'
  OBVIOUS
<1> USE DEF idVars, contractVars, Managing
<1>1. ASSUME NEW a \in Args, LoadKey(a) \/ RefuseKey(a) \/ GenerateKey(a) PROVE ContractInv'
  BY <1>1, ContractsKept DEF LoadKey, RefuseKey, GenerateKey, Exec, Untouched
<1>2. CASE WriteKey \/ Bootstrap
  BY <1>2, ContractsKept DEF WriteKey, Bootstrap, JoinOmnidisk, Serve, Untouched
<1>3. CASE StartManagers
  BY <1>3, ContractsLoaded
<1>4. ASSUME Die PROVE ContractInv'
  BY <1>4, ContractsDie
<1>5. ASSUME NEW c \in Callers, SetOffer(c) \/ AdvertiseOffer(c) PROVE ContractInv'
  <2>1. CASE PublishPanics(c)
    BY <2>1, <1>4 DEF PublishPanics
  <2>2. CASE SetOffer(c) \/ SignOffer(c) \/ PublishOffer(c) \/ PublishFails(c)
    BY <2>2, ContractsKept DEF SetOffer, SetOfferRefused, SetOfferAgain, SetOfferFirst,
                               SetOfferLocked, SignOffer, PublishOffer, PublishFails
  <2> QED BY <1>5, <2>1, <2>2 DEF AdvertiseOffer, Publish
<1>6. CASE PublishContracts \/ UNCHANGED vars
  BY <1>6, ContractsKept DEF PublishContracts, vars
<1>7. CASE Trim \/ \E k \in Contracts : ProcessStorageRequest(k)
  BY <1>7, RequestContracts, TrimContracts
<1> QED BY <1>1, <1>2, <1>3, <1>4, <1>5, <1>6, <1>7 DEF Next, Start, Stop

(* A running node knows only contracts of its own identity, and all it has
   accepted under it but those the trimmer has dropped and those of a write of
   the contracts file that failed or that the end of the process interrupted
   (offer_manager.go:161), with any number of requests, trims, failing writes,
   crashes and starts under several identities. *)
THEOREM ContractsFollowIdentity == Spec => []KnowsItsContracts
<1>1. Init => ContractInv
  BY KeysProperties DEF Init, ContractInv, SavedInv, KnowsItsContracts, Accepted, Managing
<1>2. TypeOK /\ WorkInv /\ ContractInv /\ [Next]_vars => ContractInv'
  BY ContractStep
<1>3. ContractInv => KnowsItsContracts
  BY DEF ContractInv
<1> QED BY <1>1, <1>2, <1>3, NodeAlways, PTL DEF Spec

-----------------------------------------------------------------------------
(* Steps that leave the loops and the offer alone. *)
LEMMA SignedKept ==
    ASSUME SignedInv, SignedUnlessChanged, UNCHANGED <<adv, signed, capacity, pubOffer>>,
           \A c \in Callers : call[c] = "changed" => call'[c] = "changed"
    PROVE  SignedInv' /\ SignedUnlessChanged'
BY DEF SignedInv, SignedUnlessChanged, ChangedTo

(* The capacity is charged or refunded while no loop is between signing and
   broadcasting. *)
LEMMA NotWhileSigned ==
    ASSUME WorkInv, Trim \/ \E k \in Contracts : ProcessStorageRequest(k)
    PROVE  capacity' = capacity \/ \A c \in Callers : adv[c] # "signed"
<1>1. ASSUME NEW k \in Contracts, Charge(k) PROVE \A c \in Callers : adv[c] # "signed"
  BY <1>1, OneWriter DEF Charge
<1>2. ASSUME NEW T, NEW n, Drop(T, n) PROVE \A c \in Callers : adv[c] # "signed"
  BY <1>2, NoneSigned DEF Drop
<1> QED BY <1>1, <1>2 DEF Trim, TrimWrite, TrimUnwritten, TrimWritten, ProcessStorageRequest,
           Consider, HostFails, StoreContract, StoreFails, AppendContract, Written, offerVars

LEMMA SignedStep ==
    TypeOK /\ WorkInv /\ SignedInv /\ SignedUnlessChanged /\ [Next]_vars
      => SignedInv' /\ SignedUnlessChanged'
<1> SUFFICES ASSUME TypeOK, WorkInv, SignedInv, SignedUnlessChanged, [Next]_vars
             PROVE  SignedInv' /\ SignedUnlessChanged'
  OBVIOUS
<1>1. CASE Start \/ Bootstrap
  BY <1>1, SignedKept DEF Start, LoadKey, RefuseKey, GenerateKey, WriteKey, StartManagers,
         Bootstrap, JoinOmnidisk, Serve, Untouched, offerVars, callVars, pubVars
<1>2. ASSUME Die PROVE SignedInv' /\ SignedUnlessChanged'
  BY <1>2 DEF Die, NoOffer, SignedInv, SignedUnlessChanged
<1>3. ASSUME NEW c \in Callers, SetOffer(c) PROVE SignedInv' /\ SignedUnlessChanged'
  <2>1. CASE SetOfferRefused(c) \/ SetOfferFirst(c)
    <3>1. \A d \in Callers : call[d] = "changed" => call'[d] = "changed"
      BY <2>1 DEF SetOfferRefused, SetOfferFirst, Arrive, Become, TypeOK
    <3>2. UNCHANGED <<adv, signed, capacity, pubOffer>>
      BY <2>1 DEF SetOfferRefused, SetOfferFirst, offerVars, pubVars
    <3> QED BY <3>1, <3>2, SignedKept
  <2>2. CASE SetOfferAgain(c)
    <3>1. /\ \A d \in Callers : call[d] = "changed" => call'[d] = "changed"
          /\ call'[c] = "changed" /\ capacity' = Cap[c]
          /\ UNCHANGED <<adv, pubOffer>>
      BY <2>2 DEF SetOfferAgain, Become, TypeOK, pubVars
    <3> QED BY <3>1 DEF SignedInv, SignedUnlessChanged, ChangedTo
  <2>3. CASE SetOfferLocked(c)
    <3>1. \A d \in Callers : adv[d] # "signed"
      BY <2>3, NoneSigned DEF SetOfferLocked
    <3>2. /\ \A d \in Callers : call[d] = "changed" => call'[d] = "changed"
          /\ \A d \in Callers : adv'[d] # "signed"
          /\ UNCHANGED pubOffer
      BY <2>3, <3>1 DEF SetOfferLocked, Become, TypeOK, pubVars
    <3> QED BY <3>2 DEF SignedInv, SignedUnlessChanged
  <2> QED BY <1>3, <2>1, <2>2, <2>3 DEF SetOffer
<1>4. ASSUME NEW c \in Callers, AdvertiseOffer(c) PROVE SignedInv' /\ SignedUnlessChanged'
  <2>1. CASE SignOffer(c)
    <3>1. \A d \in Callers : adv[d] # "signed"
      BY <2>1, NoneSigned DEF SignOffer
    <3>2. /\ \A d \in Callers : adv'[d] = "signed" => d = c
          /\ signed' = capacity /\ UNCHANGED <<capacity, call, pubOffer>>
      BY <2>1, <3>1 DEF SignOffer, TypeOK, callVars, pubVars
    <3> QED BY <3>2 DEF SignedInv, SignedUnlessChanged
  <2>2. ASSUME Ticked(c) PROVE \A d \in Callers : adv'[d] # "signed"
    BY <2>2 DEF Ticked, WorkInv, TypeOK
  <2>3. CASE PublishOffer(c)
    <3>1. signed = capacity \/ ChangedTo(capacity)
      BY <2>3 DEF PublishOffer, Ticked, SignedInv
    <3>2. pubOffer'.cap = capacity /\ pubOffer'.signed = signed /\ UNCHANGED call
      BY <2>3 DEF PublishOffer, callVars
    <3>3. SignedUnlessChanged'
      BY <3>1, <3>2 DEF SignedUnlessChanged, ChangedTo
    <3>4. SignedInv'
      BY <2>2, <2>3 DEF PublishOffer, SignedInv
    <3> QED BY <3>3, <3>4
  <2>4. CASE PublishFails(c)
    <3>1. UNCHANGED <<pubOffer, call>> /\ \A d \in Callers : adv'[d] # "signed"
      BY <2>2, <2>4 DEF PublishFails, pubVars, callVars
    <3> QED BY <3>1 DEF SignedInv, SignedUnlessChanged
  <2>5. CASE PublishPanics(c)
    BY <2>5, <1>2 DEF PublishPanics
  <2> QED BY <1>4, <2>1, <2>3, <2>4, <2>5 DEF AdvertiseOffer, Publish
<1>5. CASE PublishContracts \/ UNCHANGED vars
  BY <1>5, SignedKept DEF PublishContracts, vars, offerVars, callVars, pubVars
<1>6. CASE Trim \/ \E k \in Contracts : ProcessStorageRequest(k)
  <2>1. UNCHANGED <<adv, signed, call, pubOffer>>
    BY <1>6, WorkFrame DEF callVars, pubVars
  <2>2. CASE capacity' = capacity
    BY <2>1, <2>2, SignedKept
  <2>3. CASE \A c \in Callers : adv[c] # "signed"
    BY <2>1, <2>3 DEF SignedInv, SignedUnlessChanged
  <2> QED BY <1>6, <2>2, <2>3, NotWhileSigned
<1> QED BY <1>1, <1>2, <1>3, <1>4, <1>5, <1>6 DEF Next, Stop

(* The signature of a broadcast offer is that of the capacity beside it, with
   any number of advertising loops and acceptances between signing and
   sending, but for a SetOffer that writes the capacity without the lock. *)
THEOREM OffersSigned == Spec => []SignedUnlessChanged
<1>1. Init => SignedInv /\ SignedUnlessChanged
  BY DEF Init, NoOffer, SignedInv, SignedUnlessChanged
<1>2. TypeOK /\ WorkInv /\ SignedInv /\ SignedUnlessChanged /\ [Next]_vars
        => (SignedInv /\ SignedUnlessChanged)'
  BY SignedStep
<1> QED BY <1>1, <1>2, NodeAlways, PTL DEF Spec
=============================================================================
