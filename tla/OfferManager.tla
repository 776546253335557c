---------------------------- MODULE OfferManager ----------------------------
(***************************************************************************)
(* The custodian side of omnidisk: node/offer_manager.go.  An OfferManager *)
(* keeps the contracts whose data this node hosts, the capacity it still   *)
(* offers, and a copy of the contracts in a JSON file.  Four kinds of      *)
(* goroutines share it:                                                    *)
(*   - one ProcessStorageRequest per incoming storage request,             *)
(*   - one SetOffer per RPC,                                               *)
(*   - the contractTrimmer, woken every 23 seconds,                        *)
(*   - one ipfs.IpfsUnpinAll per trimmed contract.                         *)
(* Only part of the work is done under om.lock: the capacity check, the    *)
(* isOfferSet check of SetOffer, the capacity update of a repeated         *)
(* SetOffer and the trimmer's scan for expired contracts are not.          *)
(***************************************************************************)
EXTENDS Integers, Sequences, FiniteSets, FiniteSetsExt, Functions

CONSTANTS
    Requests,       \* storage requests; a request stands for its contract
    Setters,        \* SetOffer calls
    Size,           \* Size[r]: megabytes of the contract of r
    Cid,            \* Cid[r]: ipfs address of its index file
    Owner,          \* Owner[r]: its owner
    Expires,        \* Expires[r]: its expiry time
    OfferCap,       \* OfferCap[s]: the capacity that SetOffer call s asks for
    Unmarshalable,  \* contracts whose expiry time json.Marshal refuses
    Zero,           \* the zero entities.Contract
    Free, Trimmer,  \* om.lock is free, or held by the trimmer
    W,              \* capacities are unsigned and wrap modulo W (2^32 in Go)
    MaxInFlight,    \* bound: requests handled at the same time
    MaxTime,        \* bound: the clock stops here
    MaxCrashes,     \* bound: crashes of the process
    DiskFaults,     \* TRUE: ioutil.WriteFile may fail
    TornReads       \* TRUE: the unlocked scan may read a half-appended entry

ASSUME SentinelAssumption ==
    /\ Zero \notin Requests
    /\ Trimmer \notin Requests
    /\ Free \notin Requests \cup {Trimmer}

ASSUME DataAssumption ==
    /\ W \in Nat \ {0}
    /\ Size \in [Requests -> 0 .. W-1]
    /\ OfferCap \in [Setters -> 0 .. W-1]
    /\ Expires \in [Requests -> Nat]
    /\ Unmarshalable \subseteq Requests

ASSUME BoundAssumption ==
    /\ {MaxInFlight, MaxTime, MaxCrashes} \subseteq Nat
    /\ {DiskFaults, TornReads} \subseteq BOOLEAN

VARIABLES
    up,             \* the process is running
    contracts,      \* om.contracts
    file,           \* <peer id>_contracts.json: can it be read, its contracts
    isOfferSet,     \* om.isOfferSet
    capacity,       \* om.offer.Capacity
    granted,        \* history: capacity of the latest SetOffer
    lock,           \* om.lock: Free, Trimmer or the request holding it
    pc,             \* pc[r]: progress of ProcessStorageRequest(r)
    rpc,            \* rpc[s]: progress of SetOffer call s
    trim,           \* progress of the contractTrimmer
    ix,             \* its loop index, in the scan and in the rebuild
    limit,          \* length of om.contracts when its scan began
    toTrim,         \* indices it found expired
    newContracts,   \* contracts it has kept so far
    pinned,         \* cids pinned in the local ipfs node
    unpins,         \* contracts whose IpfsUnpinAll is still running
    now,            \* the clock
    crashes         \* crashes so far

procVars == <<pc, rpc>>
offerVars == <<isOfferSet, capacity, granted>>
trimVars == <<trim, ix, limit, toTrim, newContracts>>
pinVars == <<pinned, unpins>>
envVars == <<up, now, crashes>>
vars == <<contracts, file, lock, procVars, offerVars, trimVars, pinVars, envVars>>

-----------------------------------------------------------------------------
(* States of the goroutines. *)

Working == {"hosting", "hosted", "append", "writing", "charging"}
RequestStates == {"new", "accepted", "declined", "dead"} \cup Working
Locked == {"append", "writing", "charging"}
SetterStates == {"new", "locking", "ok", "err", "dead"}
TrimStates == {"tick", "scan", "lock", "loop", "commit", "write"}
TrimLocked == {"loop", "commit", "write"}

Unreadable == [ok |-> FALSE, list |-> <<>>]
Saved(cs) == [ok |-> TRUE, list |-> cs]

\* Mutant of Expired: a contract that expires now counts as expired.
NotAfter(c) == IF c = Zero THEN TRUE ELSE Expires[c] <= now

(* c.Expires.Before(time.Now()); the zero time is long past. *)
Expired(c) == IF c = Zero THEN TRUE ELSE Expires[c] < now

(* The operands of += and -= on om.offer.Capacity are uint32. *)
Plus(a, b) == (a + b) % W

\* Mutant of Minus: the difference may become negative.
SignedMinus(a, b) == a - b

Minus(a, b) == (a + W - b) % W

(* json.MarshalIndent refuses times outside the years 0 to 9999. *)
MarshalFails(cs) == Range(cs) \cap Unmarshalable # {}

(* ipfsLinks of ProcessRetrievalRequest for one owner. *)
IpfsLinks(o) == {Cid[r] : r \in {q \in Range(contracts) \ {Zero} : Owner[q] = o}}

InFlight == {r \in Requests : pc[r] \in Working}

-----------------------------------------------------------------------------
(* NewOfferManager with no contracts file yet. *)
Init ==
    /\ up = TRUE
    /\ contracts = <<>>
    /\ file = Unreadable
    /\ isOfferSet = FALSE
    /\ capacity = 0
    /\ granted = 0
    /\ lock = Free
    /\ pc = [r \in Requests |-> "new"]
    /\ rpc = [s \in Setters |-> "new"]
    /\ trim = "tick"
    /\ ix = 1
    /\ limit = 0
    /\ toTrim = {}
    /\ newContracts = <<>>
    /\ pinned = {}
    /\ unpins = {}
    /\ now = 0
    /\ crashes = 0

-----------------------------------------------------------------------------
(* ProcessStorageRequest. *)

Goto(r, s) == pc' = [pc EXCEPT ![r] = s]

(* The capacity check, made without om.lock. *)
HasRoom(r) == isOfferSet /\ capacity > Size[r]

Receive(r) ==
    /\ up
    /\ pc[r] = "new"
    /\ Cardinality(InFlight) < MaxInFlight
    /\ UNCHANGED <<contracts, file, lock, rpc, offerVars, trimVars, pinVars, envVars>>

Consider(r) == Receive(r) /\ HasRoom(r) /\ Goto(r, "hosting")

Refuse(r) == Receive(r) /\ ~HasRoom(r) /\ Goto(r, "declined")

(* ipfs.HostContent succeeds: the content is pinned. *)
Host(r) ==
    /\ up
    /\ pc[r] = "hosting"
    /\ Goto(r, "hosted")
    /\ pinned' = pinned \cup {Cid[r]}
    /\ UNCHANGED <<contracts, file, lock, rpc, offerVars, trimVars, unpins, envVars>>

HostFails(r) ==
    /\ up
    /\ pc[r] = "hosting"
    /\ Goto(r, "declined")
    /\ UNCHANGED <<contracts, file, lock, rpc, offerVars, trimVars, pinVars, envVars>>

(* om.lock.Lock() and the append of storeContract. *)
StoreContract(r) ==
    /\ up
    /\ pc[r] = "hosted"
    /\ lock = Free
    /\ lock' = r
    /\ Goto(r, "append")
    /\ contracts' = Append(contracts, r)
    /\ UNCHANGED <<file, rpc, offerVars, trimVars, pinVars, envVars>>

\* Mutant of StoreFails: the appended entry is taken back.
StoreRollback(r) ==
    /\ up
    /\ pc[r] = "append"
    /\ MarshalFails(contracts)
    /\ Goto(r, "declined")
    /\ lock' = Free
    /\ contracts' = SubSeq(contracts, 1, Len(contracts) - 1)
    /\ UNCHANGED <<file, rpc, offerVars, trimVars, pinVars, envVars>>

\* Mutant of StoreFails: the lock is not released.
StoreKeepsLock(r) ==
    /\ up
    /\ pc[r] = "append"
    /\ MarshalFails(contracts)
    /\ Goto(r, "declined")
    /\ UNCHANGED <<contracts, file, lock, rpc, offerVars, trimVars, pinVars, envVars>>

(* writeToDisk cannot marshal: the request is declined, its entry stays. *)
StoreFails(r) ==
    /\ up
    /\ pc[r] = "append"
    /\ MarshalFails(contracts)
    /\ Goto(r, "declined")
    /\ lock' = Free
    /\ UNCHANGED <<contracts, file, rpc, offerVars, trimVars, pinVars, envVars>>

(* ioutil.WriteFile first truncates the file ... *)
WriteBegin(r) ==
    /\ up
    /\ pc[r] = "append"
    /\ ~MarshalFails(contracts)
    /\ Goto(r, "writing")
    /\ file' = Unreadable
    /\ UNCHANGED <<contracts, lock, rpc, offerVars, trimVars, pinVars, envVars>>

(* ... and then fills it. *)
WriteEnd(r) ==
    /\ up
    /\ pc[r] = "writing"
    /\ Goto(r, "charging")
    /\ file' = Saved(contracts)
    /\ UNCHANGED <<contracts, lock, rpc, offerVars, trimVars, pinVars, envVars>>

(* WriteFile fails at open (old file kept) or later; its error is dropped. *)
WriteFault(r) ==
    /\ DiskFaults
    /\ up
    /\ \/ pc[r] = "append" /\ ~MarshalFails(contracts)
       \/ pc[r] = "writing"
    /\ Goto(r, "charging")
    /\ UNCHANGED <<contracts, file, lock, rpc, offerVars, trimVars, pinVars, envVars>>

(* om.offer.Capacity -= request.Contract.Size, the answer and the unlock. *)
Charge(r) ==
    /\ up
    /\ pc[r] = "charging"
    /\ Goto(r, "accepted")
    /\ capacity' = Minus(capacity, Size[r])
    /\ lock' = Free
    /\ UNCHANGED <<contracts, file, rpc, isOfferSet, granted, trimVars, pinVars, envVars>>

-----------------------------------------------------------------------------
(* contractTrimmer. *)

TrimTick ==
    /\ up
    /\ trim = "tick"
    /\ trim' = "scan"
    /\ ix' = 1
    /\ limit' = Len(contracts)
    /\ toTrim' = {}
    /\ UNCHANGED <<contracts, file, lock, procVars, offerVars, newContracts, pinVars, envVars>>

(* What the scan may take the entry at ix for.  append publishes the new
   length before the new element, so an entry being appended may be read as
   zero memory, which looks expired. *)
Torn(c) == TornReads /\ c # Zero /\ pc[c] = "append"

TrimScan ==
    /\ up
    /\ trim = "scan"
    /\ ix <= limit
    /\ ix' = ix + 1
    /\ \/ /\ Expired(contracts[ix]) \/ Torn(contracts[ix])
          /\ toTrim' = toTrim \cup {ix}
       \/ ~Expired(contracts[ix]) /\ UNCHANGED toTrim
    /\ UNCHANGED <<contracts, file, lock, procVars, offerVars, trim, limit,
                   newContracts, pinVars, envVars>>

\* Mutant of TrimScanned: a single expired contract is not trimmed.
TrimScannedMany ==
    /\ up
    /\ trim = "scan"
    /\ ix > limit
    /\ trim' = IF Cardinality(toTrim) <= 1 THEN "tick" ELSE "lock"
    /\ UNCHANGED <<contracts, file, lock, procVars, offerVars, ix, limit, toTrim,
                   newContracts, pinVars, envVars>>

TrimScanned ==
    /\ up
    /\ trim = "scan"
    /\ ix > limit
    /\ trim' = IF toTrim = {} THEN "tick" ELSE "lock"
    /\ UNCHANGED <<contracts, file, lock, procVars, offerVars, ix, limit, toTrim,
                   newContracts, pinVars, envVars>>

TrimLock ==
    /\ up
    /\ trim = "lock"
    /\ lock = Free
    /\ lock' = Trimmer
    /\ trim' = "loop"
    /\ ix' = 1
    /\ newContracts' = <<>>
    /\ UNCHANGED <<contracts, file, procVars, offerVars, limit, toTrim, pinVars, envVars>>

(* An expired entry: start to unpin it and take its capacity back. *)
TrimExpired ==
    /\ up
    /\ trim = "loop"
    /\ ix \in toTrim
    /\ ix' = ix + 1
    /\ unpins' = unpins \cup ({contracts[ix]} \ {Zero})
    /\ capacity' = IF isOfferSet /\ contracts[ix] # Zero
                   THEN Plus(capacity, Size[contracts[ix]])
                   ELSE capacity
    /\ UNCHANGED <<contracts, file, lock, procVars, isOfferSet, granted, trim, limit,
                   toTrim, newContracts, pinned, envVars>>

TrimKeep ==
    /\ up
    /\ trim = "loop"
    /\ ix \notin toTrim
    /\ \E m \in toTrim : m > ix
    /\ ix' = ix + 1
    /\ newContracts' = Append(newContracts, contracts[ix])
    /\ UNCHANGED <<contracts, file, lock, procVars, offerVars, trim, limit, toTrim,
                   pinVars, envVars>>

(* newContracts was made with Len(contracts) - len(toTrim) zero entries; the
   loop breaks after the last expired entry and fills no more of them. *)
Rebuilt ==
    newContracts \o
        [i \in 1 .. Len(contracts) - Cardinality(toTrim) - Len(newContracts) |-> Zero]

\* Mutant of TrimCommit: the shortened list is not saved.
TrimCommitUnsaved ==
    /\ up
    /\ trim = "loop"
    /\ \A m \in toTrim : m < ix
    /\ trim' = "tick"
    /\ lock' = Free
    /\ contracts' = Rebuilt
    /\ UNCHANGED <<file, procVars, offerVars, ix, limit, toTrim, newContracts,
                   pinVars, envVars>>

TrimCommit ==
    /\ up
    /\ trim = "loop"
    /\ \A m \in toTrim : m < ix
    /\ trim' = "commit"
    /\ contracts' = Rebuilt
    /\ UNCHANGED <<file, lock, procVars, offerVars, ix, limit, toTrim, newContracts,
                   pinVars, envVars>>

(* writeToDisk of the trimmer; its error is ignored. *)
TrimStoreFails ==
    /\ up
    /\ trim = "commit"
    /\ MarshalFails(contracts)
    /\ trim' = "tick"
    /\ lock' = Free
    /\ UNCHANGED <<contracts, file, procVars, offerVars, ix, limit, toTrim,
                   newContracts, pinVars, envVars>>

TrimWriteBegin ==
    /\ up
    /\ trim = "commit"
    /\ ~MarshalFails(contracts)
    /\ trim' = "write"
    /\ file' = Unreadable
    /\ UNCHANGED <<contracts, lock, procVars, offerVars, ix, limit, toTrim,
                   newContracts, pinVars, envVars>>

TrimWriteEnd ==
    /\ up
    /\ trim = "write"
    /\ trim' = "tick"
    /\ file' = Saved(contracts)
    /\ lock' = Free
    /\ UNCHANGED <<contracts, procVars, offerVars, ix, limit, toTrim, newContracts,
                   pinVars, envVars>>

TrimWriteFault ==
    /\ DiskFaults
    /\ up
    /\ \/ trim = "commit" /\ ~MarshalFails(contracts)
       \/ trim = "write"
    /\ trim' = "tick"
    /\ lock' = Free
    /\ UNCHANGED <<contracts, file, procVars, offerVars, ix, limit, toTrim,
                   newContracts, pinVars, envVars>>

(* A goroutine of IpfsUnpinAll ends. *)
Unpin(r) ==
    /\ r \in unpins
    /\ unpins' = unpins \ {r}
    /\ pinned' = pinned \ {Cid[r]}
    /\ UNCHANGED <<contracts, file, lock, procVars, offerVars, trimVars, envVars>>

-----------------------------------------------------------------------------
(* SetOffer. *)

(* A read-modify-write of om.offer.Capacity under the lock is under way. *)
CapacityInUse ==
    \/ \E r \in Requests : pc[r] = "charging"
    \/ trim = "loop" /\ ix \in toTrim

(* The offer is set already: its capacity is overwritten without the lock,
   and the caller gets an error.  A read-modify-write under way may in turn
   overwrite the new capacity. *)
SetOfferAgain(s) ==
    /\ up
    /\ rpc[s] = "new"
    /\ isOfferSet
    /\ rpc' = [rpc EXCEPT ![s] = "err"]
    /\ granted' = OfferCap[s]
    /\ \/ capacity' = OfferCap[s]
       \/ CapacityInUse /\ UNCHANGED capacity
    /\ UNCHANGED <<contracts, file, lock, pc, isOfferSet, trimVars, pinVars, envVars>>

(* The unlocked check of isOfferSet ... *)
SetOfferCheck(s) ==
    /\ up
    /\ rpc[s] = "new"
    /\ ~isOfferSet
    /\ rpc' = [rpc EXCEPT ![s] = "locking"]
    /\ UNCHANGED <<contracts, file, lock, pc, offerVars, trimVars, pinVars, envVars>>

(* ... and the assignments under the lock, which do not check it again. *)
SetOfferLocked(s) ==
    /\ up
    /\ rpc[s] = "locking"
    /\ lock = Free
    /\ rpc' = [rpc EXCEPT ![s] = "ok"]
    /\ isOfferSet' = TRUE
    /\ capacity' = OfferCap[s]
    /\ granted' = OfferCap[s]
    /\ UNCHANGED <<contracts, file, lock, pc, trimVars, pinVars, envVars>>

-----------------------------------------------------------------------------
(* The environment. *)

Tick ==
    /\ now < MaxTime
    /\ now' = now + 1
    /\ UNCHANGED <<contracts, file, lock, procVars, offerVars, trimVars, pinVars,
                   up, crashes>>

(* The process dies.  ipfs commands it started may run on or die with it. *)
Crash ==
    /\ up
    /\ crashes < MaxCrashes
    /\ crashes' = crashes + 1
    /\ up' = FALSE
    /\ lock' = Free
    /\ contracts' = <<>>
    /\ isOfferSet' = FALSE
    /\ capacity' = 0
    /\ granted' = 0
    /\ pc' = [r \in Requests |-> IF pc[r] \in Working THEN "dead" ELSE pc[r]]
    /\ rpc' = [s \in Setters |-> IF rpc[s] = "locking" THEN "dead" ELSE rpc[s]]
    /\ trim' = "tick"
    /\ ix' = 1
    /\ limit' = 0
    /\ toTrim' = {}
    /\ newContracts' = <<>>
    /\ unpins' \in SUBSET unpins
    /\ \E done \in SUBSET {r \in Requests : pc[r] = "hosting"} :
           pinned' = pinned \cup {Cid[r] : r \in done}
    /\ UNCHANGED <<file, now>>

(* loadFromDisk. *)
Restart ==
    /\ ~up
    /\ up' = TRUE
    /\ contracts' = file.list
    /\ UNCHANGED <<file, lock, procVars, offerVars, trimVars, pinVars, now, crashes>>

-----------------------------------------------------------------------------
ProcessStorageRequest(r) ==
    \/ Consider(r) \/ Refuse(r)
    \/ Host(r) \/ HostFails(r)
    \/ StoreContract(r) \/ StoreFails(r)
    \/ WriteBegin(r) \/ WriteEnd(r) \/ WriteFault(r)
    \/ Charge(r)

ContractTrimmer ==
    \/ TrimTick \/ TrimScan \/ TrimScanned \/ TrimLock
    \/ TrimExpired \/ TrimKeep \/ TrimCommit
    \/ TrimStoreFails \/ TrimWriteBegin \/ TrimWriteEnd \/ TrimWriteFault

SetOffer(s) == SetOfferAgain(s) \/ SetOfferCheck(s) \/ SetOfferLocked(s)

Next ==
    \/ \E r \in Requests : ProcessStorageRequest(r) \/ Unpin(r)
    \/ \E s \in Setters : SetOffer(s)
    \/ ContractTrimmer
    \/ Tick \/ Crash \/ Restart

Spec == Init /\ [][Next]_vars

(* The Go scheduler runs every goroutine that can run, and sync.RWMutex hands
   a lock to the goroutine that has waited longest, so a goroutine waiting for
   om.lock gets it although others take it in between.  Nothing obliges ipfs
   to end a pin, a request to arrive or the clock to reach an expiry. *)
Fairness ==
    /\ \A r \in Requests :
          /\ SF_vars(StoreContract(r))
          /\ WF_vars(StoreFails(r) \/ WriteBegin(r))
          /\ WF_vars(WriteEnd(r))
          /\ WF_vars(Charge(r))
    /\ \A s \in Setters : SF_vars(SetOfferLocked(s))
    /\ SF_vars(TrimLock)
    /\ WF_vars(TrimTick)
    /\ WF_vars(TrimScan)
    /\ WF_vars(TrimScanned)
    /\ WF_vars(TrimExpired \/ TrimKeep \/ TrimCommit)
    /\ WF_vars(TrimStoreFails \/ TrimWriteBegin)
    /\ WF_vars(TrimWriteEnd)

FairSpec == Spec /\ Fairness
-----------------------------------------------------------------------------
(* Properties.  An unlocked om.lock marks the points between critical
   sections, where the other goroutines may rely on what the last one left. *)

Contract == Requests \cup {Zero}

(* Type invariant: every field of the OfferManager, every goroutine and the
   file keep the values their Go types and program points allow; capacity in
   particular stays a uint32. *)
TypeOK ==
    /\ up \in BOOLEAN
    /\ contracts \in Seq(Contract)
    /\ file \in [ok : BOOLEAN, list : Seq(Contract)]
    /\ isOfferSet \in BOOLEAN
    /\ capacity \in 0 .. W-1
    /\ granted \in 0 .. W-1
    /\ lock \in Requests \cup {Free, Trimmer}
    /\ pc \in [Requests -> RequestStates]
    /\ rpc \in [Setters -> SetterStates]
    /\ trim \in TrimStates
    /\ ix \in Nat \ {0}
    /\ limit \in Nat
    /\ toTrim \subseteq Nat \ {0}
    /\ newContracts \in Seq(Contract)
    /\ pinned \subseteq {Cid[r] : r \in Requests}
    /\ unpins \subseteq Requests
    /\ now \in Nat
    /\ crashes \in Nat

Idle == up /\ lock = Free

(* writeToDisk runs before om.lock is released: between critical sections the
   file holds exactly the contracts in memory (or cannot be read, and loads as
   no contract, when there is none), so a restart resumes where the process
   stopped.  Contracts that cannot be marshalled are the exception. *)
DiskMatchesMemory ==
    Idle /\ ~MarshalFails(contracts) =>
        IF file.ok THEN file.list = contracts ELSE contracts = <<>>

(* The trimmer marks indices without the lock and uses them under it.  It
   never panics: from the scan to the rebuild its marks are indices of
   om.contracts, make gets no negative length, and newContracts has room for
   every entry that is kept. *)
TrimNeverPanics ==
    /\ trim \in {"scan", "lock", "loop"} =>
          limit <= Len(contracts) /\ toTrim \subseteq 1 .. limit
    /\ trim = "loop" =>
          Len(newContracts) + Cardinality(toTrim) <= Len(contracts)

(* Total size of the contracts this node has promised to keep. *)
Committed == MapThenSumSet(LAMBDA r : Size[r], Range(contracts) \ {Zero})

(* An offer is "the amount of storage space a node offers": what the contracts
   take and what is still on offer never exceed what SetOffer was asked for. *)
NoOvercommit ==
    Idle /\ isOfferSet => Committed + capacity <= granted

(* "If the offering node accepts the contract, it starts hosting the data":
   the data of a contract that has not expired stays pinned. *)
PinnedWhileContracted ==
    Idle => \A r \in Range(contracts) \ {Zero} :
                now <= Expires[r] => Cid[r] \in pinned

(* "The contractee can access its data at any time": a retrieval request of
   the owner finds every accepted contract until it expires. *)
AcceptedIsRetrievable ==
    Idle => \A r \in Requests :
                pc[r] = "accepted" /\ now <= Expires[r] => Cid[r] \in IpfsLinks(Owner[r])

(* A request whose content is pinned is answered: no goroutine keeps om.lock,
   and none waits for it forever. *)
HostedAnswered ==
    \A r \in Requests : pc[r] = "hosted" ~> pc[r] \in {"accepted", "declined"}

(* Every expired contract is removed from om.contracts by the trimmer. *)
ExpiredTrimmed ==
    \A r \in Requests :
        r \in Range(contracts) /\ Expires[r] < now ~> r \notin Range(contracts)
-----------------------------------------------------------------------------
(* The inductive strengthening behind TypeOK, DiskMatchesMemory and
   TrimNeverPanics. *)

(* om.lock is held exactly by the goroutine that is in a critical section. *)
LockInv ==
    /\ \A r \in Requests : pc[r] \in Locked <=> lock = r
    /\ trim \in TrimLocked <=> lock = Trimmer
    /\ ~up => lock = Free /\ trim = "tick"

(* Indices the rebuild has passed and kept. *)
KeptIndices == (1 .. ix-1) \ toTrim

(* What the trimmer knows at each of its program points. *)
TrimInv ==
    /\ trim = "scan" =>
          ix <= limit + 1 /\ limit <= Len(contracts) /\ toTrim \subseteq 1 .. ix-1
    /\ trim \in {"lock", "loop"} =>
          limit <= Len(contracts) /\ toTrim \subseteq 1 .. limit
    /\ trim = "loop" =>
          ix <= limit + 1 /\ Len(newContracts) = Cardinality(KeptIndices)

(* An unreadable file loads as no contract; a request that has come to the
   capacity update has saved the contracts. *)
FileInv ==
    /\ ~file.ok => file.list = <<>>
    /\ \A r \in Requests : pc[r] = "charging" => file = Saved(contracts)
    /\ DiskMatchesMemory

IInv == TypeOK /\ LockInv /\ TrimInv

(* Behind PinnedWhileContracted: the contracts that are pinned or expired. *)
Covered == {r \in Requests : Cid[r] \in pinned \/ Expires[r] < now}

(* What is unpinned or marked to be trimmed has expired, and every request and
   every list that may become om.contracts is covered. *)
PinInv ==
    /\ \A r \in unpins : Expires[r] < now
    /\ trim \in {"scan", "lock", "loop"} => \A i \in toTrim : Expired(contracts[i])
    /\ {r \in Requests : pc[r] = "hosted"} \subseteq Covered
    /\ {contracts, newContracts, file.list} \subseteq Seq(Covered \cup {Zero})
=============================================================================
