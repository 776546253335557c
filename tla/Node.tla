-------------------------------- MODULE Node --------------------------------
(***************************************************************************)
(* The life of one omnidisk node: cmd/main.go starts it with or without a  *)
(* private key file, it gets its identity, loads the contracts it keeps    *)
(* under that identity, joins the omnidisk topic and serves RPCs.          *)
(* SetOffer calls start loops that sign and broadcast the offer; another   *)
(* loop broadcasts the contracts.  The process may end at any step, by a   *)
(* signal, an error or a panic, and be started again.                      *)
(*                                                                         *)
(* The OfferManager appears with what outlives a run and what is broadcast: *)
(* its lock, its offer, its contracts and the file they are written to.    *)
(* Which contracts expire, in which order the trimmer goes through them    *)
(* and what is pinned is the subject of module OfferManager; here any of   *)
(* them may go whenever the trimmer runs.                                  *)
(***************************************************************************)
EXTENDS Integers, FiniteSets

CONSTANTS
    Callers,        \* SetOffer calls
    Cap,            \* Cap[c]: the capacity that call c asks for
    Contracts,      \* contracts offered to this node, each of size 1
    Unmarshalable,  \* those whose expiry time json.Marshal refuses
    Free, Trimmer,  \* om.lock is free, or held by the trimmer
    W,              \* capacities are unsigned and wrap modulo W (2^32 in Go)
    MaxStarts       \* bound: starts of the process

ASSUME ConstantAssumption ==
    /\ W \in Nat \ {0}
    /\ Cap \in [Callers -> 0 .. W-1]
    /\ Unmarshalable \subseteq Contracts
    /\ Callers \cap Contracts = {}
    /\ Trimmer \notin Callers \cup Contracts
    /\ Free \notin Callers \cup Contracts \cup {Trimmer}
    /\ MaxStarts \in Nat

(* The n-th start generates key n, if it generates one; key 0 is one that was
   there before.  A key stands for the peer id made from it. *)
Keys == 0 .. MaxStarts
Absent == -1        \* of a file: it does not exist; of a node: no key
Torn == -2          \* the file was created and the key not, or partly, written

(* -privkey: not given, naming mojkljuc.privkey, naming another file. *)
Args == [privkey : {"none", "default", "other"}, bootstrapOnly : BOOLEAN]

VARIABLES
    phase,          \* how far the process has come
    args,           \* its command line
    starts,         \* starts so far
    file,           \* the key files
    id,             \* n.privKey, and so n.ID()
    contracts,      \* om.contracts, its zero entries left out
    saved,          \* saved[i]: what can be loaded from <i>_contracts.json
    req,            \* req[k]: progress of the storage request for k
    trim,           \* the trimmer waits for its tick, or writes the file
    joined,         \* om.topic is set
    lock,           \* om.lock of the OfferManager
    isOfferSet, capacity,
    signed,         \* the capacity covered by the signature now being sent;
                    \* Absent otherwise, for om.offer is signed before each use
    call,           \* call[c]: progress of SetOffer call c
    adv,            \* adv[c]: the advertiseOffer loop that c has started
    pubOffer,       \* latest broadcast offer of this run
    pubContracts,   \* latest broadcast contracts of this run
    lastId,         \* history: id of the last run that used mojkljuc.privkey
    home,           \* history: home[k]: the id under which k was stored
    trimmed,        \* history: accepted contracts the trimmer has dropped
    unsaved,        \* history: contracts whose latest write was not completed
    second          \* history: calls made after a SetOffer had returned Done

idVars == <<phase, args, starts, file, id, lastId>>
contractVars == <<contracts, saved, req, trim, home, trimmed, unsaved>>
offerVars == <<isOfferSet, capacity, signed>>
callVars == <<call, second>>
pubVars == <<pubOffer, pubContracts>>
vars == <<idVars, contractVars, joined, lock, offerVars, callVars, adv, pubVars>>

Running == {"keyed", "started", "joined", "up"}
Managing == {"started", "joined", "up"}     \* the managers are there
Working == {"hosting", "writing", "charging"}
NoOffer == [cap |-> Absent, signed |-> Absent]

(* The private key of this run is, or was written, in mojkljuc.privkey. *)
OnDefaultFile == ~(args.privkey = "other" /\ file["other"] \in Keys)

Init ==
    /\ phase = "off"
    /\ args = [privkey |-> "none", bootstrapOnly |-> FALSE]
    /\ starts = 0
    /\ file \in {[default |-> 0, other |-> Absent], [default |-> Absent, other |-> 0]}
    /\ id = Absent
    /\ contracts = {}
    /\ saved = [i \in Keys |-> {}]
    /\ req = [k \in Contracts |-> "new"]
    /\ trim = "tick"
    /\ home = [k \in Contracts |-> Absent]
    /\ trimmed = {}
    /\ unsaved = {}
    /\ joined = FALSE
    /\ lock = Free
    /\ isOfferSet = FALSE
    /\ capacity = 0
    /\ signed = Absent
    /\ call = [c \in Callers |-> "new"]
    /\ adv = [c \in Callers |-> "none"]
    /\ pubOffer = NoOffer
    /\ pubContracts = {}
    /\ lastId = file["default"]
    /\ second = {}

-----------------------------------------------------------------------------
(* main, getPrivateKey. *)

(* The content of the key file named on the command line. *)
Named(a) == IF a.privkey = "none" THEN Absent ELSE file[a.privkey]

Exec(a) ==
    /\ phase = "off"
    /\ starts < MaxStarts
    /\ starts' = starts + 1
    /\ args' = a

Untouched == UNCHANGED <<contractVars, joined, lock, offerVars, callVars, adv, pubVars>>

LoadKey(a) ==
    /\ Exec(a)
    /\ Named(a) \in Keys
    /\ id' = Named(a)
    /\ phase' = "keyed"
    /\ UNCHANGED <<file, lastId>>
    /\ Untouched

(* UnmarshalPrivateKey refuses the file and main panics. *)
RefuseKey(a) ==
    /\ Exec(a)
    /\ Named(a) = Torn
    /\ UNCHANGED <<phase, file, id, lastId>>
    /\ Untouched

\* Mutant of NoKeyIn: an unreadable key file is replaced.
NoGoodKeyIn(k) == k \in {Absent, Torn}

(* No file named, or it does not exist: a new key is generated, and os.Create
   empties mojkljuc.privkey, whichever file was named. *)
NoKeyIn(k) == k = Absent

GenerateKey(a) ==
    /\ Exec(a)
    /\ NoKeyIn(Named(a))
    /\ id' = starts + 1
    /\ file' = [file EXCEPT !["default"] = Torn]
    /\ phase' = "creating"
    /\ UNCHANGED lastId
    /\ Untouched

WriteKey ==
    /\ phase = "creating"
    /\ file' = [file EXCEPT !["default"] = id]
    /\ phase' = "keyed"
    /\ UNCHANGED <<args, starts, id, lastId>>
    /\ Untouched

-----------------------------------------------------------------------------
(* The rest of Start, and Bootstrap. *)

(* A file that does not exist or does not parse is one without contracts. *)
LoadFromDisk(i) == saved[i]

(* The host and, unless bootstrapOnly, the managers are created. *)
StartManagers ==
    /\ phase = "keyed"
    /\ phase' = "started"
    /\ contracts' = IF args.bootstrapOnly THEN {} ELSE LoadFromDisk(id)
    /\ trimmed' = trimmed \ contracts'
    /\ UNCHANGED <<args, starts, file, id, lastId, saved, req, trim, home, unsaved>>
    /\ UNCHANGED <<joined, lock, offerVars, callVars, adv, pubVars>>

(* JoinOmnidisk; its error is dropped. *)
JoinOmnidisk ==
    /\ phase = "started"
    /\ phase' = "joined"
    /\ joined' \in IF args.bootstrapOnly THEN {FALSE} ELSE BOOLEAN
    /\ UNCHANGED <<args, starts, file, id, lastId>>
    /\ UNCHANGED <<contractVars, lock, offerVars, callVars, adv, pubVars>>

(* The bootstrap nodes are connected and the gRPC server listens. *)
Serve ==
    /\ phase = "joined"
    /\ phase' = "up"
    /\ UNCHANGED <<args, starts, file, id, lastId>>
    /\ Untouched

(* Nobody was told that k is hosted, and no file holds it: its name may stand
   for another contract in the next run. *)
Traceless(k) == req[k] # "done" /\ \A i \in Keys : k \notin saved[i]

(* The process ends.  Only the files remain. *)
Die ==
    /\ phase' = "off"
    /\ lastId' = IF phase \in Running /\ OnDefaultFile THEN id ELSE lastId
    /\ id' = Absent
    /\ contracts' = {}
    /\ req' = [k \in Contracts |->
                  IF Traceless(k) THEN "new"
                  ELSE IF req[k] \in Working THEN "failed" ELSE req[k]]
    /\ home' = [k \in Contracts |-> IF Traceless(k) THEN Absent ELSE home[k]]
    /\ unsaved' = {k \in unsaved : ~Traceless(k)}
    /\ trim' = "tick"
    /\ joined' = FALSE
    /\ lock' = Free
    /\ isOfferSet' = FALSE
    /\ capacity' = 0
    /\ signed' = Absent
    /\ call' = [c \in Callers |-> IF call[c] = "new" THEN "new" ELSE "dead"]
    /\ adv' = [c \in Callers |-> "none"]
    /\ pubOffer' = NoOffer
    /\ pubContracts' = {}
    /\ second' = {}
    /\ UNCHANGED <<args, starts, file, saved, trimmed>>

(* A signal, or an error of Start or Bootstrap. *)
Stop == phase # "off" /\ Die

-----------------------------------------------------------------------------
(* SetOffer. *)

Become(c, s) == call' = [call EXCEPT ![c] = s]

Arrive(c) ==
    /\ phase = "up"
    /\ call[c] = "new"
    /\ second' = IF \E d \in Callers : call[d] = "done" THEN second \cup {c} ELSE second

SetOfferRefused(c) ==
    /\ Arrive(c)
    /\ args.bootstrapOnly
    /\ Become(c, "refused")
    /\ UNCHANGED <<idVars, contractVars, joined, lock, offerVars, adv, pubVars>>

(* An offer is set: its capacity is changed without the lock, and an error
   returned. *)
SetOfferAgain(c) ==
    /\ Arrive(c)
    /\ ~args.bootstrapOnly
    /\ isOfferSet
    /\ capacity' = Cap[c]
    /\ Become(c, "changed")
    /\ UNCHANGED <<idVars, contractVars, joined, lock, isOfferSet, signed, adv, pubVars>>

SetOfferFirst(c) ==
    /\ Arrive(c)
    /\ ~args.bootstrapOnly
    /\ ~isOfferSet
    /\ Become(c, "locking")
    /\ UNCHANGED <<idVars, contractVars, joined, lock, offerVars, adv, pubVars>>

\* Mutant of FlagSet: isOfferSet is forgotten.
FlagKept == UNCHANGED isOfferSet

(* The critical section of SetOffer, and go advertiseOffer. *)
FlagSet == isOfferSet' = TRUE

SetOfferLocked(c) ==
    /\ call[c] = "locking"
    /\ lock = Free
    /\ capacity' = Cap[c]
    /\ signed' = Absent
    /\ FlagSet
    /\ Become(c, "done")
    /\ adv' = [adv EXCEPT ![c] = "tick"]
    /\ UNCHANGED <<idVars, contractVars, joined, lock, second, pubVars>>

-----------------------------------------------------------------------------
(* advertiseOffer: on every tick, updateOffer signs the offer, ... *)
SignOffer(c) ==
    /\ adv[c] = "tick"
    /\ lock = Free
    /\ lock' = c
    /\ signed' = capacity
    /\ adv' = [adv EXCEPT ![c] = "signed"]
    /\ UNCHANGED <<idVars, contractVars, joined, isOfferSet, capacity, callVars, pubVars>>

Ticked(c) ==
    /\ adv[c] = "signed"
    /\ joined
    /\ lock' = Free
    /\ signed' = Absent
    /\ adv' = [adv EXCEPT ![c] = "tick"]

(* ... GetOffer copies it, and the copy is broadcast, ... *)
PublishOffer(c) ==
    /\ Ticked(c)
    /\ pubOffer' = [cap |-> capacity, signed |-> signed]
    /\ UNCHANGED <<idVars, contractVars, joined, isOfferSet, capacity, callVars, pubContracts>>

\* Mutant of PublishFails: an error leaves the lock held.
FailsLocked(c) ==
    /\ adv[c] = "signed"
    /\ joined
    /\ adv' = [adv EXCEPT ![c] = "tick"]
    /\ UNCHANGED <<idVars, contractVars, joined, lock, offerVars, callVars, pubVars>>

(* ... or topic.Publish returns an error, which is logged, ... *)
PublishFails(c) ==
    /\ Ticked(c)
    /\ UNCHANGED <<idVars, contractVars, joined, isOfferSet, capacity, callVars, pubVars>>

(* ... or JoinOmnidisk had failed, the topic is nil and Publish panics. *)
PublishPanics(c) ==
    /\ adv[c] = "signed"
    /\ ~joined
    /\ Die

\* Mutant of SomeToPublish: contracts are broadcast only before an offer is set.
IdleToPublish == contracts # {} /\ ~isOfferSet

(* advertiseContracts; a tick without contracts, or whose Publish fails,
   changes nothing. *)
SomeToPublish == contracts # {}

(* json.Marshal refuses times outside the years 0 to 9999: as long as such a
   contract is kept, contracts are neither broadcast nor written. *)
MarshalFails(cs) == cs \cap Unmarshalable # {}

PublishContracts ==
    /\ joined
    /\ lock = Free
    /\ SomeToPublish
    /\ ~MarshalFails(contracts)
    /\ pubContracts' = contracts
    /\ UNCHANGED <<idVars, contractVars, joined, lock, offerVars, callVars, adv, pubOffer>>

-----------------------------------------------------------------------------
(* ProcessStorageRequest. *)

Goto(k, s) == req' = [req EXCEPT ![k] = s]

(* The unlocked check of the capacity. *)
HasRoom == isOfferSet /\ capacity > 1

Consider(k) ==
    /\ phase = "up"
    /\ req[k] = "new"
    /\ HasRoom
    /\ Goto(k, "hosting")
    /\ UNCHANGED <<idVars, contracts, saved, trim, home, trimmed, unsaved>>
    /\ UNCHANGED <<joined, lock, offerVars, callVars, adv, pubVars>>

(* ipfs.HostContent returns an error and the request is declined, as it is
   where there is no room.  Nothing is left of it. *)
HostFails(k) ==
    /\ req[k] = "hosting"
    /\ Goto(k, "new")
    /\ UNCHANGED <<idVars, contracts, saved, trim, home, trimmed, unsaved>>
    /\ UNCHANGED <<joined, lock, offerVars, callVars, adv, pubVars>>

\* Mutant of GetLock: the contract is stored and charged without the lock.
RaceForLock == TRUE

GetLock == lock = Free

(* The content is pinned; storeContract appends under the lock. *)
AppendContract(k) ==
    /\ req[k] = "hosting"
    /\ GetLock
    /\ contracts' = contracts \cup {k}
    /\ home' = [home EXCEPT ![k] = id]
    /\ UNCHANGED <<idVars, trim, trimmed, joined, offerVars, callVars, adv, pubVars>>

(* The contracts file now holds cs, while held is in memory. *)
File(cs, held) ==
    /\ saved' = [saved EXCEPT ![id] = cs]
    /\ unsaved' = (unsaved \cup held) \ cs

(* ioutil.WriteFile truncates the file, or it cannot be opened and stays as it
   is; the error is dropped. *)
Truncate == File({}, contracts')
WriteRefused == File(saved[id], contracts')

\* Mutant of StoreContract: the list is not written.
StoreInMemory(k) ==
    /\ AppendContract(k)
    /\ lock' = k
    /\ Goto(k, "charging")
    /\ UNCHANGED <<saved, unsaved>>

StoreContract(k) ==
    /\ AppendContract(k)
    /\ ~MarshalFails(contracts')
    /\ lock' = k
    /\ \/ Truncate /\ Goto(k, "writing")
       \/ WriteRefused /\ Goto(k, "charging")

(* writeToDisk cannot marshal: the request is declined, its entry stays. *)
StoreFails(k) ==
    /\ AppendContract(k)
    /\ MarshalFails(contracts')
    /\ Goto(k, "failed")
    /\ UNCHANGED <<lock, saved, unsaved>>

(* The file is filled, or that fails and what is there does not parse. *)
Fill == File(contracts, contracts) \/ File({}, contracts)

Written(k) ==
    /\ req[k] = "writing"
    /\ Goto(k, "charging")
    /\ Fill
    /\ UNCHANGED <<idVars, contracts, trim, home, trimmed, joined, lock>>
    /\ UNCHANGED <<offerVars, callVars, adv, pubVars>>

\* Mutant of Minus: the difference may become negative.
SignedMinus(a, b) == a - b

Minus(a, b) == (a + W - b) % W
Plus(a, b) == (a + b) % W

(* The capacity is charged, the lock released and the seeker told Done. *)
Charge(k) ==
    /\ req[k] = "charging"
    /\ Goto(k, "done")
    /\ capacity' = Minus(capacity, 1)
    /\ lock' = Free
    /\ UNCHANGED <<idVars, contracts, saved, trim, home, trimmed, unsaved>>
    /\ UNCHANGED <<joined, isOfferSet, signed, callVars, adv, pubVars>>

-----------------------------------------------------------------------------
(* contractTrimmer: contracts T go, the expired among them give their size
   back; the others are those it overwrites with zero entries. *)
Drop(T, expired) ==
    /\ phase \in Managing
    /\ ~args.bootstrapOnly
    /\ trim = "tick"
    /\ contracts # {}
    /\ lock = Free
    /\ contracts' = contracts \ T
    /\ trimmed' = trimmed \cup {k \in T : req[k] = "done"}
    /\ capacity' = IF isOfferSet THEN Plus(capacity, expired) ELSE capacity
    /\ UNCHANGED <<idVars, req, home, joined, isOfferSet, signed, callVars, adv, pubVars>>

TrimWrite(T, expired) ==
    /\ Drop(T, expired)
    /\ ~MarshalFails(contracts')
    /\ \/ Truncate /\ lock' = Trimmer /\ trim' = "writing"
       \/ WriteRefused /\ UNCHANGED <<lock, trim>>

TrimUnwritten(T, expired) ==
    /\ Drop(T, expired)
    /\ MarshalFails(contracts')
    /\ UNCHANGED <<saved, unsaved, lock, trim>>

TrimWritten ==
    /\ trim = "writing"
    /\ Fill
    /\ lock' = Free
    /\ trim' = "tick"
    /\ UNCHANGED <<idVars, contracts, req, home, trimmed, joined, offerVars, callVars, adv>>
    /\ UNCHANGED pubVars

-----------------------------------------------------------------------------
Start == \/ \E a \in Args : LoadKey(a) \/ RefuseKey(a) \/ GenerateKey(a)
         \/ WriteKey \/ StartManagers

Bootstrap == JoinOmnidisk \/ Serve

SetOffer(c) ==
    SetOfferRefused(c) \/ SetOfferAgain(c) \/ SetOfferFirst(c) \/ SetOfferLocked(c)

Publish(c) == PublishOffer(c) \/ PublishFails(c) \/ PublishPanics(c)

AdvertiseOffer(c) == SignOffer(c) \/ Publish(c)

ProcessStorageRequest(k) ==
    Consider(k) \/ HostFails(k) \/ StoreContract(k) \/ StoreFails(k) \/ Written(k) \/ Charge(k)

Trim ==
    \/ \E T \in SUBSET contracts : \E n \in {m \in 0 .. W-1 : m <= Cardinality(T)} :
          TrimWrite(T, n) \/ TrimUnwritten(T, n)
    \/ TrimWritten

Next ==
    \/ Start
    \/ Bootstrap
    \/ Stop
    \/ \E c \in Callers : SetOffer(c) \/ AdvertiseOffer(c)
    \/ PublishContracts
    \/ \E k \in Contracts : ProcessStorageRequest(k)
    \/ Trim

Spec == Init /\ [][Next]_vars

(* Whoever holds the lock goes on and releases it. *)
LockHolder ==
    \/ \E c \in Callers : Publish(c)
    \/ \E k \in Contracts : Written(k) \/ Charge(k)
    \/ TrimWritten

(* The tickers tick, the mutex does not pass over the broadcasting loops for
   ever, and the topic does not refuse for ever what can be marshalled.
   Nothing obliges the process to be started or stopped, calls and requests to
   come or to get the lock, ipfs to answer, or contracts to expire. *)
Fairness ==
    /\ WF_vars(LockHolder)
    /\ SF_vars(\E c \in Callers : SignOffer(c))
    /\ SF_vars(\E c \in Callers : PublishOffer(c))
    /\ SF_vars(PublishContracts)

FairSpec == Spec /\ Fairness

-----------------------------------------------------------------------------
(* Properties. *)

(* Type invariant: a running node has a key for its id, contract files belong
   to ids, capacities are uint32. *)
TypeOK ==
    /\ phase \in {"off", "creating"} \cup Running
    /\ args \in Args
    /\ starts \in 0 .. MaxStarts
    /\ file \in [{"default", "other"} -> Keys \cup {Absent, Torn}]
    /\ id \in Keys \cup {Absent} /\ (phase # "off" => id \in Keys)
    /\ contracts \subseteq Contracts
    /\ saved \in [Keys -> SUBSET Contracts]
    /\ joined \in BOOLEAN
    /\ req \in [Contracts -> {"new", "done", "failed"} \cup Working]
    /\ trim \in {"tick", "writing"}
    /\ home \in [Contracts -> Keys \cup {Absent}]
    /\ trimmed \subseteq Contracts
    /\ unsaved \subseteq Contracts
    /\ lock \in Callers \cup Contracts \cup {Free, Trimmer}
    /\ isOfferSet \in BOOLEAN
    /\ capacity \in 0 .. W-1
    /\ signed \in (0 .. W-1) \cup {Absent}
    /\ call \in [Callers -> {"new", "locking", "done", "changed", "refused", "dead"}]
    /\ adv \in [Callers -> {"none", "tick", "signed"}]
    /\ pubOffer \in [cap : (0 .. W-1) \cup {Absent}, signed : (0 .. W-1) \cup {Absent}]
    /\ pubContracts \subseteq Contracts
    /\ lastId \in Keys \cup {Absent}
    /\ second \subseteq Callers

(* A node started with -privkey mojkljuc.privkey has the identity of the last
   run that used that file, however that run and others after it have ended.
   A file that a start has emptied and not filled is refused, never replaced
   without the user's asking. *)
IdentityKept ==
    phase \in Running /\ args.privkey = "default" /\ lastId # Absent => id = lastId

(* The seeker of k was told Done by a node that ran under the identity i. *)
Accepted(k, i) == req[k] = "done" /\ home[k] = i

(* A running node knows only contracts stored under its own identity, and of
   those it has accepted under it, in this run or an earlier one, it knows all
   but two kinds: those the trimmer has dropped (rightly or, after the break at
   offer_manager.go:134, wrongly), and those in memory at a write of the
   contracts file that failed, or that the end of the process interrupted
   between truncating and filling it (offer_manager.go:161), until a later
   write has completed. *)
KnowsItsContracts ==
    phase \in Managing /\ ~args.bootstrapOnly =>
        /\ \A k \in contracts : home[k] = id
        /\ \A k \in Contracts : Accepted(k, id) => k \in contracts \cup trimmed \cup unsaved

(* The unlocked check of SetOffer lets two calls through only if they overlap:
   a call made after another has returned Done never returns Done. *)
SecondSetOfferRefused == \A c \in second : call[c] # "done"

(* The signature of a broadcast offer covers the capacity in it, unless a
   SetOffer that changed the capacity without the lock came in between. *)
SignedUnlessChanged ==
    pubOffer.cap # pubOffer.signed =>
        \E c \in Callers : call[c] = "changed" /\ Cap[c] = pubOffer.cap

(* A capacity that lasts is broadcast by a node that has joined the topic: the
   first one, a changed one, and what acceptances and expiries leave. *)
Offering == phase = "up" /\ joined /\ isOfferSet

OfferAdvertised == []<>(Offering => pubOffer.cap = capacity)

(* The node has joined the topic and not told of k, which it has accepted. *)
Unadvertised(k) ==
    /\ joined
    /\ Accepted(k, id)
    /\ k \notin trimmed \cup unsaved
    /\ k \notin pubContracts

(* No contract accepted in this run or an earlier one under the same identity,
   and neither trimmed nor lost with the file, stays out of the broadcasts of a
   node that has joined the topic.  One thing can keep it out: a contract that
   json.Marshal refuses, and that is never trimmed. *)
ContractsAdvertised ==
    \/ \A k \in Contracts : []<>~Unadvertised(k)
    \/ <>[]MarshalFails(contracts)

-----------------------------------------------------------------------------
(* The inductive strengthenings behind the invariants above. *)

(* mojkljuc.privkey holds the key of the last run that used it, of this run if
   it does, or nothing readable. *)
IdInv ==
    /\ phase = "off" \/ (phase \in Running /\ ~OnDefaultFile) =>
          lastId = Absent \/ file["default"] \in {lastId, Torn}
    /\ phase = "creating" =>
          /\ OnDefaultFile /\ file["default"] = Torn
          /\ args.privkey = "default" => lastId = Absent
    /\ phase \in Running /\ OnDefaultFile => file["default"] = id

(* Offers are set only on a node that is up and not bootstrap-only. *)
OfferInv ==
    /\ isOfferSet \/ (\E c \in Callers : call[c] = "locking") => phase = "up" /\ ~args.bootstrapOnly
    /\ (\E c \in Callers : call[c] = "done") => isOfferSet
    /\ \A c \in second : call[c] \in {"changed", "refused"}

(* Requests and the trimmer work on a node that keeps contracts, and write
   under the lock; an offer is signed and broadcast under it. *)
WorkInv ==
    /\ \A c \in Callers : adv[c] = "signed" => lock = c
    /\ \A k \in Contracts :
          /\ req[k] \in Working => phase = "up" /\ ~args.bootstrapOnly
          /\ req[k] \in {"writing", "charging"} =>
                lock = k /\ home[k] = id /\ k \in contracts
          /\ req[k] = "charging" => k \in saved[id] \cup unsaved
          /\ req[k] \in {"new", "hosting"} => home[k] = Absent
    /\ trim = "writing" =>
          /\ lock = Trimmer
          /\ phase \in Managing /\ ~args.bootstrapOnly

(* Every file holds contracts of its own identity, and all that were accepted
   under it but those of KnowsItsContracts. *)
SavedInv ==
    /\ \A i \in Keys : \A k \in saved[i] : home[k] = i
    /\ \A i \in Keys : \A k \in Contracts :
          Accepted(k, i) => k \in saved[i] \cup trimmed \cup unsaved
    /\ \A i \in Keys : saved[i] \cap unsaved = {}

(* A changing SetOffer has set the capacity to n. *)
ChangedTo(n) == \E c \in Callers : call[c] = "changed" /\ Cap[c] = n

SignedInv ==
    \A c \in Callers : adv[c] = "signed" => signed = capacity \/ ChangedTo(capacity)

IInv ==
    /\ TypeOK
    /\ IdInv /\ IdentityKept
    /\ OfferInv
    /\ WorkInv /\ SavedInv /\ KnowsItsContracts
    /\ SignedInv /\ SignedUnlessChanged
=============================================================================
