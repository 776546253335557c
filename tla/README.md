# omnidisk in TLA+

omnidisk is a peer-to-peer storage market written in Go. A node offers storage
by broadcasting an *offer* (its address and capacity); a node that wants data
kept publishes the data to ipfs, listens for offers and sends the offering nodes
a *contract* (owner, size, cid, expiry, number of custodians). A node that
accepts pins the data, records the contract and from then on broadcasts the
contracts it holds, so that the owner finds its data again.

This directory models the parts of the program in which goroutines meet, checks
them with TLC and proves the central safety properties with TLAPS. Line numbers
refer to `src/`.

    tlc -config OfferManagerSafety.cfg MCOfferManager
    tlapm OfferManager_proofs.tla

## The system

| Component | State | Operations | Modelled in |
|---|---|---|---|
| `OfferManager` (`node/offer_manager.go`) | `contracts`, `isOfferSet`, `offer`, `lock`; the file `<id>_contracts.json` | `ProcessStorageRequest`, `ProcessRetrievalRequest`, `SetOffer`, `contractTrimmer`, `loadFromDisk`, `writeToDisk`, `updateOffer`, `GetOffer` | `OfferManager`; `Node` for what is signed and advertised |
| `ContractManager` (`node/contract_manager.go`) | per call: `acks`, `triedAddrs`, channels `c` and `doneC` | `PrepareContract`, `SeekStorage`, `RetrieveDataV2` | `FindCustodians` (seeking), `NodeEvents` (retrieval) |
| `Connector` (`node/connector.go`) | an event publisher; one stream per request | `Send` (client), `reader` (server), `write`, `receive` | `FindCustodians` (`Send`), `NodeEvents` (`reader`), `Exchange` (both, at the level of bytes) |
| `node` (`node/node.go`) | `eventPublishers`, `eventPublishersLock`, the private key and its file | `Start`, `getPrivateKey`, `Bootstrap`, `joinEvents`, `publishEvent`, `subscribeToEvents`, RPC entry points | `Node` (start-up), `NodeEvents`; `FindCustodians` with one subscriber |
| `OmniManager` (`node/omni_manager.go`) | the pubsub topic | `JoinOmnidisk`, `advertiseOffer`, `advertiseContracts`, `omniSubscriptionHandler` | `Node`; action `Hear` of `FindCustodians` and `NodeEvents` |
| `events` (`events/event_handler.go`) | channels `c`, `doneC`, flag `closed` | `Publish`, `Next`, `Close`, `handleClose` | `EventHandler` |
| `ipfs` (`ipfs/`) | pins of the local ipfs node, the daemon | `HostContent`, `IpfsUnpinAll`; `Ipfser`, `Dei`, `Subdei` | `IpfsPin`; two single steps in `OfferManager` |
| `messages`, `gen/msg` | none | conversion, `Size`, `Marshal`, `Unmarshal` | `Exchange`, `MsgCodec` |
| `api` (`api/api.go`) | none | RPC handlers | `NodeEvents` (`SubscribeToEvents`), `Node` (`SetOffer`) |
| `cmd` (`cmd/main.go`) | flags | start-up | `Node` |
| `entities`, `gen/api` | none | copying | not modelled |

How the parts interact:

- A seeker's `SeekStorage` gets offers from a subscription to the node's events
  and calls `Connector.Send` for each address in a goroutine of its own. `Send`
  reports back by writing the int behind `*ack`.
- The custodian's `Connector.reader` calls `ProcessStorageRequest` in one
  goroutine per stream. All of them share the `OfferManager` with the trimmer
  and with `SetOffer`.
- A request and its response are one protobuf message each on a libp2p stream,
  read with a single `Read` and without a length.
- `SetOffer` starts an `advertiseOffer` loop, which signs and broadcasts the offer
  on every tick under the lock of the OfferManager; `advertiseContracts` does the
  same with the contracts, which are kept under the peer id of the key in use.
- The events of `Connector` and `OmniManager` pass through one `joinEvents` loop
  each. A loop takes an event, locks `eventPublishersLock`, and hands the event
  to every subscriber in turn over unbuffered channels. The speed of the slowest
  subscriber is the speed of everything that publishes.

What is hard about it: checks made outside the lock whose result is used inside
it; a scan without a lock; a file that is truncated before it is rewritten;
unbuffered channels between goroutines that also wait for each other by polling;
a channel closed by its receiver's side; a key file that is emptied before the
new key is written; a shell pipeline whose exit status is that of its last
command; messages without a length on a stream that keeps no limits. The
`hazards` of `PROJECT.json` list these at their lines.

What makes each part correct:

- *OfferManager*: contracts on disk and in memory agree; the trimmer never
  panics, removes what has expired and nothing else; pinned data stays pinned for
  the life of its contract; promised space stays within the offer; an accepted
  contract can be found by its owner until it expires; requests are answered.
- *SeekStorage*: it returns, and only with as many different custodians as were
  asked for; no slot is forgotten; no node hosts data without the seeker knowing;
  the subscription it listened on is released with the next new offer.
- *Event hub*: every subscriber gets every event once, in one order for all of
  them; nobody who publishes is held up for ever, unless one of three kinds of
  subscriber stops the hub.
- *RetrieveDataV2*: it can begin, and it reports the contracts of this node that
  were broadcast while it listened.
- *Start-up and advertising*: a node keeps its identity across restarts, and
  under it the contracts it has accepted, except those that were trimmed or that
  a write of the contracts file has lost; one `SetOffer` succeeds; what is
  broadcast is signed as it is sent, and every lasting offer and every contract
  it knows is broadcast.
- *Pinning*: hosted content is pinned, and what is missing or stays pinned does so
  in one of a few known ways; `HostContent` returns if its ipfs commands end.
- *Messages*: what is served is what was sent, an acknowledgement is what was
  answered, and the generated code agrees with itself about sizes and bytes.
- *Subscription*: an event is delivered exactly if `Publish` says so; closing
  unblocks every publisher, returns, and does not crash the node.

## Modules

A definition commented `Mutant of X` is a plausible mistake in `X`; the `mutants` of
`PROJECT.json` name the property that notices it. It is part of no specification.

### OfferManager

One OfferManager with its file. The variables are the fields of the Go struct
(`contracts`, `isOfferSet`, `capacity`, `lock`), the file, one program counter
per goroutine (`pc[r]` for a request, `rpc[s]` for a SetOffer call, `trim` with
its local variables `ix`, `limit`, `toTrim`, `newContracts`) and the ipfs pins.
A contract is represented by the request that brought it; its size, cid, owner
and expiry are constant functions of the request. `Zero` is Go's zero
`entities.Contract`. Only the fields of a contract that the code reads are kept.

| Actions | Code |
|---|---|
| `Consider`, `Refuse` | the unlocked capacity check, lines 186 and 211 |
| `Host`, `HostFails` | `ipfs.HostContent`, 188 |
| `StoreContract`, `StoreFails` | lock and append, 195-199 and 172; a marshalling error, 173-176 and 199-203 |
| `WriteBegin`, `WriteEnd`, `WriteFault` | `ioutil.WriteFile`, 161: truncate, fill, or fail unnoticed |
| `Charge` | `om.offer.Capacity -=`, the answer and the deferred unlock, 206-210 |
| `TrimTick`, `TrimScan`, `TrimScanned` | the scan without the lock, one entry per step, 105-114 |
| `TrimLock`, `TrimExpired`, `TrimKeep`, `TrimCommit` | the rebuild under the lock, 116-140 |
| `TrimStoreFails`, `TrimWriteBegin`, `TrimWriteEnd`, `TrimWriteFault` | `writeToDisk(true)` and unlock, 141-142 |
| `Unpin` | the goroutine started at 127 |
| `SetOfferAgain`, `SetOfferCheck`, `SetOfferLocked` | `SetOffer`, 248-265 |
| `Crash`, `Restart` | the process dies and `NewOfferManager`, `loadFromDisk` run, 39-97 |

Data races are nondeterministic choices: with `TornReads` the scan may see an
entry that is being appended as zero memory (the new slice length is visible
before the new element), and a capacity written by `SetOfferAgain` may be lost
to a read-modify-write under way. The capacity wraps modulo `W`, which stands
for 2^32.

`ProcessRetrievalRequest` changes nothing and is the operator `IpfsLinks`, used
by the property about it. `GetOffer` and `updateOffer`, which refresh the offer that
is broadcast, are in `Node`, and the steps of `HostContent` in `IpfsPin`. `Covered`
and `PinInv` are the strengthening behind `PinnedWhileContracted`.

### FindCustodians and Custody

One `FindCustodians` call after `PrepareContract`, with all goroutines it takes:
`SeekStorage` (`seek`, `slot`, `acks`), `getCandidates` (`cand`, `candAddr`,
`tried`), one `Send` per slot (`send`, `target`, `reply`) and the two `joinEvents`
loops (`join`, `evt`, `hub`). Two goroutines that meet on an unbuffered channel
take one joint step (`TakeCandidate`, `PublishReply`, `Deliver`). `hosting` is
external: the addresses whose node has accepted.

| Actions | Code |
|---|---|
| `GetSlot`, `SeekDone` | `getSlot`, `contract_manager.go` 79-97 and 168-173 |
| `TakeCandidate` | 175-178 meeting 138-139 |
| `CandidatesQuit` | 140-143 |
| `ConnectFail` | `connector.go` 193-205, where `return` precedes `*ack = 0` |
| `Request`, `StreamFail`, `Accept`, `Decline` | 186-192, 208-233 and 259-262, with the custodian's answer |
| `PublishReply`, `Ack` | 242 and 243-247 |
| `Hear` | `omniSubscriptionHandler` publishing what it heard |
| `HubLock`, `Deliver`, `Skip` | `joinEvents` and `publishEvent` of `node.go`, with `getCandidates` 105-135 |

`Custody` is the abstract specification: nodes come to host, each slot gets one
hosting node for good, no node serves two slots, and the call returns only when
every slot is served. `KeepsPromise` says that `FindCustodians` implements it,
mapping a slot to `NodeOf[target[i]]` once its ack is 1.

### EventHandler

One subscription at the granularity of channel operations: the check of
`Closed()`, the `select` of `Publish` with each ready case an action of its own,
`Next`, the send and the close in `Close`, and `handleClose`. Any number of
`Publish` calls run at once, because all `Send`s and `reader`s of a node share the
Connector's publisher.

### NodeEvents

The event hub with all its subscribers: `RetrieveData` calls (`Retrievals`),
`FindCustodians` calls with their `getCandidates` (`Seekers`) and the event streams of
the RPC server (`Streams`). `FindCustodians` reduces the hub to the one subscriber it
needs, and has what `SeekStorage` does with the offers. The variables are the hub
(`publishers`, `hub`), the two `joinEvents` loops (`join`, `evt`, `pos`, the index into
the publishers), each subscriber's place (`call`) and local variables (`late`, `tried`,
`cids`; `direct` is the set of retrievals whose arguments name a cid of known
datatype), each `reader` (`reader`), and three history variables: `log` lists the events in the
order in which `publishEvent` took them, `since` and `seen` what a subscriber
could have seen and has seen. `cids` is a set; the repetitions of the Go slice
(two custodians of one content) are left out. Closing a subscription is one
step here. A `reader` leaves the module when its event is taken; the request is
then served in `OfferManager`, in which the hub has no part.

| Actions | Code |
|---|---|
| `Hear` | `omniSubscriptionHandler` publishing a broadcast of contracts or of an offer, `omni_manager.go` 140-189 |
| `ReadRequest`, `PublishRequest` | `reader`, `connector.go` 123-142: the event goes out at 139, before the request is served |
| `Subscribe` | `subscribeToEvents`, `node.go` 215-222, with which `FindCustodians` (444), `RetrieveData` and `SubscribeToEvents` begin |
| `CandidateTaken`, `SeekOver` | `getCandidates` holding out an address, `contract_manager.go` 137-144: `SeekStorage` takes it, or `doneC` is closed |
| `ReturnDirect` | the early return of `RetrieveDataV2`, `contract_manager.go` 189-204 |
| `Listen`, `Stop`, `MinutePasses` | its loop: the clock is looked at before each `Next`, 206-216 and 244 |
| `Sent`, `SendFails` | the loop of the RPC stream and its deferred `Close`, `api.go` 83-94 |
| `HubLock`, `Deliver`, `Skip`, `Release` | `publishEvent`, `node.go` 105-120; `Deliver` includes what the subscriber does with the event (`Note`, `After`), `contract_manager.go` 105-135 and 216-242 |

### Node

One node from `main` to its end, and again: the command line (`args`), the key files
(`file`, where `Torn` is one that was emptied and not yet written), the identity
(`id`), the contracts in memory and in the file of each identity (`contracts`,
`saved`), whether `JoinOmnidisk` succeeded (`joined`), the offer (`lock`, `isOfferSet`,
`capacity`, `signed`), the progress of each storage request, of the trimmer, of each
SetOffer call and of the loop it has started (`req`, `trim`, `call`, `adv`), and what
was broadcast last. History: `lastId`, `second`, `home` (the identity under which a
contract was stored), `trimmed` (accepted contracts that the trimmer has dropped)
and `unsaved` (contracts whose latest write was not completed). A key stands for the
peer id made from it; the n-th start generates key n if it generates one.

Storage requests take the steps they take in `OfferManager`: the unlocked check,
pinning, the append, the truncated file, the filled one, the charge. The process
may end between any two of them, any write may fail, and a contract in
`Unmarshalable` lets every write and every broadcast fail as long as it is kept. Of
the trimmer, `Node` has what it leaves behind: any set of contracts may go (`Drop`),
which includes those that the loop at line 134 overwrites with zeros, and any number
of those gives its size back; `OfferManager` has which ones and why. Zero entries
are left out of `contracts`. A request that left no trace when the process ended
(`Traceless`) may come again in the next run.

| Actions | Code |
|---|---|
| `LoadKey`, `RefuseKey`, `GenerateKey`, `WriteKey` | `main.go` and `getPrivateKey` of `node.go`: a file that does not exist leads to a new key in `mojkljuc.privkey`, one that cannot be read to a panic |
| `StartManagers` | the rest of `Start`, with `NewOfferManager` and `loadFromDisk` |
| `JoinOmnidisk`, `Serve` | `Bootstrap`; the error of `JoinOmnidisk` is dropped |
| `Stop` | a signal or an error, at any step |
| `SetOfferRefused`, `SetOfferAgain`, `SetOfferFirst`, `SetOfferLocked` | the RPC and `SetOffer`, `offer_manager.go` 248-265 |
| `SignOffer` | `updateOffer`, which returns with the offer signed |
| `PublishOffer`, `PublishFails`, `PublishPanics` | `GetOffer` and `topic.Publish` in `advertiseOffer`; the topic is nil if joining failed |
| `PublishContracts` | `advertiseContracts`; `MarshalFails` is the error at `omni_manager.go` 214-217 |
| `Consider`, `HostFails` | `ProcessStorageRequest`: the unlocked check, 186, and `HostContent`, 188 |
| `StoreContract`, `StoreFails` | lock, append and `writeToDisk` up to the truncation of the file, 195-199 and 161, or a write that is refused; a marshalling error, 173-176 and 199-203 |
| `Written`, `Charge` | the file is filled, or that fails; the capacity is charged and the lock released, 206-210 |
| `TrimWrite`, `TrimUnwritten`, `TrimWritten` | the critical section of `contractTrimmer`, 116-142 |

### IpfsPin

`HostContent` and `IpfsUnpinAll` command by command, for any number of calls at once.
A content is an index file (`Index`) listing pieces (`Pieces`). `host` is each call's
place, `lines`, `line` and `status` belong to the shell loop, `out` is what the daemon
that a call has started has printed, and `looks` counts how often the call has looked
at it (`MaxLooks`, 30 in the code). ipfs is external: `pinned` is a set, so that a
cid shared by two contents is pinned once; any command may fail, and none need
end; what is not pinned here can be read only with a running daemon, which may
die. `pidof ipfs` finds a daemon or any other ipfs command; between two commands
of a loop it may find none (`IpfsMayRun`, `NoDaemon`). `missed`, `added` and `kept` are
history: pins that have failed, pins made, and pins that a removal has left.

| Actions | Code (`ipfs_manager.go`) |
|---|---|
| `DaemonFound`, `NoDaemon`, `StartDaemon`, `StartFails`, `AwaitLook`, `AwaitDone`, `AwaitFails` | `startIpfsDaemon`, 144-175 |
| `PinIndex`, `PinIndexFails`, `Cat`, `PinLine`, `PinLineFails`, `PinEnd` | `ipfsPinAll`, 202-218 |
| `Expire` | the trimmer starts `IpfsUnpinAll`, `offer_manager.go` 124-127 |
| `UnpinCat`, `UnpinLine`, `UnpinLineFails`, `UnpinEnd`, `UnpinIndex`, `UnpinIndexFails` | `IpfsUnpinAll`, 230-254 |
| `DaemonReady`, `DaemonDies` | external |

### Exchange and MsgCodec

`MsgCodec` is the generated code of `gen/msg/msg.pb.go`, which repeats the same loops
for every field of every message; the module has them once, over a table of the
fields, and the methods of each message as instances. A string is a sequence of
bytes, a pointer a sequence of at most one message, a parser the set of its
results (none where the code returns an error). Integers are computed modulo `W32`
and `W64`, 2^32 and 2^64 in the code; `WidthAssumption` keeps what the code relies on:
both even, the first a divisor of the second, a byte of seven bits below both. Loops
and the calls of one message's method by another's are recursive functions
(`VarintAt`, `skipFrom`, `SizeOf`, `MarshalOf`, `UnmarshalOf`) over the sets of the Go
types (`Bytes`, `Uint32`, `Offer`, `Message`, ...).

`Exchange` is one request and its response. `SendRequest`, `WriteFails`, `ReadReply`
and `ReplyFails` are `Send` (`connector.go` 171-263), `ReadRequest`, `ReadFails` and
`Reply` are `reader` (123-168), with the conversions of `messages/entities.go`. The
`Read` of `receive` (103-110) returns any prefix of what was written, up to `Limit`
bytes. `OtherAsks` and `Extend` are a node that runs another version and appends
fields to its request. `UnmarshalFromProtobuf` yields nothing where the code
dereferences nil; the process then panics. `ExchangeAssumption` says that requests
and answers are values of the Go structs of `messages/entities.go`, and that what is
written, and what a later version appends, is below a quarter of 2^64 bytes.

## Runs

| Run | Question | Bounds |
|---|---|---|
| `custodian_safety` | `TypeOK`, `DiskMatchesMemory`, `TrimNeverPanics`, `PinnedWhileContracted` | 3 requests, 2 in flight, 2 SetOffer calls, 1 crash, 1 clock tick past an expiry, one contract that cannot be marshalled |
| `custodian_live` | `HostedAnswered`, `ExpiredTrimmed` | 2 requests in flight, 2 SetOffer calls, torn reads and disk faults on |
| `trim_loses_live_contract` | finding: `AcceptedIsRetrievable` fails | 2 requests, no crash |
| `concurrent_overcommit` | finding: `NoOvercommit` fails | 2 requests in flight |
| `seek_safety` | `TypeOK`, `EnoughCustodians`, `WaitingIsServed`, `NoStrayCustodian`, `KeepsPromise` | 2 slots, 4 addresses, declines, failed connections and broken streams |
| `seek_live` | `SeekReturns`, `SubscriptionReleased` | 1 slot, 3 willing addresses, of which one repeats its offer for ever |
| `seek_deadlock` | finding: `SeekReturns` fails | 2 slots, 3 willing addresses |
| `subscription` | `OkMeansDelivered`, `NoneBlockedAfterClose`, `CloseReturns`, `QuietCloseIsSafe` | 4 concurrent `Publish` calls |
| `node_events` | `TypeOK`, `SameOrder`, `ResultExact`, `NobodyHeldUp`, `DeadlineEndsCall` | 1 retrieval (direct or listening), 1 seeker, 1 RPC stream, 3 events out of 2 storage requests, 2 contract broadcasts and 1 offer of one address |
| `exchange` | `TypeOK`, `ServedAsSent`, `AckTruthful`, `CrashOnlyAfterType`, `SizeExact`, `DecodedIsStable` | 15 requests, 9 answers, a buffer of 30 bytes, up to 3 of 13 fragments appended |
| `node_life` | `TypeOK`, `IdentityKept`, `KnowsItsContracts`, `SecondSetOfferRefused`, `SignedUnlessChanged`, `OfferAdvertised`, `ContractsAdvertised` | 3 starts with any command line, 2 SetOffer calls, 2 contracts, one of which cannot be marshalled, capacities modulo 3 |
| `ipfs_pin` | `TypeOK`, `MissingExplained`, `PinsOwned`, `HostReturns` | 2 contents of 2 pieces with one in common, 2 looks at a daemon's output, 1 death of the daemon |

Why the bounds are enough. Three contracts put an entry before, at and behind an
expired one; two requests in flight race on the check, the lock and the scan; a
second SetOffer call reaches both the double first call and the unlocked
overwrite; one tick separates the contracts that expire from those that do not;
one crash can fall between any two steps. `W = 8` is small enough for sums to
wrap. Two slots and four addresses leave spare candidates after two declines.
A request and two broadcasts keep both `joinEvents` loops busy at once, with
subscribers joining before, between and after them; the second contract broadcast
repeats the address of the first with another contract, and the offer between them
is the candidate a seeker may hold out for ever. A request can be held up only by
the event of another one that is still waiting for the hub, hence two of them;
`MaxEvents = 3` lets the broadcasts come as far as the offer and a request behind it,
or all of them, or two requests. Requests and broadcasts are numbered as they
come; in this instance the broadcast without the wanted contract is the first,
which is the case that hides a later one. Three starts are a run that creates the
key, one that is cut off while it creates another, and one that finds what is left;
capacity 0 is one that no contract fits, 2 one that a contract leaves room in. Of
the two contracts either may be stored first, so that the one that cannot be
marshalled meets an empty file and a full one. Two looks can find a daemon not
ready and then ready. With two pieces a pin can fail before the last line or at it, and
the shared piece is the last line of one content and the first of the other. The
strings of `exchange` are short and `W32 = 256`, `W64 = 32768` small, so that values on
both sides of every varint length, negative numbers and varints that are too wide
for their field or never end occur in messages of a few bytes; the longest answer
does not fit into the buffer.
The spaces are between one thousand and 530 thousand states; the longest runs are
`node_life` (about two minutes) and `node_events`. The symmetry used
in `seek_safety` permutes addresses and slots, which no property names; runs
with liveness use none.

Premises. Some properties hold only where a run says so, and each premise is the
exact place where the code leaves a gap:

- `PinnedWhileContracted` needs contracts with different cids: expiry of one
  unpins the content of another (line 127). It also needs `TornReads = FALSE`: a
  half-appended entry read as zero looks expired and is trimmed.
- `NoOvercommit` would need one request at a time: with `MaxInFlight = 1` the
  configuration of `concurrent_overcommit` passes. It would also need one SetOffer
  and no restart. A second SetOffer, and the first one after a restart, grants
  the full capacity again without charging the contracts already held, and their
  refunds then raise it above the grant.
- `DiskMatchesMemory` needs `DiskFaults = FALSE`, since the error of `WriteFile`
  is dropped at line 161, and it excepts lists that `json.MarshalIndent` refuses.
  It does not say that contracts survive a crash: the file is rewritten in place
  (161), and a crash between truncating and filling it loses all of them. The
  model has that crash; `DiskMatchesMemory` holds through it because what is
  loaded afterwards is the empty list.
- `WaitingIsServed` excepts slots whose target is in `unreached`: at
  `connector.go` 196 and 203 the `return` comes before `*ack = 0`, and the slot
  waits for ever. This is the only way to lose a slot.
- `EnoughCustodians` needs an injective `NodeOf`: `triedAddrs` compares
  multiaddrs, and one node heard under two multiaddrs fills two slots.
- `NoStrayCustodian` excepts nodes in `broken`: a stream that breaks after the
  custodian has accepted leaves a custodian the seeker counts as declined. This
  is the only way to get one.
- `SeekReturns` needs one slot and willing nodes; with a second slot, or after a
  decline, the cycle of `seek_deadlock` is reachable.
- `SubscriptionReleased` needs a further new offer (`NewOfferComes`): `getCandidates`
  looks at `doneC` only with a candidate in hand (`contract_manager.go` 137-144). If
  every address that goes on offering has been tried, the subscription stays open
  after `FindCustodians` has returned, as it does in the model.
- `ResultExact` is about retrievals that listen; a direct one reports the cid it
  was given.
- `NobodyHeldUp` and `DeadlineEndsCall` except behaviours in which one subscriber
  stops the hub for good (`StoppedAt`), and with it every later request and call.
  Three kinds do: a retrieval of a given cid, which is busy fetching it and returns
  without closing its subscription (`contract_manager.go` 189-203); a `getCandidates`
  whose candidate nobody takes (138), as in the finding `seek_deadlock` or while
  `SeekStorage` waits for its custodians; and the stream of an RPC client that does
  not read (`api.go` 91). The properties say that these are the only ones.
  `DeadlineEndsCall` speaks of a node that has an event to pass on: without events
  nobody looks at the deadline (211).
- `QuietCloseIsSafe` bounds a crash: `handleClose` closes a channel on which a
  `Publish` that overlaps it may still send (`event_handler.go` 109). Later calls are
  safe. `CloseReturns` excepts behaviours with that panic.
- `IdentityKept` is about starts that name `mojkljuc.privkey`. A start without
  `-privkey`, or with a file that does not exist, replaces what is in it (`node.go`
  182).
- `KnowsItsContracts` excepts two kinds of accepted contracts. `trimmed` are those the
  trimmer has dropped, which may be live (`offer_manager.go` 134, the finding
  `trim_loses_live_contract`). `unsaved` are those in memory at a write that failed
  unnoticed or that the end of the process cut off between truncating and filling
  the file (161): a crash there loses all contracts of the identity. A later write
  that is completed takes what it holds out of `unsaved`. No other accepted contract
  is missing, and none of another identity appears.
- `SignedUnlessChanged` excepts an offer whose capacity a repeated SetOffer has
  written without the lock between signing and sending (`offer_manager.go` 250).
- `OfferAdvertised` and `ContractsAdvertised` are about nodes that have joined the
  topic. One that has not runs on, and the first tick after a SetOffer ends it
  (`PublishPanics`). `ContractsAdvertised` is about the contracts that
  `KnowsItsContracts` promises, and excepts behaviours in which a contract that
  `json.Marshal` refuses is kept for ever (`<>[]MarshalFails(contracts)`): while it is
  in memory no contract is broadcast (`omni_manager.go` 214-217).
- `MissingExplained` says what a successful `HostContent` is worth: a piece may be
  missing if `cat` was cut off, if its pin failed before the last line, since the
  pipeline has the status of its last command (`ipfs_manager.go` 212), or if
  expired content had it in common (232). These are the only ways.
- `PinsOwned` leaves two kinds of pins that nobody will remove: those whose removal
  failed or whose line `cat` did not deliver, and all pins of a `HostContent` that
  failed later (265-268), since no contract follows whose expiry would unpin them.
- `HostReturns` excepts calls whose ipfs command runs for ever (`InCommand`):
  `executeCommand` (16-28) has no timeout, and `ipfs pin add` of a cid that nobody
  provides waits without limit. It covers the wait for a daemon, the race of calls
  that start one, and the loop around the commands.
- `ServedAsSent` holds for requests of this version and for those with fields added
  that this version does not know; a field it knows is merged into the request.
- `CrashOnlyAfterType` names the one cut at which `UnmarshalFromProtobuf`
  dereferences nil (`messages/entities.go` 96): right behind the type.

`CHECK_DEADLOCK FALSE` appears where the system really can stop: the seeker
(its deadlock is the finding `seek_deadlock`, so the safety runs pass over it),
the subscription (calls end, and a panic ends the process), the event hub
(nothing more may be heard or asked), an exchange (it ends), a node (the user may
not start it again) and pinning (all content may be gone).

### Fairness

- *OfferManager*: weak fairness of every step of a goroutine that holds the lock
  or needs none, strong fairness of taking the lock. A Go mutex in starvation
  mode hands the lock to its longest waiter, so a goroutine that waits gets it.
  The trimmer is woken by a `time.Tick`. No fairness for ipfs, for the arrival of
  requests, for the clock or for crashes.
- *FindCustodians*: weak fairness of running goroutines, strong fairness of the
  lock and of channel operations, whose waiters Go serves in turn. `Hear(a)` is
  strongly fair for the addresses in `Lasting` only: `advertiseOffer` repeats the offer
  of a node as long as it runs, but no node need run for ever. A custodian
  that has the request answers in the end. No fairness for failures.
- *EventHandler*: weak fairness inside `Publish`, `Close` and `handleClose`; nobody
  is obliged to call `Publish`, `Next` or `Close`.
- *NodeEvents*: weak fairness of running goroutines; strong fairness of taking
  `eventPublishersLock` and of sending to the Connector's loop, whose waiters are
  served in turn. No fairness for broadcasts, requests, calls or the passing of the
  minute: a retrieval may listen for ever. None either for what a subscriber waits
  for outside the hub: the fetch of a given cid, `SeekStorage` taking the candidate
  held out, a client reading its event stream or going away.
- *Node*: who holds the lock goes on and releases it (weak fairness of `LockHolder`).
  The tickers tick and the mutex serves its waiters in turn, hence strong fairness of
  `SignOffer` and `PublishContracts`. The topic does not refuse for ever what can be
  marshalled: strong fairness of `PublishOffer` and, again, `PublishContracts`, without
  which no retry helps. No fairness for starts, stops, calls, storage requests, ipfs
  or expiries, nor for `SetOfferLocked`, which no property needs.
- *IpfsPin*: between its commands a call goes on, which is the wait for a daemon it
  has started and the end of the loop (`PinEnd`). No fairness for ipfs commands, for
  calls, for expiry or for the daemon's life.
- *Exchange*: only safety is checked.

### Findings

1. `trim_loses_live_contract`: the trimmer's rebuild loop breaks behind the last
   expired contract (line 134) without copying the rest: live contracts become
   zero contracts.
2. `concurrent_overcommit`: the capacity check (186) and the charge (206) are not
   atomic: the capacity wraps below zero.
3. `seek_deadlock`: `getCandidates`, the event hub, a `Send` and `getSlot` can wait for
   each other in a circle (`contract_manager.go` 138).

Smaller gaps are the exceptions in the properties listed under the premises.

## Proofs

The theorems hold for every value of the constants that satisfies the `ASSUME`s
of the module concerned; there is no bound on requests, slots, addresses or
calls, and the bounds of the model (`MaxTime`, `MaxCrashes`, `MaxInFlight`,
`MaxEvents`, `MaxStarts`, `MaxLooks`, `MaxDeaths`) are arbitrary natural numbers.

`OfferManager_proofs`: `TypeCorrect`, `TrimmerNeverPanics`, and `FileIsCurrent`
(`DiskMatchesMemory`, assuming no disk faults). The invariant is
`IInv == TypeOK /\ LockInv /\ TrimInv`. `LockInv` ties the lock to the program
counters, so that no two critical sections overlap; without it `contracts` could
shrink while the trimmer holds indices into it. `TrimInv` says what the trimmer
knows at each point: contracts only grow from its scan to its commit, its marks
lie below the limit it read, and `newContracts` is as long as the set of indices
it has passed and kept (`KeptIndices`), which bounds it by
`Len(contracts) - Cardinality(toTrim)`. `FileInv` adds that an unreadable file
loads as no contract and that a request about to be charged has been saved.
`ContractedIsPinned` (`PinnedWhileContracted`) assumes different cids and
`TornReads = FALSE`. Its `PinInv` says that every entry in memory, in the file or
about to be appended is *covered*: its content is pinned, or the entry has
expired. Indices marked by the scan belong to expired entries, hence what the
trimmer unpins is covered by no live entry.

`FindCustodians_proofs`: `TypeCorrect`; `CustodiansDistinct`
(`EnoughCustodians`, assuming an injective `NodeOf`); `SlotsServed`
(`WaitingIsServed`) and `CustodiansAccounted` (`NoStrayCustodian`), both without
a premise; `Refinement` (`Spec => C!Spec`, assuming an injective `NodeOf`). The
invariant is `IInv == TypeOK /\ SlotInv /\ TargetInv /\ HostInv`: a slot has one
`Send` at most, and only while its ack is 2, so an ack of 1 is never
overwritten; an address is given to one `Send` only, so targets differ; an
acceptance seen by the seeker comes from a node that hosts.
`CustodiansAccounted` adds `StrayInv`: an address not yet given to a `Send`, or
whose `Send` has not got as far as the acceptance, does not host unless its
stream broke.

`EventHandler_proofs`: `TypeCorrect`, `PublishIsExact` (`OkMeansDelivered`),
`CloseUnblocks` (`NoneBlockedAfterClose`), `PanicNeedsOverlap` (`QuietCloseIsSafe`: once
`Quiet` holds it holds for good).

`NodeEvents_proofs`: `TypeCorrect`, `EventsInOrder` (`SameOrder`) and
`RetrievalIsExact` (`ResultExact`), for any number of subscribers. `SameOrder`
is not inductive: between `HubLock` and `Release` the subscribers the loop has
passed are one event ahead of the others. The invariant is `IInv == TypeOK /\
HubInv /\ RegisterInv /\ BroadcastInv`: only the holder of the lock is in the
loop, and it hands out the last event of the log (`HubInv`); `publishers` lists
every subscriber once (`RegisterInv`); a subscriber that reads has received
everything but the last event exactly if the loop has yet to come to its index
(`BroadcastInv`). `ResultExact` needs `TriedInv`: the addresses a retrieval has
tried are those of the broadcasts it has received, so that an event is new to it
exactly if it is the first of its address.

`Node_proofs`: `TypeCorrect`, `IdentitySurvives` (`IdentityKept`), `SetOfferOnce`
(`SecondSetOfferRefused`), `ContractsFollowIdentity` (`KnowsItsContracts`), `OffersSigned`
(`SignedUnlessChanged`), for any number of starts. `IdInv` follows `mojkljuc.privkey`
through a start: it holds the key of the run that uses it, or of the last one that
did, or nothing readable; while it is being created a run that named it knows that
there was none before. `OfferInv` ties a set offer to a node that is up. `WorkInv`
says that whoever writes, charges, or has signed and not yet sent holds the lock,
and that a contract about to be charged is in the file or known not to be.
`SavedInv` says that each file holds contracts of its own identity, all accepted
under it but the trimmed and the unsaved, and none that is counted as unsaved. With
`KnowsItsContracts` it is `ContractInv`, which is inductive under the rest
(`NodeAlways`): memory tells what the next write puts into the file, and the file
what the next run loads, in whichever way this one ends. `SignedInv` says that between signing and sending only an unlocked SetOffer
can have come in.

`IpfsPin_proofs`: `TypeCorrect`, `HostedMeansPinned` (`MissingExplained`), `NoUnownedPins`
(`PinsOwned`), for any number of contents and pieces. `ProgressInv` says what the
pinning loop has done so far, and that its status tells whether the last line was
missed, which is why a missed line of hosted content has another one behind it.
`HoldInv` gives every pin a call that made it and still answers for it: one that
unpins answers for the lines it has not yet come to and for what it failed to
remove, one that failed for all it had pinned.

`MsgCodec_proofs`, for every message and every sequence of bytes: `SizeIsExact` (`Size`
is the length of what `Marshal` writes), `DecodeInParts` (decoding `b \o c` is decoding
`c` into what `b` yields), `RoundTrip` (`Unmarshal` of what `Marshal` writes is the
message) and `DecodedRoundTrip` (so it is for whatever `Unmarshal` accepts). The
operators are recursive functions. `RecursionTheorem` shows that a function defined
along a rank exists and has values in a given set, and each function is an instance:
the rank is the number of bytes left for the decoders, and how deep messages are
nested for `SizeOf` and `MarshalOf`. Induction is over sets: `Induction` and
`StrongInduction` say that a set closed under steps contains `Nat`, and the set is the
set of the numbers for which the claim holds, so that no lemma takes an operator.
The argument for the decoder is that every parser is *local*: its result depends on
the bytes it consumes only (`VarintLocal`, `SkipLocal`, `FieldLocal`), hence what
follows a field does not change it. `RoundTrip` has two premises. The message fits a
slice (below `W64 \div 2` bytes), as lengths are read as ints; and it is `Clean`: what
it and the messages inside keep as unrecognized are unknown fields. A program could
put other bytes there by hand; `CleanDecoded` shows that the decoder does not.
`WeightDecoded` bounds what is written by what was read: a varint is never longer than
the one it came from, except that of a negative enum, which may be read from five
bytes and takes ten. Hence `DecodedRoundTrip` asks for a quarter of `W64` only.

`Exchange_proofs`: `Typed` (`TypeOK`), `ServesWhatWasSent` (`ServedAsSent`),
`AcceptanceIsTrue` (`AckTruthful`), `CrashesOnlyAfterType` (`CrashOnlyAfterType`),
`SizesAreExact` (`SizeExact`), `DecodedStaysStable` (`DecodedIsStable`), for any requests
and answers, any buffer of `receive` and any fields a later version appends. The key
is `PrefixRead`: what this version writes is the type and one part, so that of its
prefixes only the whole, the type alone and nothing can be decoded. The invariant is
`IInv == TypeOK /\ Asked /\ Answered /\ ServedAsSent /\ AckTruthful /\
CrashOnlyAfterType`: `Asked` ties the bytes of the request to the request, `Answered`
those of the answer to the answer and to where `reader` is; without them nothing is
known of the bytes a `Read` returns. `Short` adds that the fields appended so far are
as short as their number allows.

Only model-checked: the liveness properties, which are out of the prover's reach
like everything about fairness and `ENABLED`. Every safety property the passing runs
check is proved.

## Not modelled

- Signatures: the result of `verify` is logged and not used by `reader`, and the
  check of offers is commented out. `Node` has what a signature covers, not how.
- libp2p, the relay and the connections to bootstrap nodes; their effect on the
  protocol, a changed multiaddr, is the constant `NodeOf`.
- How long anything outside takes: an ipfs command, a client's read and a fetch may
  end at any time or never.
- The age of offers: `omniSubscriptionHandler` logs an offer older than three
  minutes as ignored and publishes it all the same (`omni_manager.go` 161).
- `Ipfser`, `Dei` and `Subdei`, which run scripts of their own on the owner's side.
- `gen/api`, the copying of events and entities, RPC forwarding: no state and no
  order to get wrong.
- `RetrieveData` of the ContractManager and the retrieval branch of the seeker's
  `Send` have no live caller; `Exchange` has the retrieval messages.

## Plan

1. `OfferManager`, `FindCustodians` with `Custody`, `EventHandler`, `NodeEvents`: done,
   every invariant proved.
2. `Node` (start-up, identity, SetOffer, advertising), `IpfsPin` (pinning piece by
   piece), `Exchange` with `MsgCodec` (messages): done, every invariant proved.
3. Left: `Omnidisk`, one seeker and two custodians composed, with the end-to-end
   property that data for which `FindCustodians` returned can be retrieved; the
   single steps of `OfferManager` for pinning shown to be implemented by `IpfsPin`;
   repetitions in the `cids` of a retrieval; the refunds of the trimmer after a change
   of offer, once there is something to say what the capacity should then be.
