----------------------------- MODULE NodeEvents -----------------------------
(***************************************************************************)
(* The events of one omnidisk node and the calls that live on them.        *)
(*                                                                         *)
(* Events come from two sources: broadcasts that the OmniManager hears     *)
(* ("omni"), of contracts or of offers, and storage requests that a        *)
(* Connector.reader has received ("conn").  One joinEvents goroutine per   *)
(* source hands each event to every subscriber in turn, holding            *)
(* eventPublishersLock, which a new subscriber needs as well.  Subscribers *)
(* are RetrieveData calls, which collect the contracts other nodes hold    *)
(* for this node, FindCustodians calls, which look for offers, and the     *)
(* event streams of the RPC server.  A reader serves its storage request   *)
(* only after its event was taken.  What SeekStorage does with the offers, *)
(* and when it waits for something else, is the subject of module          *)
(* FindCustodians.                                                         *)
(*                                                                         *)
(* Every subscription is an unbuffered channel, so an event changes hands  *)
(* in one joint step.  Close is one step as well; what happens inside it   *)
(* is the subject of module EventHandler.                                  *)
(***************************************************************************)
EXTENDS Integers, Sequences, FiniteSets, Functions

CONSTANTS
    Retrievals,     \* calls of RetrieveData
    Seekers,        \* calls of FindCustodians, each with its getCandidates
    Streams,        \* calls of SubscribeToEvents
    Readers,        \* incoming storage requests, numbered as they come
    Pubs, Offers,   \* contract and offer broadcasts, numbered as they come
    Addrs, Cids,
    Addr,           \* Addr[b]: the multiaddr in broadcast b
    Own,            \* Own[p]: cids of the contracts in p that this node owns
    Wanted,         \* Wanted[t]: the cid retrieval t asks for, or Any
    Any,
    None,           \* no event
    Free,           \* nobody holds eventPublishersLock
    MaxEvents       \* bound: broadcasts heard and requests read, together

Subscribers == Retrievals \cup Seekers \cup Streams
Broadcasts == Pubs \cup Offers
Events == Broadcasts \cup Readers   \* a request or broadcast is also its event
Joiners == {"omni", "conn"}

ASSUME CallAssumption ==
    /\ Retrievals \cap Streams = {}
    /\ Seekers \cap (Retrievals \cup Streams) = {}
    /\ Readers \subseteq Nat /\ Broadcasts \subseteq Nat
    /\ Pubs \cap Offers = {}
    /\ Broadcasts \cap Readers = {}
    /\ Free \notin Joiners
    /\ None \notin Events
    /\ MaxEvents \in Nat

ASSUME DataAssumption ==
    /\ Addr \in [Broadcasts -> Addrs]
    /\ Own \in [Pubs -> SUBSET Cids]
    /\ Wanted \in [Retrievals -> Cids \cup {Any}]
    /\ Any \notin Cids

VARIABLES
    publishers,     \* n.eventPublishers, by subscriber
    hub,            \* holder of n.eventPublishersLock
    join,           \* join[j]: where joinEvents goroutine j is
    evt,            \* evt[j]: the event it passes on
    pos,            \* pos[j]: its index in the loop over publishers
    direct,         \* arguments: retrievals of one given cid of known datatype
    call,           \* call[s]: where subscriber s is
    late,           \* late[t]: 60 seconds have passed since t began to listen
    tried,          \* triedAddrs of a retrieval or of getCandidates
    cids,           \* cids of t, without order and repetition
    reader,         \* reader[r]: where the reader of request r is
    log,            \* history: events in the order they were passed on
    since,          \* history: length of log when s subscribed
    seen            \* history: events s has received

hubVars == <<publishers, hub>>
joinVars == <<join, evt, pos>>
resultVars == <<direct, tried, cids>>
histVars == <<log, since, seen>>
vars == <<hubVars, joinVars, call, late, resultVars, reader, histVars>>

CallStates ==
    {"new", "open", "next", "holding", "sending", "closed", "left"}
ReaderStates == {"new", "publish", "process"}

Init ==
    /\ publishers = <<>>
    /\ hub = Free
    /\ join = [j \in Joiners |-> "next"]
    /\ evt = [j \in Joiners |-> None]
    /\ pos = [j \in Joiners |-> 1]
    /\ direct \in SUBSET {t \in Retrievals : Wanted[t] # Any}
    /\ call = [s \in Subscribers |-> "new"]
    /\ late = [t \in Retrievals |-> FALSE]
    /\ tried = [s \in Retrievals \cup Seekers |-> {}]
    /\ cids = [t \in Retrievals |-> {}]
    /\ reader = [r \in Readers |-> "new"]
    /\ log = <<>>
    /\ since = [s \in Subscribers |-> 0]
    /\ seen = [s \in Subscribers |-> <<>>]

-----------------------------------------------------------------------------
(* Sources. *)

Heard == {b \in Broadcasts : b \in Range(log) \cup {evt["omni"]}}
Read == {r \in Readers : reader[r] # "new"}

MoreMayCome == Cardinality(Heard) + Cardinality(Read) < MaxEvents

Take(j, e) ==
    /\ join[j] = "next"
    /\ join' = [join EXCEPT ![j] = "lock"]
    /\ evt' = [evt EXCEPT ![j] = e]

(* omniSubscriptionHandler publishes a broadcast.  The pubsub layer hands out
   a message once; a repeated broadcast is another message. *)
Hear(b) ==
    /\ MoreMayCome
    /\ b \notin Heard
    /\ \A q \in Broadcasts : q < b => q \in Heard
    /\ Take("omni", b)
    /\ UNCHANGED <<hubVars, pos, call, late, resultVars, reader, histVars>>

(* Connector.reader: the request is read, then its event is published, and only
   when that is taken is the request processed and answered, which the hub has
   no part in. *)
ReadRequest(r) ==
    /\ MoreMayCome
    /\ reader[r] = "new"
    /\ \A q \in Readers : q < r => q \in Read
    /\ reader' = [reader EXCEPT ![r] = "publish"]
    /\ UNCHANGED <<hubVars, joinVars, call, late, resultVars, histVars>>

PublishRequest(r) ==
    /\ reader[r] = "publish"
    /\ Take("conn", r)
    /\ reader' = [reader EXCEPT ![r] = "process"]
    /\ UNCHANGED <<hubVars, pos, call, late, resultVars, histVars>>

-----------------------------------------------------------------------------
(* RetrieveData, FindCustodians and SubscribeToEvents. *)

Enter(s, state) == call' = [call EXCEPT ![s] = state]

(* A call begins with subscribeToEvents, which waits for the lock. *)
Subscribe(s) ==
    /\ call[s] = "new"
    /\ hub = Free
    /\ publishers' = Append(publishers, s)
    /\ Enter(s, IF s \in Retrievals THEN "open" ELSE "next")
    /\ since' = [since EXCEPT ![s] = Len(log)]
    /\ UNCHANGED <<hub, joinVars, late, resultVars, reader, log, seen>>

(* RetrieveDataV2 for a given cid of known datatype: it fetches the content
   and returns; its subscription is neither read nor closed. *)
ReturnDirect(t) ==
    /\ t \in direct
    /\ call[t] = "open"
    /\ Enter(t, "left")
    /\ cids' = [cids EXCEPT ![t] = {Wanted[t]}]
    /\ UNCHANGED <<hubVars, joinVars, late, direct, tried, reader, histVars>>

\* Mutant of Listen: the deadline is not looked at.
ListenAnyway(t) ==
    /\ t \notin direct
    /\ call[t] = "open"
    /\ Enter(t, "next")
    /\ UNCHANGED <<hubVars, joinVars, late, resultVars, reader, histVars>>

(* The loop of RetrieveDataV2: before each Next it looks at the clock. *)
Listen(t) ==
    /\ t \notin direct
    /\ call[t] = "open"
    /\ ~late[t]
    /\ Enter(t, "next")
    /\ UNCHANGED <<hubVars, joinVars, late, resultVars, reader, histVars>>

Stop(t) ==
    /\ t \notin direct
    /\ call[t] = "open"
    /\ late[t]
    /\ Enter(t, "closed")
    /\ UNCHANGED <<hubVars, joinVars, late, resultVars, reader, histVars>>

MinutePasses(t) ==
    /\ t \notin direct
    /\ call[t] \in {"open", "next"}
    /\ ~late[t]
    /\ late' = [late EXCEPT ![t] = TRUE]
    /\ UNCHANGED <<hubVars, joinVars, call, resultVars, reader, histVars>>

(* getCandidates holds out an address on channel c until SeekStorage takes it
   or doneC is closed. *)
CandidateTaken(s) ==
    /\ call[s] = "holding"
    /\ Enter(s, "next")
    /\ UNCHANGED <<hubVars, joinVars, late, resultVars, reader, histVars>>

SeekOver(s) ==
    /\ call[s] = "holding"
    /\ Enter(s, "closed")
    /\ UNCHANGED <<hubVars, joinVars, late, resultVars, reader, histVars>>

(* stream.Send ends: it is sent, or the client is gone and the deferred Close
   runs. *)
Sent(s) ==
    /\ call[s] = "sending"
    /\ Enter(s, "next")
    /\ UNCHANGED <<hubVars, joinVars, late, resultVars, reader, histVars>>

\* Mutant of SendFails: the handler returns without closing its subscription.
SendFailsUnclosed(s) ==
    /\ call[s] = "sending"
    /\ Enter(s, "open")
    /\ UNCHANGED <<hubVars, joinVars, late, resultVars, reader, histVars>>

SendFails(s) ==
    /\ call[s] = "sending"
    /\ Enter(s, "closed")
    /\ UNCHANGED <<hubVars, joinVars, late, resultVars, reader, histVars>>

\* Mutant of News: broadcasts of known addresses count again.
AnyPub(t, e) == e \in Pubs

(* What a retrieval does with an event: the first broadcast from an address is
   searched for contracts of this node, everything else is skipped. *)
News(t, e) == e \in Pubs /\ Addr[e] \notin tried[t]

Matches(t, p) == {c \in Own[p] : Wanted[t] \in {Any, c}}

(* What getCandidates does with an event: an offer from an address not yet
   tried is held out, everything else is skipped. *)
Candidate(s, e) == s \in Seekers /\ e \in Offers /\ Addr[e] \notin tried[s]

\* Mutant of MarkAddr: the broadcast is remembered, not its address.
MarkPub(t, p) == tried[t] \cup {p}

MarkAddr(t, p) == tried[t] \cup {Addr[p]}

(* getCandidates remembers the address when it is taken; from here to there it
   does not look at what it remembers. *)
Note(s, e) ==
    \/ /\ s \in Retrievals
       /\ News(s, e)
       /\ tried' = [tried EXCEPT ![s] = MarkAddr(s, e)]
       /\ cids' = [cids EXCEPT ![s] = @ \cup Matches(s, e)]
       /\ UNCHANGED direct
    \/ /\ Candidate(s, e)
       /\ tried' = [tried EXCEPT ![s] = MarkAddr(s, e)]
       /\ UNCHANGED <<direct, cids>>
    \/ /\ s \in Retrievals => ~News(s, e)
       /\ ~Candidate(s, e)
       /\ UNCHANGED resultVars

(* Where an event puts the subscriber that takes it. *)
After(s, e) ==
    IF s \in Retrievals THEN "open"
    ELSE IF s \in Streams THEN "sending"
    ELSE IF Candidate(s, e) THEN "holding"
    ELSE "next"

-----------------------------------------------------------------------------
(* joinEvents and publishEvent. *)

\* Mutant of HubLock: the lock is not taken.
HubNoLock(j) ==
    /\ join[j] = "lock"
    /\ hub' = j
    /\ join' = [join EXCEPT ![j] = "publish"]
    /\ log' = Append(log, evt[j])
    /\ UNCHANGED <<publishers, evt, pos, call, late, resultVars, reader, since, seen>>

HubLock(j) ==
    /\ join[j] = "lock"
    /\ hub = Free
    /\ hub' = j
    /\ join' = [join EXCEPT ![j] = "publish"]
    /\ log' = Append(log, evt[j])
    /\ UNCHANGED <<publishers, evt, pos, call, late, resultVars, reader, since, seen>>

(* Goroutine j has come to subscriber s. *)
At(j, s) ==
    /\ join[j] = "publish"
    /\ pos[j] <= Len(publishers)
    /\ publishers[pos[j]] = s

(* The subscriber is in Next and takes the event. *)
Deliver(j, s) ==
    /\ At(j, s)
    /\ call[s] = "next"
    /\ pos' = [pos EXCEPT ![j] = @ + 1]
    /\ seen' = [seen EXCEPT ![s] = Append(@, evt[j])]
    /\ Enter(s, After(s, evt[j]))
    /\ Note(s, evt[j])
    /\ UNCHANGED <<hubVars, join, evt, late, reader, log, since>>

(* The subscription is closed, or is closed while Publish waits. *)
Skip(j, s) ==
    /\ At(j, s)
    /\ call[s] = "closed"
    /\ pos' = [pos EXCEPT ![j] = @ + 1]
    /\ UNCHANGED <<hubVars, join, evt, call, late, resultVars, reader, histVars>>

Release(j) ==
    /\ join[j] = "publish"
    /\ pos[j] > Len(publishers)
    /\ hub' = Free
    /\ join' = [join EXCEPT ![j] = "next"]
    /\ evt' = [evt EXCEPT ![j] = None]
    /\ pos' = [pos EXCEPT ![j] = 1]
    /\ UNCHANGED <<publishers, call, late, resultVars, reader, histVars>>

-----------------------------------------------------------------------------
Reader(r) == ReadRequest(r) \/ PublishRequest(r)

RetrieveDataV2(t) == ReturnDirect(t) \/ Listen(t) \/ Stop(t) \/ MinutePasses(t)

GetCandidates(s) == CandidateTaken(s) \/ SeekOver(s)

SubscribeToEvents(s) == Sent(s) \/ SendFails(s)

JoinEvents(j) ==
    \/ HubLock(j)
    \/ \E s \in Subscribers : Deliver(j, s) \/ Skip(j, s)
    \/ Release(j)

Next ==
    \/ \E b \in Broadcasts : Hear(b)
    \/ \E r \in Readers : Reader(r)
    \/ \E s \in Subscribers : Subscribe(s)
    \/ \E t \in Retrievals : RetrieveDataV2(t)
    \/ \E s \in Seekers : GetCandidates(s)
    \/ \E s \in Streams : SubscribeToEvents(s)
    \/ \E j \in Joiners : JoinEvents(j)

Spec == Init /\ [][Next]_vars

(* Goroutines that can run do run; the mutex and the Connector's channel serve
   their waiters in turn.  Nothing obliges broadcasts, requests or calls to
   come, the minute to pass, ipfs to fetch a content, SeekStorage to take the
   candidate held out, or an RPC client to read its stream or go away. *)
Fairness ==
    /\ \A r \in Readers : SF_vars(PublishRequest(r))
    /\ \A t \in Retrievals : WF_vars(Listen(t) \/ Stop(t))
    /\ \A j \in Joiners :
          /\ SF_vars(HubLock(j))
          /\ WF_vars(Release(j) \/ \E s \in Subscribers : Deliver(j, s) \/ Skip(j, s))

FairSpec == Spec /\ Fairness

-----------------------------------------------------------------------------
(* Properties. *)

(* Type invariant: the hub, the calls and the readers keep their types; tried
   holds addresses and cids holds cids. *)
TypeOK ==
    /\ publishers \in Seq(Subscribers)
    /\ hub \in Joiners \cup {Free}
    /\ join \in [Joiners -> {"next", "lock", "publish"}]
    /\ evt \in [Joiners -> Events \cup {None}]
    /\ pos \in [Joiners -> Nat \ {0}]
    /\ direct \subseteq {t \in Retrievals : Wanted[t] # Any}
    /\ call \in [Subscribers -> CallStates]
    /\ late \in [Retrievals -> BOOLEAN]
    /\ tried \in [Retrievals \cup Seekers -> SUBSET Addrs]
    /\ cids \in [Retrievals -> SUBSET Cids]
    /\ reader \in [Readers -> ReaderStates]
    /\ log \in Seq(Events)
    /\ since \in [Subscribers -> Nat]
    /\ seen \in [Subscribers -> Seq(Events)]

Subscribed(s) == call[s] # "new"
Reading(s) == call[s] \in {"open", "next", "holding", "sending"} /\ s \notin direct

(* All subscribers receive the same events in the same order, from the moment
   they subscribe: none is skipped, repeated or overtaken by one of the other
   source, and when publishEvent has unlocked, everyone who still reads has
   received everything. *)
SameOrder ==
    \A s \in Subscribers : Subscribed(s) =>
        /\ since[s] + Len(seen[s]) <= Len(log)
        /\ \A m \in 1 .. Len(seen[s]) : seen[s][m] = log[since[s] + m]
        /\ Reading(s) /\ hub = Free => since[s] + Len(seen[s]) = Len(log)

(* Indices of the broadcasts in q that are the first of their address. *)
FirstPubs(q) ==
    {m \in 1 .. Len(q) :
        /\ q[m] \in Pubs
        /\ \A k \in 1 .. m - 1 : q[k] \in Pubs => Addr[q[k]] # Addr[q[m]]}

(* A retrieval that listens reports exactly the wanted contracts of this node
   in the first broadcast it received from each address. *)
ResultExact ==
    \A t \in Retrievals \ direct :
        cids[t] = UNION {Matches(t, seen[t][m]) : m \in FirstPubs(seen[t])}

(* A subscription that is not being read: its retrieval fetches a given cid, or
   has returned without Close, its getCandidates waits for SeekStorage, or its
   stream.Send waits for the client. *)
Unread(s) ==
    \/ s \in direct /\ call[s] = "open"
    \/ call[s] \in {"left", "holding", "sending"}

(* A joinEvents loop stands before such a subscription, with the lock. *)
StoppedAt(s) == Unread(s) /\ \E j \in Joiners : At(j, s)

(* Storage requests that have been read all get on, and calls find the lock
   free to subscribe, however many subscribers the hub has and whenever they
   come and go, unless one single subscriber stops the hub for good.  Three
   kinds can: a retrieval of a given cid, which neither reads nor closes its
   subscription (contract_manager.go:189-203), a FindCustodians whose candidate is never taken
   (contract_manager.go:138), and an RPC client that does not read (api.go:91).
   A subscriber that goes on reading, or has closed, holds nobody up. *)
NobodyHeldUp ==
    \/ []<>(hub = Free /\ \A r \in Readers : reader[r] # "publish")
    \/ \E s \in Subscribers : <>[]StoppedAt(s)

(* RetrieveDataV2 looks at its deadline only between two events.  When the
   minute is over, the next event that the node passes on ends the call, unless
   a subscriber of one of those three kinds stops the hub for good. *)
DeadlineEndsCall ==
    \A t \in Retrievals :
        \/ (call[t] = "next" /\ late[t] /\ \E j \in Joiners : join[j] = "lock")
               ~> call[t] = "closed"
        \/ \E s \in Subscribers : <>[]StoppedAt(s)

-----------------------------------------------------------------------------
(* The inductive strengthening behind SameOrder. *)

(* A goroutine is in its loop over publishers exactly while it holds the lock,
   within the list, and with the last event of the log. *)
HubInv ==
    /\ \A j \in Joiners :
          /\ join[j] = "publish" <=> hub = j
          /\ join[j] = "publish" => pos[j] <= Len(publishers) + 1
          /\ join[j] # "publish" => pos[j] = 1
          /\ join[j] # "next" => evt[j] # None
    /\ hub # Free => Len(log) > 0 /\ log[Len(log)] = evt[hub]

(* publishers lists everyone who has subscribed, once. *)
RegisterInv ==
    /\ \A s \in Subscribers :
          Subscribed(s) <=> \E k \in 1 .. Len(publishers) : publishers[k] = s
    /\ \A k, m \in 1 .. Len(publishers) : publishers[k] = publishers[m] => k = m
    /\ \A s \in Subscribers : ~Subscribed(s) => seen[s] = <<>>
    /\ \A s \in Subscribers : call[s] \in {"next", "holding", "sending"} => s \notin direct

(* The loop has not yet come to the subscriber at k. *)
Pending(k) == hub # Free /\ pos[hub] <= k

BroadcastInv ==
    \A k \in 1 .. Len(publishers) : LET s == publishers[k] IN
        /\ since[s] + Len(seen[s]) <= Len(log)
        /\ \A m \in 1 .. Len(seen[s]) : seen[s][m] = log[since[s] + m]
        /\ Reading(s) =>
              since[s] + Len(seen[s]) = IF Pending(k) THEN Len(log) - 1 ELSE Len(log)

IInv == TypeOK /\ HubInv /\ RegisterInv /\ BroadcastInv

(* Behind ResultExact: the addresses a retrieval has tried are those of the
   broadcasts it has received. *)
TriedInv ==
    \A t \in Retrievals :
        tried[t] = {Addr[seen[t][m]] : m \in {k \in 1 .. Len(seen[t]) : seen[t][k] \in Pubs}}
=============================================================================
