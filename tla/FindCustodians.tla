--------------------------- MODULE FindCustodians ---------------------------
(***************************************************************************)
(* The seeking side of omnidisk: one FindCustodians RPC, from the moment   *)
(* its contract is prepared.  It is carried out by five kinds of           *)
(* goroutines that meet on unbuffered channels:                            *)
(*   - SeekStorage, which fills the slots of acks,                         *)
(*   - getCandidates, which turns offers heard into addresses to try,      *)
(*   - one Connector.Send per address tried,                               *)
(*   - two joinEvents loops, which pass the events of the OmniManager      *)
(*     ("omni", the offers) and of the Connector ("conn", the replies) on  *)
(*     to every subscriber, holding eventPublishersLock meanwhile.         *)
(* getCandidates is one of those subscribers, so replies reach the ack of  *)
(* their slot only as fast as getCandidates takes events.                  *)
(***************************************************************************)
EXTENDS Integers, FiniteSets, Functions

CONSTANTS
    Slots,          \* indices of acks: one per custodian wanted (Cardinality)
    Addrs,          \* multiaddrs found in offers
    Lasting,        \* those whose nodes repeat their offer for ever
    NodeOf,         \* NodeOf[a]: the node reached at a
    None,           \* no slot, no address
    Noise,          \* an event getCandidates skips: replies, contract broadcasts
    Free,           \* nobody holds eventPublishersLock
    ConnectFails,   \* TRUE: the address or the connection may turn out bad
    StreamFails,    \* TRUE: a stream may break before the reply has arrived
    Declines        \* TRUE: custodians may decline

ASSUME SentinelAssumption ==
    /\ None \notin Slots \cup Addrs
    /\ Noise \notin Addrs
    /\ \A a \in Addrs : NodeOf[a] # None
    /\ Free \notin {"omni", "conn"}

ASSUME LastingAssumption == Lasting \subseteq Addrs

ASSUME SwitchAssumption ==
    {ConnectFails, StreamFails, Declines} \subseteq BOOLEAN

VARIABLES
    seek,       \* where SeekStorage is
    slot,       \* the slot it looks for a custodian for
    acks,       \* 0 declined or untried, 1 accepted, 2 waiting
    cand,       \* where getCandidates is
    candAddr,   \* the address it holds out on channel c
    tried,      \* triedAddrs
    send,       \* send[i]: where the Send for slot i is
    target,     \* target[i]: the address it was given
    reply,      \* reply[i]: Done of the response it received
    join,       \* join[j]: where joinEvents loop j is
    evt,        \* evt[j]: the event it passes on
    hub,        \* holder of eventPublishersLock
    hosting,    \* external: addresses whose node has accepted the contract
    unreached,  \* history: addresses no connection was made to
    broken      \* history: addresses whose stream broke after the request

Joiners == {"omni", "conn"}
Events == Addrs \cup {Noise}

seekVars == <<seek, slot, acks>>
candVars == <<cand, candAddr, tried>>
sendVars == <<send, target, reply>>
joinVars == <<join, evt, hub>>
custVars == <<hosting, unreached, broken>>
vars == <<seekVars, candVars, sendVars, joinVars, custVars>>

Init ==
    /\ seek = "getSlot"
    /\ slot = None
    /\ acks = [i \in Slots |-> 0]
    /\ cand = "next"
    /\ candAddr = None
    /\ tried = {}
    /\ send = [i \in Slots |-> "idle"]
    /\ target = [i \in Slots |-> None]
    /\ reply = [i \in Slots |-> FALSE]
    /\ join = [j \in Joiners |-> "next"]
    /\ evt = [j \in Joiners |-> Noise]
    /\ hub = Free
    /\ hosting = {}
    /\ unreached = {}
    /\ broken = {}

-----------------------------------------------------------------------------
(* SeekStorage.  Its scan of acks races with the Sends, so it may find any
   free slot, not only the first. *)

GetSlot(i) ==
    /\ seek = "getSlot"
    /\ acks[i] = 0
    /\ acks' = [acks EXCEPT ![i] = 2]
    /\ slot' = i
    /\ seek' = "recv"
    /\ UNCHANGED <<candVars, sendVars, joinVars, custVars>>

\* Mutant of AllAccepted: waiting slots count as accepted.
NoneFree == \A i \in Slots : acks[i] # 0

(* allDone of getSlot. *)
AllAccepted == \A i \in Slots : acks[i] = 1

(* close(doneC) and return the link. *)
SeekDone ==
    /\ seek = "getSlot"
    /\ AllAccepted
    /\ seek' = "done"
    /\ UNCHANGED <<slot, acks, candVars, sendVars, joinVars, custVars>>

\* Mutant of MarkTried: addresses are not remembered.
MarkNothing(a) == tried

MarkTried(a) == tried \cup {a}

(* SeekStorage and getCandidates meet on channel c; the Send starts. *)
TakeCandidate ==
    /\ seek = "recv"
    /\ cand = "select"
    /\ seek' = "getSlot"
    /\ slot' = None
    /\ cand' = "next"
    /\ candAddr' = None
    /\ tried' = MarkTried(candAddr)
    /\ send' = [send EXCEPT ![slot] = "connect"]
    /\ target' = [target EXCEPT ![slot] = candAddr]
    /\ UNCHANGED <<acks, reply, joinVars, custVars>>

\* Mutant of CandidatesQuit: the subscription is not closed.
CandidatesStay ==
    /\ cand = "select"
    /\ seek = "done"
    /\ cand' = "next"
    /\ candAddr' = None
    /\ UNCHANGED <<seekVars, tried, sendVars, joinVars, custVars>>

(* getCandidates finds doneC closed: it closes its subscription and ends. *)
CandidatesQuit ==
    /\ cand = "select"
    /\ seek = "done"
    /\ cand' = "closed"
    /\ candAddr' = None
    /\ UNCHANGED <<seekVars, tried, sendVars, joinVars, custVars>>

-----------------------------------------------------------------------------
(* Connector.Send. *)

GotoSend(i, s) == send' = [send EXCEPT ![i] = s]
SetAck(i, v) == acks' = [acks EXCEPT ![i] = v]

(* host.Connect fails, or the multiaddr names no peer: return comes before
   the assignment to *ack, and the slot keeps the value 2. *)
ConnectFail(i) ==
    /\ ConnectFails
    /\ send[i] = "connect"
    /\ GotoSend(i, "idle")
    /\ unreached' = unreached \cup {target[i]}
    /\ UNCHANGED <<seekVars, candVars, target, reply, joinVars, hosting, broken>>

(* Connected, stream opened and request written. *)
Request(i) ==
    /\ send[i] = "connect"
    /\ GotoSend(i, "await")
    /\ UNCHANGED <<seekVars, candVars, target, reply, joinVars, custVars>>

(* The stream cannot be opened, written or read: *ack = 0.  The custodian may
   have accepted before the stream broke. *)
StreamFail(i) ==
    /\ StreamFails
    /\ send[i] \in {"connect", "await"}
    /\ GotoSend(i, "idle")
    /\ SetAck(i, 0)
    /\ \/ UNCHANGED hosting
       \/ send[i] = "await" /\ hosting' = hosting \cup {target[i]}
    /\ broken' = IF send[i] = "await" THEN broken \cup {target[i]} ELSE broken
    /\ UNCHANGED <<seek, slot, candVars, target, reply, joinVars, unreached>>

(* The custodian answers. *)
Accept(i) ==
    /\ send[i] = "await"
    /\ GotoSend(i, "publish")
    /\ reply' = [reply EXCEPT ![i] = TRUE]
    /\ hosting' = hosting \cup {target[i]}
    /\ UNCHANGED <<seekVars, candVars, target, joinVars, unreached, broken>>

Decline(i) ==
    /\ Declines
    /\ send[i] = "await"
    /\ GotoSend(i, "publish")
    /\ reply' = [reply EXCEPT ![i] = FALSE]
    /\ UNCHANGED <<seekVars, candVars, target, joinVars, custVars>>

(* publishEvent: the Connector's joinEvents loop takes the reply. *)
PublishReply(i) ==
    /\ send[i] = "publish"
    /\ join["conn"] = "next"
    /\ GotoSend(i, "ack")
    /\ join' = [join EXCEPT !["conn"] = "lock"]
    /\ evt' = [evt EXCEPT !["conn"] = Noise]
    /\ UNCHANGED <<seekVars, candVars, target, reply, hub, custVars>>

\* Mutant of AckOf: a declined slot goes on waiting.
AckWaiting(i) == IF reply[i] THEN 1 ELSE 2

\* Mutant of AckOf: the answers are exchanged.
AckInverted(i) == IF reply[i] THEN 0 ELSE 1

AckOf(i) == IF reply[i] THEN 1 ELSE 0

(* Only now is *ack assigned. *)
Ack(i) ==
    /\ send[i] = "ack"
    /\ GotoSend(i, "idle")
    /\ SetAck(i, AckOf(i))
    /\ UNCHANGED <<seek, slot, candVars, target, reply, joinVars, custVars>>

-----------------------------------------------------------------------------
(* The event hub: joinEvents and node.publishEvent. *)

(* omniSubscriptionHandler publishes what it heard: an offer, at any time and
   as often as it is broadcast, or something else. *)
Hear(e) ==
    /\ join["omni"] = "next"
    /\ join' = [join EXCEPT !["omni"] = "lock"]
    /\ evt' = [evt EXCEPT !["omni"] = e]
    /\ UNCHANGED <<seekVars, candVars, sendVars, hub, custVars>>

HubLock(j) ==
    /\ join[j] = "lock"
    /\ hub = Free
    /\ hub' = j
    /\ join' = [join EXCEPT ![j] = "publish"]
    /\ UNCHANGED <<seekVars, candVars, sendVars, evt, custVars>>

Release(j) ==
    /\ join[j] = "publish"
    /\ hub' = Free
    /\ join' = [join EXCEPT ![j] = "next"]
    /\ UNCHANGED <<seekVars, tried, sendVars, evt, custVars>>

\* Mutant of NewCandidate: any event with an untried address is a candidate.
Untried(e) == e \notin tried

NewCandidate(e) == e \in Addrs \ tried

(* Publish and the Next of getCandidates meet: an untried address is held out
   on c, anything else is skipped. *)
Deliver(j) ==
    /\ Release(j)
    /\ cand = "next"
    /\ \/ /\ NewCandidate(evt[j])
          /\ cand' = "select"
          /\ candAddr' = evt[j]
       \/ ~NewCandidate(evt[j]) /\ UNCHANGED <<cand, candAddr>>

(* The subscription is closed: publishEvent skips it. *)
Skip(j) ==
    /\ Release(j)
    /\ cand = "closed"
    /\ UNCHANGED <<cand, candAddr>>

-----------------------------------------------------------------------------
SeekStorage == (\E i \in Slots : GetSlot(i)) \/ SeekDone \/ TakeCandidate

Send(i) ==
    \/ Request(i) \/ ConnectFail(i) \/ StreamFail(i)
    \/ Accept(i) \/ Decline(i)
    \/ PublishReply(i) \/ Ack(i)

JoinEvents(j) == HubLock(j) \/ Deliver(j) \/ Skip(j)

Next ==
    \/ SeekStorage
    \/ CandidatesQuit
    \/ \E i \in Slots : Send(i)
    \/ \E e \in Events : Hear(e)
    \/ \E j \in Joiners : JoinEvents(j)

Spec == Init /\ [][Next]_vars

(* Goroutines that can run do run, and a Go mutex and a Go channel serve their
   waiters in turn.  The nodes of Lasting repeat their offer for ever; any other
   may be heard a few times or never.  A custodian that has the request answers
   in the end. *)
Fairness ==
    /\ WF_vars(SeekStorage)
    /\ WF_vars(CandidatesQuit)
    /\ \A i \in Slots :
          /\ WF_vars(Request(i))
          /\ WF_vars(Accept(i) \/ Decline(i))
          /\ SF_vars(PublishReply(i))
          /\ WF_vars(Ack(i))
    /\ \A a \in Lasting : SF_vars(Hear(a))
    /\ \A j \in Joiners : SF_vars(HubLock(j)) /\ WF_vars(Deliver(j) \/ Skip(j))

FairSpec == Spec /\ Fairness

-----------------------------------------------------------------------------
(* Properties. *)

SendStates == {"idle", "connect", "await", "publish", "ack"}

(* Type invariant. *)
TypeOK ==
    /\ seek \in {"getSlot", "recv", "done"}
    /\ slot \in Slots \cup {None}
    /\ acks \in [Slots -> 0 .. 2]
    /\ cand \in {"next", "select", "closed"}
    /\ candAddr \in Addrs \cup {None}
    /\ tried \subseteq Addrs
    /\ send \in [Slots -> SendStates]
    /\ target \in [Slots -> Addrs \cup {None}]
    /\ reply \in [Slots -> BOOLEAN]
    /\ join \in [Joiners -> {"next", "lock", "publish"}]
    /\ evt \in [Joiners -> Events]
    /\ hub \in Joiners \cup {Free}
    /\ hosting \subseteq Addrs
    /\ unreached \subseteq Addrs
    /\ broken \subseteq Addrs

(* When SeekStorage returns, every slot has a custodian of its own, and each
   of them has accepted the contract. *)
EnoughCustodians ==
    seek = "done" =>
        /\ \A i \in Slots : target[i] \in hosting
        /\ \A i, k \in Slots : NodeOf[target[i]] = NodeOf[target[k]] => i = k

(* "2 means waiting": a slot with ack 2 is one SeekStorage is seeking a
   candidate for, or one whose Send will still set it.  The one exception is a
   connection that failed, where Send returns without setting the ack. *)
WaitingIsServed ==
    \A i \in Slots :
        acks[i] = 2 => \/ send[i] # "idle"
                       \/ seek = "recv" /\ slot = i
                       \/ target[i] \in unreached

(* A node that took the contract is accounted for: unless its stream broke, it
   is the target of a slot that is accepted or still waiting for its reply, so
   nobody hosts the data without the seeker knowing. *)
NoStrayCustodian ==
    \A a \in hosting \ broken : \E i \in Slots : target[i] = a /\ acks[i] # 0

(* The goroutines together keep the promise of Custody: a slot is served by
   the node whose acceptance set its ack. *)
servedBy == [i \in Slots |-> IF acks[i] = 1 THEN NodeOf[target[i]] ELSE None]

C == INSTANCE Custody WITH
        Nodes <- {NodeOf[a] : a \in Addrs},
        hosts <- {NodeOf[a] : a \in hosting},
        custodian <- servedBy,
        returned <- (seek = "done")

KeepsPromise == C!Spec

(* FindCustodians returns. *)
SeekReturns == <>(seek = "done")

(* getCandidates holds an offer it has not tried, or will be passed one. *)
NewOfferComes ==
    \/ cand = "select"
    \/ \E j \in Joiners : join[j] # "next" /\ NewCandidate(evt[j])

(* A FindCustodians that has returned no longer holds up the events of the
   node: the next new offer heard makes getCandidates close its subscription.
   doneC is looked at only with a new offer in hand
   (contract_manager.go:105-140), so where no other offer comes the subscription
   stays open for good, and nothing is claimed. *)
SubscriptionReleased == (seek = "done" /\ NewOfferComes) ~> cand = "closed"

-----------------------------------------------------------------------------
(* The inductive strengthening behind EnoughCustodians and KeepsPromise. *)

(* A slot has at most one Send, and only while its ack is 2. *)
SlotInv ==
    /\ \A i \in Slots : send[i] # "idle" => acks[i] = 2
    /\ seek = "recv" => slot \in Slots /\ acks[slot] = 2 /\ send[slot] = "idle"
    /\ seek = "done" => \A i \in Slots : acks[i] = 1

(* An address is given to one Send only. *)
TargetInv ==
    /\ cand = "select" => candAddr \in Addrs \ tried
    /\ \A i \in Slots : target[i] # None => target[i] \in tried
    /\ \A i, k \in Slots : target[i] # None /\ target[i] = target[k] => i = k
    /\ \A i \in Slots : send[i] # "idle" \/ acks[i] = 1 => target[i] # None

(* An acceptance received or recorded comes from a node that hosts. *)
HostInv ==
    \A i \in Slots :
        acks[i] = 1 \/ (send[i] \in {"publish", "ack"} /\ reply[i]) => target[i] \in hosting

(* The strengthening behind NoStrayCustodian: a slot that is free, looking for
   its next candidate, or served by a node that has not accepted, points to no
   node that hosts. *)
Unengaged(i) ==
    \/ acks[i] = 0
    \/ seek = "recv" /\ slot = i
    \/ send[i] \in {"connect", "await"}
    \/ send[i] \in {"publish", "ack"} /\ ~reply[i]

StrayInv ==
    /\ hosting \subseteq tried
    /\ \A i \in Slots : Unengaged(i) => target[i] \notin hosting \ broken
    /\ NoStrayCustodian

IInv == TypeOK /\ SlotInv /\ TargetInv /\ HostInv
=============================================================================
