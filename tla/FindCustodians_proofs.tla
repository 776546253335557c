----------------------- MODULE FindCustodians_proofs -----------------------
(***************************************************************************)
(* Proofs about FindCustodians, for any number of slots and addresses and  *)
(* whatever fails or is declined.  EnoughCustodians is not inductive: that *)
(* no address is tried twice (TargetInv) and that a slot has one Send at a *)
(* time (SlotInv) are what keeps the custodians of two slots apart, and    *)
(* HostInv carries an acceptance from the reply to the ack.                *)
(***************************************************************************)
EXTENDS FindCustodians, TLAPS

LEMMA TypeStep == TypeOK /\ SlotInv /\ TargetInv /\ [Next]_vars => TypeOK'
<1> SUFFICES ASSUME TypeOK, SlotInv, TargetInv, [Next]_vars PROVE TypeOK'
  OBVIOUS
<1> USE DEF TypeOK, seekVars, candVars, sendVars, joinVars, custVars, SendStates, GotoSend, SetAck
<1>1. CASE SeekStorage
  <2>1. ASSUME NEW i \in Slots, GetSlot(i) PROVE TypeOK'
    BY <2>1 DEF GetSlot
  <2>2. CASE SeekDone
    BY <2>2 DEF SeekDone
  <2>3. CASE TakeCandidate
    BY <2>3 DEF TakeCandidate, MarkTried, TargetInv
  <2> QED BY <1>1, <2>1, <2>2, <2>3 DEF SeekStorage
<1>2. CASE CandidatesQuit
  BY <1>2 DEF CandidatesQuit
<1>3. ASSUME NEW i \in Slots, Send(i) PROVE TypeOK'
  <2>0. send[i] # "idle" => target[i] \in Addrs
    BY DEF TargetInv
  <2>1. CASE Request(i) \/ ConnectFail(i)
    BY <2>0, <2>1 DEF Request, ConnectFail
  <2>2. CASE StreamFail(i)
    BY <2>0, <2>2 DEF StreamFail
  <2>3. CASE Accept(i)
    BY <2>0, <2>3 DEF Accept
  <2>4. CASE Decline(i)
    BY <2>4 DEF Decline
  <2>5. CASE PublishReply(i)
    BY <2>5 DEF PublishReply, Joiners, Events
  <2>6. CASE Ack(i)
    BY <2>6 DEF Ack, AckOf
  <2> QED BY <1>3, <2>1, <2>2, <2>3, <2>4, <2>5, <2>6 DEF Send
<1>4. ASSUME NEW e \in Events, Hear(e) PROVE TypeOK'
  BY <1>4 DEF Hear, Joiners
<1>5. ASSUME NEW j \in Joiners, JoinEvents(j) PROVE TypeOK'
  <2>1. CASE HubLock(j)
    BY <2>1 DEF HubLock
  <2>2. CASE Deliver(j)
    BY <2>2 DEF Deliver, Release, NewCandidate
  <2>3. CASE Skip(j)
    BY <2>3 DEF Skip, Release
  <2> QED BY <1>5, <2>1, <2>2, <2>3 DEF JoinEvents
<1>6. CASE UNCHANGED vars
  BY <1>6 DEF vars
<1> QED BY <1>1, <1>2, <1>3, <1>4, <1>5, <1>6 DEF Next

(* The hub and the arrival of events touch no slot, Send or tried address. *)
LEMMA HubFrame ==
    ASSUME (\E j \in Joiners : JoinEvents(j)) \/ (\E e \in Events : Hear(e))
    PROVE  UNCHANGED <<seekVars, tried, sendVars, custVars>>
BY DEF JoinEvents, HubLock, Deliver, Skip, Release, Hear, candVars

LEMMA SlotStep == TypeOK /\ SlotInv /\ [Next]_vars => SlotInv'
<1> SUFFICES ASSUME TypeOK, SlotInv, [Next]_vars PROVE SlotInv'
  OBVIOUS
<1> USE DEF SlotInv, seekVars, candVars, sendVars, joinVars, custVars, GotoSend, SetAck
<1>0. acks \in [Slots -> 0 .. 2] /\ send \in [Slots -> SendStates]
  BY DEF TypeOK
<1>1. CASE SeekStorage
  <2>1. ASSUME NEW i \in Slots, GetSlot(i) PROVE SlotInv'
    BY <1>0, <2>1 DEF GetSlot
  <2>2. CASE SeekDone
    BY <2>2 DEF SeekDone, AllAccepted
  <2>3. CASE TakeCandidate
    BY <1>0, <2>3 DEF TakeCandidate
  <2> QED BY <1>1, <2>1, <2>2, <2>3 DEF SeekStorage
<1>2. CASE CandidatesQuit
  BY <1>2 DEF CandidatesQuit
<1>3. ASSUME NEW i \in Slots, Send(i) PROVE SlotInv'
  <2>1. CASE Request(i) \/ ConnectFail(i)
    BY <1>0, <2>1 DEF Request, ConnectFail
  <2>2. CASE StreamFail(i)
    BY <1>0, <2>2 DEF StreamFail
  <2>3. CASE Accept(i) \/ Decline(i) \/ PublishReply(i)
    BY <1>0, <2>3 DEF Accept, Decline, PublishReply
  <2>4. CASE Ack(i)
    BY <1>0, <2>4 DEF Ack, AckOf
  <2> QED BY <1>3, <2>1, <2>2, <2>3, <2>4 DEF Send
<1>4. CASE (\E j \in Joiners : JoinEvents(j)) \/ (\E e \in Events : Hear(e))
  BY <1>4, HubFrame
<1>5. CASE UNCHANGED vars
  BY <1>5 DEF vars
<1> QED BY <1>1, <1>2, <1>3, <1>4, <1>5 DEF Next

LEMMA TargetStep == TypeOK /\ SlotInv /\ TargetInv /\ [Next]_vars => TargetInv'
<1> SUFFICES ASSUME TypeOK, SlotInv, TargetInv, [Next]_vars PROVE TargetInv'
  OBVIOUS
<1> USE DEF TargetInv, seekVars, candVars, sendVars, joinVars, custVars, GotoSend, SetAck
<1>0. /\ acks \in [Slots -> 0 .. 2] /\ send \in [Slots -> SendStates]
      /\ target \in [Slots -> Addrs \cup {None}]
  BY DEF TypeOK
<1>1. CASE SeekStorage
  <2>1. ASSUME NEW i \in Slots, GetSlot(i) PROVE TargetInv'
    BY <1>0, <2>1 DEF GetSlot, SlotInv
  <2>2. CASE SeekDone
    BY <2>2 DEF SeekDone
  <2>3. CASE TakeCandidate
    <3>1. slot \in Slots /\ candAddr \in Addrs \ tried /\ candAddr # None
      BY <2>3, SentinelAssumption DEF TakeCandidate, SlotInv
    <3>2. /\ tried' = tried \cup {candAddr}
          /\ cand' = "next" /\ acks' = acks
          /\ send' = [send EXCEPT ![slot] = "connect"]
          /\ target' = [target EXCEPT ![slot] = candAddr]
      BY <2>3 DEF TakeCandidate, MarkTried
    <3> QED BY <1>0, <3>1, <3>2
  <2> QED BY <1>1, <2>1, <2>2, <2>3 DEF SeekStorage
<1>2. CASE CandidatesQuit
  BY <1>2 DEF CandidatesQuit
<1>3. ASSUME NEW i \in Slots, Send(i) PROVE TargetInv'
  <2>1. CASE Request(i) \/ ConnectFail(i)
    BY <1>0, <2>1 DEF Request, ConnectFail
  <2>2. CASE StreamFail(i)
    BY <1>0, <2>2 DEF StreamFail
  <2>3. CASE Accept(i) \/ Decline(i) \/ PublishReply(i)
    BY <1>0, <2>3 DEF Accept, Decline, PublishReply
  <2>4. CASE Ack(i)
    BY <1>0, <2>4 DEF Ack, AckOf
  <2> QED BY <1>3, <2>1, <2>2, <2>3, <2>4 DEF Send
<1>4. ASSUME NEW e \in Events, Hear(e) PROVE TargetInv'
  BY <1>4 DEF Hear
<1>5. ASSUME NEW j \in Joiners, JoinEvents(j) PROVE TargetInv'
  BY <1>5 DEF JoinEvents, HubLock, Deliver, Skip, Release, NewCandidate
<1>6. CASE UNCHANGED vars
  BY <1>6 DEF vars
<1> QED BY <1>1, <1>2, <1>3, <1>4, <1>5, <1>6 DEF Next

LEMMA HostStep == TypeOK /\ SlotInv /\ HostInv /\ [Next]_vars => HostInv'
<1> SUFFICES ASSUME TypeOK, SlotInv, HostInv, [Next]_vars PROVE HostInv'
  OBVIOUS
<1> USE DEF HostInv, seekVars, candVars, sendVars, joinVars, custVars, GotoSend, SetAck
<1>0. /\ acks \in [Slots -> 0 .. 2] /\ send \in [Slots -> SendStates]
      /\ target \in [Slots -> Addrs \cup {None}] /\ reply \in [Slots -> BOOLEAN]
  BY DEF TypeOK
<1>1. CASE SeekStorage
  <2>1. ASSUME NEW i \in Slots, GetSlot(i) PROVE HostInv'
    BY <1>0, <2>1 DEF GetSlot
  <2>2. CASE SeekDone
    BY <2>2 DEF SeekDone
  <2>3. CASE TakeCandidate
    BY <1>0, <2>3 DEF TakeCandidate, SlotInv
  <2> QED BY <1>1, <2>1, <2>2, <2>3 DEF SeekStorage
<1>2. CASE CandidatesQuit
  BY <1>2 DEF CandidatesQuit
<1>3. ASSUME NEW i \in Slots, Send(i) PROVE HostInv'
  <2>1. CASE Request(i) \/ ConnectFail(i)
    BY <1>0, <2>1 DEF Request, ConnectFail
  <2>2. CASE StreamFail(i)
    BY <1>0, <2>2 DEF StreamFail
  <2>3. CASE Accept(i)
    BY <1>0, <2>3 DEF Accept
  <2>4. CASE Decline(i)
    BY <1>0, <2>4 DEF Decline
  <2>5. CASE PublishReply(i)
    BY <1>0, <2>5 DEF PublishReply
  <2>6. CASE Ack(i)
    BY <1>0, <2>6 DEF Ack, AckOf
  <2> QED BY <1>3, <2>1, <2>2, <2>3, <2>4, <2>5, <2>6 DEF Send
<1>4. CASE (\E j \in Joiners : JoinEvents(j)) \/ (\E e \in Events : Hear(e))
  BY <1>4, HubFrame
<1>5. CASE UNCHANGED vars
  BY <1>5 DEF vars
<1> QED BY <1>1, <1>2, <1>3, <1>4, <1>5 DEF Next

LEMMA IInvInit == Init => IInv
BY DEF Init, IInv, TypeOK, SlotInv, TargetInv, HostInv, SendStates, Joiners, Events

LEMMA IInvHolds == Spec => []IInv
<1>1. IInv /\ [Next]_vars => IInv'
  BY TypeStep, SlotStep, TargetStep, HostStep DEF IInv
<1> QED BY IInvInit, <1>1, PTL DEF Spec

-----------------------------------------------------------------------------
(* The fields of SeekStorage, getCandidates, Send and the hub keep their
   types; in particular channel c and the Sends only ever carry addresses. *)
THEOREM TypeCorrect == Spec => []TypeOK
<1>1. IInv => TypeOK
  BY DEF IInv
<1> QED BY IInvHolds, <1>1, PTL

(* If no node is heard under two multiaddrs, SeekStorage returns only when as
   many different nodes as there are slots have accepted the contract. *)
THEOREM CustodiansDistinct ==
    ASSUME \A a, b \in Addrs : NodeOf[a] = NodeOf[b] => a = b
    PROVE  Spec => []EnoughCustodians
<1>1. IInv => EnoughCustodians
  BY DEF IInv, TypeOK, SlotInv, TargetInv, HostInv, EnoughCustodians
<1> QED BY IInvHolds, <1>1, PTL

(* A slot is lost only to a failed connection: whatever is declined or breaks
   off later, an ack of 2 always has a Send that will set it. *)
THEOREM SlotsServed == Spec => []WaitingIsServed
<1> USE DEF WaitingIsServed
<1>1. Init => WaitingIsServed
  BY DEF Init
<1>2. IInv /\ WaitingIsServed /\ [Next]_vars => WaitingIsServed'
  <2> SUFFICES ASSUME IInv, WaitingIsServed, [Next]_vars PROVE WaitingIsServed'
    OBVIOUS
  <2> USE DEF seekVars, candVars, sendVars, joinVars, custVars, GotoSend, SetAck
  <2>0. /\ acks \in [Slots -> 0 .. 2] /\ send \in [Slots -> SendStates]
        /\ seek = "recv" => slot \in Slots
    BY DEF IInv, TypeOK, SlotInv
  <2>1. CASE SeekStorage
    <3>1. ASSUME NEW i \in Slots, GetSlot(i) PROVE WaitingIsServed'
      BY <2>0, <3>1 DEF GetSlot
    <3>2. CASE SeekDone
      BY <3>2 DEF SeekDone
    <3>3. CASE TakeCandidate
      BY <2>0, <3>3 DEF TakeCandidate
    <3> QED BY <2>1, <3>1, <3>2, <3>3 DEF SeekStorage
  <2>2. CASE CandidatesQuit
    BY <2>2 DEF CandidatesQuit
  <2>3. ASSUME NEW i \in Slots, Send(i) PROVE WaitingIsServed'
    <3>1. CASE Request(i) \/ Accept(i) \/ Decline(i) \/ PublishReply(i)
      BY <2>0, <3>1 DEF Request, Accept, Decline, PublishReply
    <3>2. CASE StreamFail(i)
      BY <2>0, <3>2 DEF StreamFail
    <3>3. CASE Ack(i)
      BY <2>0, <3>3 DEF Ack, AckOf
    <3>4. CASE ConnectFail(i)
      BY <2>0, <3>4 DEF ConnectFail
    <3> QED BY <2>3, <3>1, <3>2, <3>3, <3>4 DEF Send
  <2>4. CASE (\E j \in Joiners : JoinEvents(j)) \/ (\E e \in Events : Hear(e))
    BY <2>4, HubFrame
  <2>5. CASE UNCHANGED vars
    BY <2>5 DEF vars
  <2> QED BY <2>1, <2>2, <2>3, <2>4, <2>5 DEF Next
<1> QED BY IInvHolds, <1>1, <1>2, PTL DEF Spec

(* Unless a stream breaks after the request was sent, a node that has accepted
   the contract is the target of a slot that is accepted or waits for its
   reply, for any number of slots and addresses: no acceptance is forgotten
   when Send sets an ack to 0 or getSlot hands a slot out again. *)
THEOREM CustodiansAccounted == Spec => []NoStrayCustodian
<1> USE DEF StrayInv, NoStrayCustodian, Unengaged
<1>1. Init => StrayInv
  BY SentinelAssumption DEF Init
<1>2. IInv /\ StrayInv /\ [Next]_vars => StrayInv'
  <2> SUFFICES ASSUME IInv, StrayInv, [Next]_vars PROVE StrayInv'
    OBVIOUS
  <2> USE DEF seekVars, candVars, sendVars, joinVars, custVars, GotoSend, SetAck
  <2>0. /\ acks \in [Slots -> 0 .. 2] /\ send \in [Slots -> SendStates]
        /\ target \in [Slots -> Addrs \cup {None}] /\ reply \in [Slots -> BOOLEAN]
        /\ seek = "recv" => slot \in Slots /\ acks[slot] = 2 /\ send[slot] = "idle"
    BY DEF IInv, TypeOK, SlotInv
  <2>1. CASE SeekStorage
    <3>1. ASSUME NEW i \in Slots, GetSlot(i) PROVE StrayInv'
      BY <2>0, <3>1 DEF GetSlot
    <3>2. CASE SeekDone
      BY <3>2 DEF SeekDone
    <3>3. CASE TakeCandidate
      <4>1. slot \in Slots /\ candAddr \notin hosting /\ seek = "recv"
        BY <2>0, <3>3 DEF TakeCandidate, IInv, TargetInv
      <4>2. /\ tried' = tried \cup {candAddr} /\ seek' = "getSlot"
            /\ send' = [send EXCEPT ![slot] = "connect"]
            /\ target' = [target EXCEPT ![slot] = candAddr]
            /\ UNCHANGED <<acks, reply, hosting, broken>>
        BY <3>3 DEF TakeCandidate, MarkTried
      <4> QED BY <2>0, <4>1, <4>2
    <3> QED BY <2>1, <3>1, <3>2, <3>3 DEF SeekStorage
  <2>2. CASE CandidatesQuit
    BY <2>2 DEF CandidatesQuit
  <2>3. ASSUME NEW i \in Slots, Send(i) PROVE StrayInv'
    <3>0. /\ send[i] # "idle" => acks[i] = 2 /\ target[i] \in tried
          /\ \A k \in Slots : send[i] # "idle" /\ target[k] = target[i] => k = i
      BY DEF IInv, SlotInv, TargetInv
    <3>1. CASE Request(i) \/ ConnectFail(i) \/ PublishReply(i)
      BY <2>0, <3>1 DEF Request, ConnectFail, PublishReply
    <3>2. CASE StreamFail(i)
      BY <2>0, <3>0, <3>2 DEF StreamFail
    <3>3. CASE Accept(i)
      BY <2>0, <3>0, <3>3 DEF Accept
    <3>4. CASE Decline(i)
      BY <2>0, <3>4 DEF Decline
    <3>5. CASE Ack(i)
      BY <2>0, <3>0, <3>5 DEF Ack, AckOf
    <3> QED BY <2>3, <3>1, <3>2, <3>3, <3>4, <3>5 DEF Send
  <2>4. CASE (\E j \in Joiners : JoinEvents(j)) \/ (\E e \in Events : Hear(e))
    BY <2>4, HubFrame
  <2>5. CASE UNCHANGED vars
    BY <2>5 DEF vars
  <2> QED BY <2>1, <2>2, <2>3, <2>4, <2>5 DEF Next
<1> QED BY IInvHolds, <1>1, <1>2, PTL DEF Spec

-----------------------------------------------------------------------------
(* FindCustodians implements Custody: the goroutines, channels and messages
   give each slot a hosting node of its own and never take it away, and the
   call returns when all slots have one. *)
THEOREM Refinement ==
    ASSUME \A a, b \in Addrs : NodeOf[a] = NodeOf[b] => a = b
    PROVE  Spec => KeepsPromise
<1>1. Init => C!Init
  BY DEF Init, C!Init, servedBy
<1>2. IInv /\ [Next]_vars => [C!Next]_(C!vars)
  <2> SUFFICES ASSUME IInv, [Next]_vars PROVE [C!Next]_(C!vars)
    OBVIOUS
  <2> USE DEF seekVars, candVars, sendVars, joinVars, custVars, GotoSend, SetAck
  <2>0. /\ acks \in [Slots -> 0 .. 2] /\ send \in [Slots -> SendStates]
        /\ target \in [Slots -> Addrs \cup {None}] /\ reply \in [Slots -> BOOLEAN]
        /\ hosting \subseteq Addrs
    BY DEF IInv, TypeOK
  <2>a. ASSUME UNCHANGED <<hosting, servedBy>>, (seek = "done")' = (seek = "done")
        PROVE  UNCHANGED C!vars
    BY <2>a DEF C!vars
  <2>1. CASE SeekStorage
    <3>1. ASSUME NEW i \in Slots, GetSlot(i) PROVE UNCHANGED C!vars
      <4>1. servedBy' = servedBy
        BY <2>0, <3>1 DEF GetSlot, servedBy
      <4> QED BY <3>1, <4>1, <2>a DEF GetSlot
    <3>2. CASE SeekDone
      <4>1. \A i \in Slots : servedBy[i] # None
        BY <3>2, SentinelAssumption
        DEF SeekDone, AllAccepted, servedBy, IInv, TypeOK, TargetInv
      <4>2. UNCHANGED <<hosting, servedBy>>
        BY <3>2 DEF SeekDone, servedBy
      <4>3. C!Return
        BY <3>2, <4>1, <4>2 DEF SeekDone, C!Return
      <4> QED BY <4>3 DEF C!Next
    <3>3. CASE TakeCandidate
      <4>1. slot \in Slots /\ acks[slot] = 2
        BY <3>3 DEF TakeCandidate, IInv, SlotInv
      <4>2. servedBy' = servedBy
        BY <2>0, <3>3, <4>1 DEF TakeCandidate, servedBy
      <4> QED BY <3>3, <4>2, <2>a DEF TakeCandidate
    <3> QED BY <2>1, <3>1, <3>2, <3>3 DEF SeekStorage
  <2>2. CASE CandidatesQuit
    BY <2>2, <2>a DEF CandidatesQuit, servedBy
  <2>3. ASSUME NEW i \in Slots, Send(i) PROVE [C!Next]_(C!vars)
    <3>0. send[i] # "idle" => acks[i] = 2 /\ target[i] \in Addrs
      BY DEF IInv, TypeOK, SlotInv, TargetInv
    <3>1. CASE Request(i) \/ ConnectFail(i) \/ Decline(i) \/ PublishReply(i)
      BY <3>1, <2>a DEF Request, ConnectFail, Decline, PublishReply, servedBy
    <3>2. ASSUME send[i] # "idle", UNCHANGED <<seek, servedBy>>,
                 hosting' = hosting \cup {target[i]}
          PROVE  [C!Next]_(C!vars)
      <4> DEFINE n == NodeOf[target[i]]
      <4>1. {NodeOf[a] : a \in hosting'} = {NodeOf[a] : a \in hosting} \cup {n}
        BY <3>2
      <4>2. C!Host(n)
        BY <3>2, <4>1 DEF C!Host
      <4>3. n \in {NodeOf[a] : a \in Addrs}
        BY <3>0, <3>2
      <4> HIDE DEF n
      <4>4. \E m \in {NodeOf[a] : a \in Addrs} : C!Host(m)
        BY <4>2, <4>3 DEF C!Host
      <4>5. C!Next
        BY <4>4 DEF C!Next
      <4> QED BY <4>5
    <3>3. CASE StreamFail(i)
      <4>1. servedBy' = servedBy
        BY <2>0, <3>0, <3>3 DEF StreamFail, servedBy
      <4>2. send[i] # "idle" /\ seek' = seek
        BY <3>3 DEF StreamFail
      <4>3. CASE UNCHANGED hosting
        BY <4>1, <4>2, <4>3, <2>a
      <4>4. CASE hosting' = hosting \cup {target[i]}
        BY <4>1, <4>2, <4>4, <3>2
      <4> QED BY <3>3, <4>3, <4>4 DEF StreamFail
    <3>4. CASE Accept(i)
      BY <3>2, <3>4 DEF Accept, servedBy
    <3>5. CASE Ack(i) /\ reply[i]
      <4> DEFINE n == NodeOf[target[i]]
      <4>1. acks[i] = 2 /\ target[i] \in Addrs /\ target[i] \in hosting
        BY <3>0, <3>5 DEF Ack, IInv, HostInv
      <4>2. seek # "done"
        BY <4>1 DEF IInv, SlotInv
      <4>3. n \in {NodeOf[a] : a \in hosting} /\ n \in {NodeOf[a] : a \in Addrs}
        BY <4>1
      <4>4. \A k \in Slots : servedBy[k] # n
        BY <4>1, SentinelAssumption DEF servedBy, IInv, TypeOK, TargetInv
      <4>5. acks' = [acks EXCEPT ![i] = 1] /\ UNCHANGED <<seek, target, hosting>>
        BY <3>5 DEF Ack, AckOf
      <4>6. servedBy[i] = None /\ servedBy' = [servedBy EXCEPT ![i] = n]
        <5>1. servedBy[i] = None
          BY <4>1 DEF servedBy
        <5>2. servedBy' = [k \in Slots |-> IF acks'[k] = 1 THEN NodeOf[target[k]] ELSE None]
          BY <4>5 DEF servedBy
        <5>3. \A k \in Slots : k # i => acks'[k] = acks[k]
          BY <2>0, <4>5
        <5>4. acks'[i] = 1
          BY <2>0, <4>5
        <5> QED BY <5>1, <5>2, <5>3, <5>4 DEF servedBy
      <4>7. C!Engage(i, n)
        BY <4>2, <4>3, <4>4, <4>5, <4>6 DEF C!Engage
      <4> QED BY <4>3, <4>7 DEF C!Next
    <3>6. CASE Ack(i) /\ ~reply[i]
      <4>1. servedBy' = servedBy
        BY <2>0, <3>0, <3>6 DEF Ack, AckOf, servedBy
      <4> QED BY <3>6, <4>1, <2>a DEF Ack
    <3> QED BY <2>3, <3>1, <3>3, <3>4, <3>5, <3>6 DEF Send
  <2>4. CASE (\E j \in Joiners : JoinEvents(j)) \/ (\E e \in Events : Hear(e))
    BY <2>4, <2>a, HubFrame DEF servedBy
  <2>5. CASE UNCHANGED vars
    BY <2>5, <2>a DEF vars, servedBy
  <2> QED BY <2>1, <2>2, <2>3, <2>4, <2>5 DEF Next
<1> QED BY IInvHolds, <1>1, <1>2, PTL DEF Spec, KeepsPromise, C!Spec
=============================================================================
