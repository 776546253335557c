------------------------- MODULE NodeEvents_proofs -------------------------
(***************************************************************************)
(* Proofs about NodeEvents, for any number of subscribers, readers and     *)
(* broadcasts.  SameOrder is not inductive: between HubLock and Release    *)
(* the subscribers the loop has come to are one event ahead of the others. *)
(* BroadcastInv says by the index in publishers who is ahead, and HubInv   *)
(* that only one loop runs and which event it hands out.                   *)
(***************************************************************************)
EXTENDS NodeEvents, TLAPS

LEMMA TypeStep == IInv /\ [Next]_vars => TypeOK'
<1> SUFFICES ASSUME IInv, [Next]_vars PROVE TypeOK'
  OBVIOUS
<1> USE DEF TypeOK, hubVars, joinVars, resultVars, histVars, Enter, Take
<1>0. TypeOK
  BY DEF IInv
<1>1. ASSUME NEW b \in Broadcasts, Hear(b) PROVE TypeOK'
  BY <1>0, <1>1 DEF Hear, Events, Joiners
<1>2. ASSUME NEW r \in Readers, Reader(r) PROVE TypeOK'
  <2>1. CASE ReadRequest(r)
    BY <1>0, <2>1 DEF ReadRequest, ReaderStates
  <2>2. CASE PublishRequest(r)
    BY <1>0, <2>2 DEF PublishRequest, ReaderStates, Events, Joiners
  <2> QED BY <1>2, <2>1, <2>2 DEF Reader
<1>3. ASSUME NEW s \in Subscribers, Subscribe(s) PROVE TypeOK'
  <2>1. publishers' \in Seq(Subscribers) /\ Len(log) \in Nat
    BY <1>0, <1>3 DEF Subscribe
  <2> QED BY <1>0, <1>3, <2>1 DEF Subscribe, CallStates
<1>4. ASSUME NEW t \in Retrievals, RetrieveDataV2(t) PROVE TypeOK'
  <2>0. t \in Subscribers
    BY DEF Subscribers
  <2>1. CASE ReturnDirect(t)
    <3>1. Wanted[t] \in Cids
      BY <1>0, <2>1, DataAssumption DEF ReturnDirect
    <3> QED BY <1>0, <2>0, <2>1, <3>1 DEF ReturnDirect, CallStates
  <2>2. CASE Listen(t) \/ Stop(t)
    BY <1>0, <2>0, <2>2 DEF Listen, Stop, CallStates
  <2>3. CASE MinutePasses(t)
    BY <1>0, <2>3 DEF MinutePasses
  <2> QED BY <1>4, <2>1, <2>2, <2>3 DEF RetrieveDataV2
<1>5. CASE (\E s \in Seekers : GetCandidates(s)) \/ (\E s \in Streams : SubscribeToEvents(s))
  BY <1>0, <1>5 DEF GetCandidates, CandidateTaken, SeekOver, SubscribeToEvents, Sent,
                    SendFails, CallStates, Subscribers
<1>6. ASSUME NEW j \in Joiners, JoinEvents(j) PROVE TypeOK'
  <2>1. CASE HubLock(j)
    <3>1. evt[j] \in Events
      BY <1>0, <2>1 DEF HubLock, IInv, HubInv
    <3>2. log' \in Seq(Events)
      BY <1>0, <2>1, <3>1 DEF HubLock
    <3> QED BY <1>0, <2>1, <3>2 DEF HubLock
  <2>2. ASSUME NEW s \in Subscribers, Deliver(j, s) PROVE TypeOK'
    <3>1. evt[j] \in Events
      BY <1>0, <2>2 DEF Deliver, At, IInv, HubInv
    <3>2. seen' \in [Subscribers -> Seq(Events)]
      BY <1>0, <2>2, <3>1 DEF Deliver
    <3>3. /\ tried' \in [Retrievals \cup Seekers -> SUBSET Addrs]
          /\ cids' \in [Retrievals -> SUBSET Cids]
          /\ UNCHANGED direct
      <4>1. CASE s \in Retrievals /\ News(s, evt[j])
        <5>1. MarkAddr(s, evt[j]) \in SUBSET Addrs
          BY <1>0, <4>1, DataAssumption DEF News, MarkAddr, Broadcasts
        <5>2. Matches(s, evt[j]) \in SUBSET Cids
          BY <4>1, DataAssumption DEF News, Matches
        <5>3. /\ tried' = [tried EXCEPT ![s] = MarkAddr(s, evt[j])]
              /\ cids' = [cids EXCEPT ![s] = @ \cup Matches(s, evt[j])]
              /\ UNCHANGED direct
          BY <2>2, <4>1, CallAssumption DEF Deliver, Note, Candidate
        <5> QED BY <1>0, <4>1, <5>1, <5>2, <5>3
      <4>2. CASE Candidate(s, evt[j])
        <5>1. MarkAddr(s, evt[j]) \in SUBSET Addrs
          BY <1>0, <4>2, DataAssumption DEF Candidate, MarkAddr, Broadcasts
        <5>2. tried' = [tried EXCEPT ![s] = MarkAddr(s, evt[j])] /\ UNCHANGED <<direct, cids>>
          BY <2>2, <4>2, CallAssumption DEF Deliver, Note, Candidate
        <5> QED BY <1>0, <5>1, <5>2
      <4>3. CASE ~(s \in Retrievals /\ News(s, evt[j])) /\ ~Candidate(s, evt[j])
        BY <1>0, <2>2, <4>3 DEF Deliver, Note
      <4> QED BY <4>1, <4>2, <4>3
    <3>4. pos' \in [Joiners -> Nat \ {0}] /\ call' \in [Subscribers -> CallStates]
      BY <1>0, <2>2 DEF Deliver, After, CallStates
    <3> QED BY <1>0, <2>2, <3>2, <3>3, <3>4 DEF Deliver
  <2>3. ASSUME NEW s \in Subscribers, Skip(j, s) PROVE TypeOK'
    BY <1>0, <2>3 DEF Skip
  <2>4. CASE Release(j)
    BY <1>0, <2>4 DEF Release
  <2> QED BY <1>6, <2>1, <2>2, <2>3, <2>4 DEF JoinEvents
<1>7. CASE UNCHANGED vars
  BY <1>0, <1>7 DEF vars
<1> QED BY <1>1, <1>2, <1>3, <1>4, <1>5, <1>6, <1>7 DEF Next

(* Sources leave the hub and the subscribers alone. *)
LEMMA SourceFrame ==
    ASSUME (\E b \in Broadcasts : Hear(b)) \/ (\E r \in Readers : Reader(r))
    PROVE  UNCHANGED <<publishers, hub, pos, call, direct, log, since, seen>>
BY DEF Hear, Reader, ReadRequest, PublishRequest, hubVars, joinVars,
       resultVars, histVars

(* A subscriber's own steps leave the hub and the history alone; a subscriber
   begins to read only by Subscribe. *)
LEMMA SubscriberFrame ==
    ASSUME TypeOK,
           \/ \E t \in Retrievals : RetrieveDataV2(t)
           \/ \E s \in Seekers : GetCandidates(s)
           \/ \E s \in Streams : SubscribeToEvents(s)
    PROVE  /\ UNCHANGED <<publishers, hub, join, evt, pos, direct, log, since, seen>>
           /\ \A s \in Subscribers :
                 /\ Subscribed(s)' = Subscribed(s)
                 /\ Reading(s)' => Reading(s)
                 /\ call'[s] \in {"next", "holding", "sending"} =>
                       call[s] \in {"next", "holding", "sending"} \/ s \notin direct
<1> USE DEF TypeOK, hubVars, joinVars, resultVars, histVars, Enter, Subscribed, Reading
<1> DEFINE Frame ==
              /\ UNCHANGED <<publishers, hub, join, evt, pos, direct, log, since, seen>>
              /\ \A s \in Subscribers :
                    /\ Subscribed(s)' = Subscribed(s)
                    /\ Reading(s)' => Reading(s)
                    /\ call'[s] \in {"next", "holding", "sending"} =>
                          call[s] \in {"next", "holding", "sending"} \/ s \notin direct
<1>1. ASSUME NEW s \in Seekers, GetCandidates(s) PROVE Frame
  <2>0. s \in Subscribers
    BY DEF Subscribers
  <2> QED BY <1>1, <2>0 DEF GetCandidates, CandidateTaken, SeekOver
<1>2. ASSUME NEW t \in Retrievals, RetrieveDataV2(t) PROVE Frame
  <2>0. t \in Subscribers
    BY DEF Subscribers
  <2>1. CASE ReturnDirect(t)
    BY <2>0, <2>1 DEF ReturnDirect
  <2>2. CASE Listen(t)
    BY <2>0, <2>2 DEF Listen
  <2>3. CASE Stop(t)
    BY <2>0, <2>3 DEF Stop
  <2>4. CASE MinutePasses(t)
    BY <2>4 DEF MinutePasses
  <2> QED BY <1>2, <2>1, <2>2, <2>3, <2>4 DEF RetrieveDataV2
<1>3. ASSUME NEW s \in Streams, SubscribeToEvents(s) PROVE Frame
  <2>0. s \in Subscribers
    BY DEF Subscribers
  <2>1. CASE Sent(s)
    BY <2>0, <2>1 DEF Sent
  <2>2. CASE SendFails(s)
    BY <2>0, <2>2 DEF SendFails
  <2> QED BY <1>3, <2>1, <2>2 DEF SubscribeToEvents
<1> QED BY <1>1, <1>2, <1>3

LEMMA HubStep == IInv /\ [Next]_vars => HubInv'
<1> SUFFICES ASSUME IInv, [Next]_vars PROVE HubInv'
  OBVIOUS
<1> USE DEF HubInv, hubVars, joinVars, resultVars, histVars, Take
<1>0. TypeOK /\ HubInv
  BY DEF IInv
<1>a. /\ join \in [Joiners -> {"next", "lock", "publish"}]
      /\ evt \in [Joiners -> Events \cup {None}] /\ pos \in [Joiners -> Nat \ {0}]
      /\ hub \in Joiners \cup {Free} /\ Len(publishers) \in Nat /\ Len(log) \in Nat
  BY <1>0 DEF TypeOK
<1>1. ASSUME NEW b \in Broadcasts, Hear(b) PROVE HubInv'
  BY <1>0, <1>a, <1>1, CallAssumption DEF Hear, Joiners, Events
<1>2. ASSUME NEW r \in Readers, Reader(r) PROVE HubInv'
  <2>1. CASE ReadRequest(r)
    BY <1>0, <2>1 DEF ReadRequest
  <2>2. CASE PublishRequest(r)
    BY <1>0, <1>a, <2>2, CallAssumption DEF PublishRequest, Joiners, Events
  <2> QED BY <1>2, <2>1, <2>2 DEF Reader
<1>3. ASSUME NEW s \in Subscribers, Subscribe(s) PROVE HubInv'
  <2>1. Len(publishers') = Len(publishers) + 1 /\ hub' = Free
    BY <1>0, <1>3 DEF Subscribe, TypeOK
  <2> QED BY <1>0, <1>a, <1>3, <2>1 DEF Subscribe
<1>4. CASE \/ \E t \in Retrievals : RetrieveDataV2(t)
           \/ \E s \in Seekers : GetCandidates(s)
           \/ \E s \in Streams : SubscribeToEvents(s)
  BY <1>0, <1>4, SubscriberFrame
<1>5. ASSUME NEW j \in Joiners, JoinEvents(j) PROVE HubInv'
  <2>1. CASE HubLock(j)
    <3>1. Len(log') = Len(log) + 1 /\ log'[Len(log')] = evt[j]
      BY <1>0, <2>1 DEF HubLock, TypeOK
    <3> QED BY <1>0, <1>a, <2>1, <3>1, CallAssumption DEF HubLock
  <2>2. ASSUME NEW s \in Subscribers, Deliver(j, s) \/ Skip(j, s) PROVE HubInv'
    BY <1>0, <1>a, <2>2 DEF Deliver, Skip, At
  <2>3. CASE Release(j)
    BY <1>0, <1>a, <2>3, CallAssumption DEF Release
  <2> QED BY <1>5, <2>1, <2>2, <2>3 DEF JoinEvents
<1>6. CASE UNCHANGED vars
  BY <1>0, <1>6 DEF vars
<1> QED BY <1>1, <1>2, <1>3, <1>4, <1>5, <1>6 DEF Next

LEMMA RegisterStep == IInv /\ [Next]_vars => RegisterInv'
<1> SUFFICES ASSUME IInv, [Next]_vars PROVE RegisterInv'
  OBVIOUS
<1> USE DEF RegisterInv, hubVars, joinVars, resultVars, histVars
<1>0. TypeOK /\ RegisterInv
  BY DEF IInv
<1>1. CASE (\E b \in Broadcasts : Hear(b)) \/ (\E r \in Readers : Reader(r))
  BY <1>0, <1>1, SourceFrame DEF Subscribed
<1>2. ASSUME NEW s \in Subscribers, Subscribe(s) PROVE RegisterInv'
  <2>1. /\ publishers' \in Seq(Subscribers)
        /\ Len(publishers') = Len(publishers) + 1
        /\ publishers'[Len(publishers) + 1] = s
        /\ \A k \in 1 .. Len(publishers) : publishers'[k] = publishers[k]
        /\ Len(publishers) \in Nat
    BY <1>0, <1>2 DEF Subscribe, TypeOK
  <2>2. /\ ~Subscribed(s) /\ Subscribed(s)'
        /\ \A q \in Subscribers : q # s => Subscribed(q)' = Subscribed(q) /\ call'[q] = call[q]
        /\ call'[s] = "next" => s \notin Retrievals
        /\ call'[s] \notin {"holding", "sending"}
    BY <1>0, <1>2 DEF Subscribe, TypeOK, Enter, Subscribed
  <2>3. s \notin Retrievals => s \notin direct
    BY <1>0 DEF TypeOK
  <2>4. UNCHANGED <<direct, seen>>
    BY <1>2 DEF Subscribe
  <2>5. \A q \in Subscribers :
           Subscribed(q)' <=> \E k \in 1 .. Len(publishers') : publishers'[k] = q
    BY <1>0, <2>1, <2>2
  <2>6. \A k, m \in 1 .. Len(publishers') : publishers'[k] = publishers'[m] => k = m
    BY <1>0, <2>1, <2>2
  <2> QED BY <1>0, <2>2, <2>3, <2>4, <2>5, <2>6
<1>3. CASE \/ \E t \in Retrievals : RetrieveDataV2(t)
           \/ \E s \in Seekers : GetCandidates(s)
           \/ \E s \in Streams : SubscribeToEvents(s)
  BY <1>0, <1>3, SubscriberFrame
<1>4. ASSUME NEW j \in Joiners, JoinEvents(j) PROVE RegisterInv'
  <2>1. CASE HubLock(j) \/ Release(j)
    BY <1>0, <2>1 DEF HubLock, Release, Subscribed
  <2>2. ASSUME NEW s \in Subscribers, Deliver(j, s) PROVE RegisterInv'
    <3>1. UNCHANGED <<publishers, direct>>
      BY <2>2 DEF Deliver, Note
    <3>2. /\ Subscribed(s)
          /\ \A q \in Subscribers : Subscribed(q)' = Subscribed(q)
          /\ \A q \in Subscribers : q # s => seen'[q] = seen[q] /\ call'[q] = call[q]
      BY <1>0, <2>2 DEF Deliver, After, Subscribed, Enter, TypeOK
    <3>3. s \notin direct
      BY <1>0, <2>2 DEF Deliver
    <3> QED BY <1>0, <3>1, <3>2, <3>3
  <2>3. ASSUME NEW s \in Subscribers, Skip(j, s) PROVE RegisterInv'
    BY <1>0, <2>3 DEF Skip, Subscribed
  <2> QED BY <1>4, <2>1, <2>2, <2>3 DEF JoinEvents
<1>5. CASE UNCHANGED vars
  BY <1>0, <1>5 DEF vars, Subscribed
<1> QED BY <1>1, <1>2, <1>3, <1>4, <1>5 DEF Next
(* What BroadcastInv says of the subscriber s at index k. *)
UpToDate(k, s) ==
    /\ since[s] + Len(seen[s]) <= Len(log)
    /\ \A m \in 1 .. Len(seen[s]) : seen[s][m] = log[since[s] + m]
    /\ Reading(s) =>
          since[s] + Len(seen[s]) = IF Pending(k) THEN Len(log) - 1 ELSE Len(log)

LEMMA BroadcastStep == IInv /\ [Next]_vars => BroadcastInv'
<1> SUFFICES ASSUME IInv, [Next]_vars PROVE BroadcastInv'
  OBVIOUS
<1> USE DEF hubVars, joinVars, resultVars, histVars
<1>0. TypeOK /\ HubInv /\ RegisterInv
  BY DEF IInv
<1>a. \A k \in 1 .. Len(publishers) : publishers[k] \in Subscribers /\ UpToDate(k, publishers[k])
  BY DEF IInv, TypeOK, BroadcastInv, UpToDate
<1>b. SUFFICES \A k \in 1 .. Len(publishers') : UpToDate(k, publishers[k])'
  BY DEF BroadcastInv, UpToDate
<1>c. /\ Len(publishers) \in Nat /\ Len(log) \in Nat
      /\ \A s \in Subscribers : since[s] \in Nat /\ Len(seen[s]) \in Nat
      /\ \A j \in Joiners : pos[j] \in Nat \ {0}
  BY <1>0 DEF TypeOK
<1> DEFINE Goal == \A k \in 1 .. Len(publishers') : UpToDate(k, publishers[k])'
<1>1. CASE (\E b \in Broadcasts : Hear(b)) \/ (\E r \in Readers : Reader(r))
  BY <1>a, <1>1, SourceFrame DEF UpToDate, Pending, Reading
<1>2. CASE \/ \E t \in Retrievals : RetrieveDataV2(t)
           \/ \E s \in Seekers : GetCandidates(s)
           \/ \E s \in Streams : SubscribeToEvents(s)
  BY <1>0, <1>a, <1>2, SubscriberFrame DEF UpToDate, Pending
<1>3. ASSUME NEW s \in Subscribers, Subscribe(s) PROVE Goal
  <2>0. PICK n \in Nat : n = Len(publishers) + 1
    BY <1>c
  <2>1. /\ Len(publishers') = n
        /\ publishers'[n] = s
        /\ \A k \in 1 .. Len(publishers) : publishers'[k] = publishers[k]
    BY <1>0, <1>3, <2>0 DEF Subscribe, TypeOK
  <2>2. hub = Free /\ UNCHANGED <<hub, pos, direct, log, seen>>
    BY <1>3 DEF Subscribe
  <2>3. seen[s] = <<>> /\ since'[s] = Len(log) /\ ~Subscribed(s)
    BY <1>0, <1>3 DEF Subscribe, RegisterInv, Subscribed, TypeOK
  <2>4. UpToDate(n, s)'
    <3>1. Len(seen[s]) = 0
      BY <2>3
    <3> QED BY <1>c, <2>2, <2>3, <3>1 DEF UpToDate, Pending
  <2>5. ASSUME NEW k \in 1 .. Len(publishers) PROVE UpToDate(k, publishers[k])'
    <3>1. publishers[k] # s /\ publishers[k] \in Subscribers
      BY <1>0, <1>a, <2>3 DEF RegisterInv
    <3>2. since'[publishers[k]] = since[publishers[k]] /\ call'[publishers[k]] = call[publishers[k]]
      BY <1>0, <1>3, <3>1 DEF Subscribe, Enter, TypeOK
    <3>3. UpToDate(k, publishers[k])
      BY <1>a
    <3> QED BY <2>1, <2>2, <3>2, <3>3 DEF UpToDate, Pending, Reading
  <2>6. \A k \in 1 .. Len(publishers') : k \in 1 .. Len(publishers) \/ k = n
    BY <1>c, <2>0, <2>1
  <2> QED BY <2>1, <2>4, <2>5, <2>6
<1>4. ASSUME NEW j \in Joiners, HubLock(j) PROVE Goal
  <2>1. /\ Len(log') = Len(log) + 1
        /\ \A m \in 1 .. Len(log) : log'[m] = log[m]
    BY <1>0, <1>4 DEF HubLock, TypeOK, HubInv
  <2>2. /\ UNCHANGED <<publishers, pos, direct, call, since, seen>>
        /\ hub = Free /\ hub' = j /\ hub' # Free /\ pos[j] = 1
    BY <1>0, <1>4, CallAssumption DEF HubLock, HubInv
  <2>3. ASSUME NEW k \in 1 .. Len(publishers) PROVE UpToDate(k, publishers[k])'
    <3> DEFINE s == publishers[k]
    <3>1. s \in Subscribers /\ UpToDate(k, s)
      BY <1>a
    <3>2. Pending(k)' /\ ~Pending(k)
      BY <2>2 DEF Pending
    <3>3. since[s] + Len(seen[s]) <= Len(log')
      BY <1>c, <2>1, <3>1 DEF UpToDate
    <3>4. ASSUME NEW m \in 1 .. Len(seen[s]) PROVE seen[s][m] = log'[since[s] + m]
      <4>1. since[s] + m \in 1 .. Len(log)
        BY <1>c, <3>1 DEF UpToDate
      <4> QED BY <2>1, <3>1, <4>1 DEF UpToDate
    <3>5. Reading(s) => since[s] + Len(seen[s]) = Len(log') - 1
      BY <1>c, <2>1, <3>1, <3>2 DEF UpToDate
    <3> QED BY <2>2, <3>2, <3>3, <3>4, <3>5 DEF UpToDate, Reading
  <2> QED BY <2>2, <2>3
<1>5. ASSUME NEW j \in Joiners, NEW s \in Subscribers, Deliver(j, s) PROVE Goal
  <2>1. /\ hub = j /\ hub # Free /\ pos[j] \in 1 .. Len(publishers)
        /\ publishers[pos[j]] = s /\ evt[j] = log[Len(log)]
    BY <1>0, <1>c, <1>5, CallAssumption DEF Deliver, At, HubInv
  <2>2. /\ UNCHANGED <<publishers, hub, direct, log, since>>
        /\ pos'[j] = pos[j] + 1
    BY <1>0, <1>5 DEF Deliver, Note, TypeOK
  <2>3. /\ Len(seen'[s]) = Len(seen[s]) + 1
        /\ seen'[s][Len(seen[s]) + 1] = evt[j]
        /\ \A m \in 1 .. Len(seen[s]) : seen'[s][m] = seen[s][m]
    <3>1. seen[s] \in Seq(Events) /\ seen'[s] = Append(seen[s], evt[j])
      BY <1>0, <1>5 DEF Deliver, TypeOK
    <3> QED BY <3>1
  <2>4. \A q \in Subscribers : q # s => seen'[q] = seen[q] /\ call'[q] = call[q]
    BY <1>0, <1>5 DEF Deliver, Enter, TypeOK
  <2>0. PICK i \in 1 .. Len(publishers) : i = pos[j]
    BY <2>1
  <2>5. UpToDate(i, s)'
    <3>1. UpToDate(i, s) /\ Pending(i) /\ Reading(s)
      BY <1>0, <1>a, <1>5, <2>0, <2>1, <1>c DEF Pending, Reading, Deliver, RegisterInv
    <3>2. since[s] + Len(seen[s]) = Len(log) - 1
      BY <3>1 DEF UpToDate
    <3>3. since[s] + Len(seen'[s]) = Len(log)
      BY <1>c, <2>3, <3>2
    <3>4. ASSUME NEW m \in 1 .. Len(seen'[s]) PROVE seen'[s][m] = log[since[s] + m]
      <4>0. m \in 1 .. Len(seen[s]) + 1
        BY <2>3
      <4>1. m \in 1 .. Len(seen[s]) \/ (m = Len(seen[s]) + 1 /\ since[s] + m = Len(log))
        <5> DEFINE a == since[s]  b == Len(seen[s])  l == Len(log)
        <5>1. a \in Nat /\ b \in Nat /\ l \in Nat /\ a + b = l - 1 /\ m \in 1 .. b + 1
          BY <1>c, <3>2, <4>0
        <5> HIDE DEF a, b, l
        <5>2. m \in 1 .. b \/ (m = b + 1 /\ a + m = l)
          BY <5>1
        <5> QED BY <5>2 DEF a, b, l
      <4> QED BY <2>1, <2>3, <3>1, <4>1 DEF UpToDate
    <3>5. ~Pending(i)'
      <4>1. ~(pos'[j] <= i)
        BY <1>c, <2>0, <2>2
      <4> QED BY <2>1, <2>2, <4>1 DEF Pending
    <3> QED BY <1>c, <2>2, <3>3, <3>4, <3>5 DEF UpToDate
  <2>6. ASSUME NEW k \in 1 .. Len(publishers), k # i PROVE UpToDate(k, publishers[k])'
    <3>1. publishers[k] # s /\ publishers[k] \in Subscribers /\ UpToDate(k, publishers[k])
      BY <1>0, <1>a, <2>0, <2>1, <2>6 DEF RegisterInv
    <3>2. Pending(k)' = Pending(k)
      <4>1. pos'[j] <= k <=> pos[j] <= k
        BY <1>c, <2>0, <2>2, <2>6
      <4> QED BY <2>1, <2>2, <4>1 DEF Pending
    <3> QED BY <2>2, <2>4, <3>1, <3>2 DEF UpToDate, Reading
  <2> QED BY <2>0, <2>1, <2>2, <2>5, <2>6
<1>6. ASSUME NEW j \in Joiners, NEW s \in Subscribers, Skip(j, s) PROVE Goal
  <2>1. /\ hub = j /\ hub # Free /\ publishers[pos[j]] = s
        /\ UNCHANGED <<publishers, hub, direct, call, log, since, seen>>
        /\ pos'[j] = pos[j] + 1 /\ ~Reading(s)
    BY <1>0, <1>6, CallAssumption DEF Skip, At, HubInv, TypeOK, Reading
  <2>2. ASSUME NEW k \in 1 .. Len(publishers) PROVE UpToDate(k, publishers[k])'
    <3>1. UpToDate(k, publishers[k])
      BY <1>a
    <3>2. k # pos[j] => Pending(k)' = Pending(k)
      <4>1. k # pos[j] => (pos'[j] <= k <=> pos[j] <= k)
        BY <1>c, <2>1
      <4> QED BY <2>1, <4>1 DEF Pending
    <3> QED BY <2>1, <3>1, <3>2 DEF UpToDate, Reading
  <2> QED BY <2>1, <2>2
<1>7. ASSUME NEW j \in Joiners, Release(j) PROVE Goal
  <2>1. /\ hub = j /\ hub' = Free /\ pos[j] > Len(publishers)
        /\ UNCHANGED <<publishers, direct, call, log, since, seen>>
    BY <1>0, <1>7 DEF Release, HubInv
  <2>2. ASSUME NEW k \in 1 .. Len(publishers) PROVE UpToDate(k, publishers[k])'
    <3>1. UpToDate(k, publishers[k]) /\ ~Pending(k) /\ ~Pending(k)'
      BY <1>a, <1>c, <2>1 DEF Pending
    <3> QED BY <2>1, <3>1 DEF UpToDate, Reading
  <2> QED BY <2>1, <2>2
<1>8. CASE UNCHANGED vars
  BY <1>a, <1>8 DEF vars, UpToDate, Pending, Reading
<1> QED BY <1>1, <1>2, <1>3, <1>4, <1>5, <1>6, <1>7, <1>8 DEF Next, JoinEvents

LEMMA IInvInit == Init => IInv
<1> SUFFICES ASSUME Init PROVE IInv
  OBVIOUS
<1>1. TypeOK
  BY DEF Init, TypeOK, CallStates, ReaderStates
<1>2. HubInv
  BY CallAssumption DEF Init, HubInv
<1>3. Len(publishers) = 0
  BY DEF Init
<1>4. RegisterInv
  BY <1>3 DEF Init, RegisterInv, Subscribed
<1>5. BroadcastInv
  BY <1>3 DEF BroadcastInv
<1> QED BY <1>1, <1>2, <1>4, <1>5 DEF IInv

LEMMA IInvHolds == Spec => []IInv
<1>1. IInv /\ [Next]_vars => IInv'
  BY TypeStep, HubStep, RegisterStep, BroadcastStep DEF IInv
<1> QED BY IInvInit, <1>1, PTL DEF Spec

(* The hub, the calls and the readers keep their types; no retrieval notes an
   address or a cid that was in no broadcast. *)
THEOREM TypeCorrect == Spec => []TypeOK
<1>1. IInv => TypeOK
  BY DEF IInv
<1> QED BY IInvHolds, <1>1, PTL

(* joinEvents and publishEvent give every subscriber the same events in the
   same order from the moment it subscribes, however many subscribers, sources
   of events and closed subscriptions there are. *)
THEOREM EventsInOrder == Spec => []SameOrder
<1>1. IInv => SameOrder
  <2> SUFFICES ASSUME IInv, NEW s \in Subscribers, Subscribed(s)
               PROVE  /\ since[s] + Len(seen[s]) <= Len(log)
                      /\ \A m \in 1 .. Len(seen[s]) : seen[s][m] = log[since[s] + m]
                      /\ Reading(s) /\ hub = Free => since[s] + Len(seen[s]) = Len(log)
    BY DEF SameOrder
  <2>1. PICK k \in 1 .. Len(publishers) : publishers[k] = s
    BY DEF IInv, RegisterInv
  <2>2. UpToDate(k, s)
    BY <2>1 DEF IInv, BroadcastInv, UpToDate
  <2> QED BY <2>2 DEF UpToDate, Pending
<1> QED BY IInvHolds, <1>1, PTL

-----------------------------------------------------------------------------
(* An event added at the end is a first broadcast if its address is new, and
   changes nothing about the events before it. *)
LEMMA FirstPubsAppend ==
    ASSUME NEW q \in Seq(Events), NEW e \in Events
    PROVE  FirstPubs(Append(q, e)) =
               IF e \in Pubs /\ \A k \in 1 .. Len(q) : q[k] \in Pubs => Addr[q[k]] # Addr[e]
               THEN FirstPubs(q) \cup {Len(q) + 1}
               ELSE FirstPubs(q)
<1> DEFINE r == Append(q, e)
           Fresh == e \in Pubs /\ \A k \in 1 .. Len(q) : q[k] \in Pubs => Addr[q[k]] # Addr[e]
<1>1. /\ Len(q) \in Nat /\ Len(r) = Len(q) + 1 /\ r[Len(q) + 1] = e
      /\ \A k \in 1 .. Len(q) : r[k] = q[k]
  OBVIOUS
<1> HIDE DEF r
<1>2. \A m \in 1 .. Len(q) : m \in FirstPubs(r) <=> m \in FirstPubs(q)
  BY <1>1 DEF FirstPubs
<1>3. Len(q) + 1 \in FirstPubs(r) <=> Fresh
  BY <1>1 DEF FirstPubs
<1>4. FirstPubs(r) \subseteq 1 .. Len(q) + 1 /\ FirstPubs(q) \subseteq 1 .. Len(q)
  BY <1>1 DEF FirstPubs
<1>5. 1 .. Len(q) + 1 = (1 .. Len(q)) \cup {Len(q) + 1}
  BY <1>1
<1> HIDE DEF Fresh
<1>6. CASE Fresh
  <2>1. FirstPubs(r) = FirstPubs(q) \cup {Len(q) + 1}
    BY <1>2, <1>3, <1>4, <1>5, <1>6
  <2> QED BY <1>6, <2>1 DEF r, Fresh
<1>7. CASE ~Fresh
  <2>1. FirstPubs(r) = FirstPubs(q)
    BY <1>2, <1>3, <1>4, <1>5, <1>7
  <2> QED BY <1>7, <2>1 DEF r, Fresh
<1> QED BY <1>6, <1>7

ResultInv == TriedInv /\ ResultExact

(* Steps that leave a retrieval's result alone. *)
LEMMA ResultKept ==
    ASSUME ResultInv, UNCHANGED direct,
           \A t \in Retrievals : seen'[t] = seen[t] /\ tried'[t] = tried[t],
           \A t \in Retrievals \ direct : cids'[t] = cids[t]
    PROVE  ResultInv'
<1>1. TriedInv'
  BY DEF ResultInv, TriedInv
<1>2. ResultExact'
  BY DEF ResultInv, ResultExact, Matches, FirstPubs
<1> QED BY <1>1, <1>2 DEF ResultInv

(* What a retrieval that listens does with an event. *)
LEMMA ResultDelivered ==
    ASSUME IInv, ResultInv, NEW j \in Joiners, NEW s \in Retrievals, Deliver(j, s)
    PROVE  ResultInv'
<1> DEFINE e == evt[j]
           q == seen[s]
<1>1. /\ e \in Events /\ q \in Seq(Events) /\ s \in Subscribers
      /\ seen \in [Subscribers -> Seq(Events)]
      /\ s \notin Seekers /\ tried \in [Retrievals \cup Seekers -> SUBSET Addrs] /\ cids \in [Retrievals -> SUBSET Cids]
  BY CallAssumption DEF Deliver, At, IInv, HubInv, TypeOK, Subscribers
<1>2. seen' = [seen EXCEPT ![s] = Append(q, e)] /\ Note(s, e)
  BY DEF Deliver
<1> HIDE DEF e
<1>3. UNCHANGED direct
  BY <1>1, <1>2 DEF Note, Candidate, resultVars
<1>4. \A t \in Retrievals \ {s} : UNCHANGED <<seen[t], tried[t], cids[t]>>
  BY <1>1, <1>2 DEF Note, Candidate, resultVars, Subscribers
<1>5. seen'[s] = Append(q, e)
  BY <1>1, <1>2
<1>6. /\ Len(q) \in Nat /\ Len(seen'[s]) = Len(q) + 1 /\ seen'[s][Len(q) + 1] = e
      /\ \A k \in 1 .. Len(q) : seen'[s][k] = q[k]
  BY <1>1, <1>5
<1>7. tried[s] = {Addr[q[m]] : m \in {k \in 1 .. Len(q) : q[k] \in Pubs}}
  BY DEF ResultInv, TriedInv
<1>8. FirstPubs(seen'[s]) = IF News(s, e) THEN FirstPubs(q) \cup {Len(q) + 1} ELSE FirstPubs(q)
  <2>1. News(s, e) <=>
            e \in Pubs /\ \A k \in 1 .. Len(q) : q[k] \in Pubs => Addr[q[k]] # Addr[e]
    BY <1>7 DEF News
  <2>2. FirstPubs(Append(q, e)) =
            IF e \in Pubs /\ \A k \in 1 .. Len(q) : q[k] \in Pubs => Addr[q[k]] # Addr[e]
            THEN FirstPubs(q) \cup {Len(q) + 1}
            ELSE FirstPubs(q)
    BY <1>1, FirstPubsAppend
  <2> QED BY <1>5, <2>1, <2>2
<1>9. FirstPubs(q) \subseteq 1 .. Len(q)
  BY DEF FirstPubs
<1> HIDE DEF q
<1>10. tried'[s] = {Addr[seen'[s][m]] : m \in {k \in 1 .. Len(seen'[s]) : seen'[s][k] \in Pubs}}
  <2>1. CASE News(s, e)
    <3>1. tried'[s] = tried[s] \cup {Addr[e]} /\ e \in Pubs
      BY <1>1, <1>2, <2>1 DEF Note, Candidate, MarkAddr, News
    <3> QED BY <1>6, <1>7, <3>1
  <2>2. CASE ~News(s, e)
    <3>1. tried'[s] = tried[s] /\ (e \in Pubs => Addr[e] \in tried[s])
      BY <1>1, <1>2, <2>2 DEF Note, Candidate, News, resultVars
    <3> QED BY <1>6, <1>7, <3>1
  <2> QED BY <2>1, <2>2
<1>11. ASSUME s \notin direct
       PROVE  cids'[s] = UNION {Matches(s, seen'[s][m]) : m \in FirstPubs(seen'[s])}
  <2>1. cids[s] = UNION {Matches(s, q[m]) : m \in FirstPubs(q)}
    BY <1>11 DEF ResultInv, ResultExact, q
  <2>2. \A m \in FirstPubs(q) : Matches(s, seen'[s][m]) = Matches(s, q[m])
    BY <1>6, <1>9 DEF Matches
  <2>3. CASE News(s, e)
    <3>1. cids'[s] = cids[s] \cup Matches(s, e)
      BY <1>1, <1>2, <2>3 DEF Note, Candidate
    <3>2. Matches(s, seen'[s][Len(q) + 1]) = Matches(s, e)
      BY <1>6
    <3> QED BY <1>8, <2>1, <2>2, <2>3, <3>1, <3>2
  <2>4. CASE ~News(s, e)
    <3>1. cids'[s] = cids[s]
      BY <1>1, <1>2, <2>4 DEF Note, Candidate, resultVars
    <3> QED BY <1>8, <2>1, <2>2, <2>4, <3>1
  <2> QED BY <2>3, <2>4
<1>12. TriedInv'
  BY <1>4, <1>10 DEF ResultInv, TriedInv
<1>13. ResultExact'
  <2> SUFFICES ASSUME NEW t \in Retrievals \ direct
               PROVE  cids'[t] = UNION {Matches(t, seen'[t][m]) : m \in FirstPubs(seen'[t])}
    BY <1>3 DEF ResultExact, Matches, FirstPubs
  <2>1. cids[t] = UNION {Matches(t, seen[t][m]) : m \in FirstPubs(seen[t])}
    BY DEF ResultInv, ResultExact
  <2> QED BY <1>4, <1>11, <2>1
<1> QED BY <1>12, <1>13 DEF ResultInv

LEMMA ResultStep == IInv /\ ResultInv /\ [Next]_vars => ResultInv'
<1> SUFFICES ASSUME IInv, ResultInv, [Next]_vars PROVE ResultInv'
  OBVIOUS
<1> USE DEF hubVars, joinVars, resultVars, histVars
<1>1. ASSUME NEW b \in Broadcasts, Hear(b) PROVE ResultInv'
  BY <1>1, ResultKept DEF Hear
<1>2. ASSUME NEW r \in Readers, Reader(r) PROVE ResultInv'
  BY <1>2, ResultKept DEF Reader, ReadRequest, PublishRequest
<1>3. ASSUME NEW s \in Subscribers, Subscribe(s) PROVE ResultInv'
  BY <1>3, ResultKept DEF Subscribe
<1>4. ASSUME NEW t \in Retrievals, RetrieveDataV2(t) PROVE ResultInv'
  <2>1. CASE ReturnDirect(t)
    <3>1. cids \in [Retrievals -> SUBSET Cids]
      BY DEF IInv, TypeOK
    <3>2. \A u \in Retrievals \ direct : cids'[u] = cids[u]
      BY <2>1, <3>1 DEF ReturnDirect
    <3> QED BY <2>1, <3>2, ResultKept DEF ReturnDirect
  <2>2. CASE Listen(t) \/ Stop(t) \/ MinutePasses(t)
    BY <2>2, ResultKept DEF Listen, Stop, MinutePasses
  <2> QED BY <1>4, <2>1, <2>2 DEF RetrieveDataV2
<1>5. CASE (\E s \in Seekers : GetCandidates(s)) \/ (\E s \in Streams : SubscribeToEvents(s))
  BY <1>5, ResultKept DEF GetCandidates, CandidateTaken, SeekOver, SubscribeToEvents, Sent,
                          SendFails
<1>6. ASSUME NEW j \in Joiners, JoinEvents(j) PROVE ResultInv'
  <2>1. CASE HubLock(j) \/ Release(j)
    BY <2>1, ResultKept DEF HubLock, Release
  <2>2. ASSUME NEW s \in Subscribers, Skip(j, s) PROVE ResultInv'
    BY <2>2, ResultKept DEF Skip
  <2>3. ASSUME NEW s \in Subscribers, s \notin Retrievals, Deliver(j, s) PROVE ResultInv'
    <3>1. /\ UNCHANGED <<direct, cids>>
          /\ seen' = [seen EXCEPT ![s] = Append(@, evt[j])]
          /\ tried' = tried \/ tried' = [tried EXCEPT ![s] = MarkAddr(s, evt[j])]
      BY <2>3 DEF Deliver, Note
    <3>2. \A t \in Retrievals : seen'[t] = seen[t] /\ tried'[t] = tried[t]
      BY <2>3, <3>1 DEF IInv, TypeOK, Subscribers
    <3> QED BY <3>1, <3>2, ResultKept
  <2>4. ASSUME NEW s \in Subscribers, Deliver(j, s) PROVE ResultInv'
    BY <2>3, <2>4, ResultDelivered DEF Subscribers
  <2> QED BY <1>6, <2>1, <2>2, <2>4 DEF JoinEvents
<1>7. CASE UNCHANGED vars
  BY <1>7, ResultKept DEF vars
<1> QED BY <1>1, <1>2, <1>3, <1>4, <1>5, <1>6, <1>7 DEF Next

(* A listening retrieval reports exactly the contracts of this node in the
   first broadcast of each address, whatever else passes through the hub and
   however many subscribers share it. *)
THEOREM RetrievalIsExact == Spec => []ResultExact
<1>1. Init => ResultInv
  <2> SUFFICES ASSUME Init, NEW t \in Retrievals
               PROVE  /\ tried[t] = {Addr[seen[t][m]] :
                                         m \in {k \in 1 .. Len(seen[t]) : seen[t][k] \in Pubs}}
                      /\ cids[t] = UNION {Matches(t, seen[t][m]) : m \in FirstPubs(seen[t])}
    BY DEF ResultInv, TriedInv, ResultExact
  <2>1. tried[t] = {} /\ cids[t] = {} /\ Len(seen[t]) = 0
    BY DEF Init, Subscribers
  <2>2. FirstPubs(seen[t]) = {}
    BY <2>1 DEF FirstPubs
  <2> QED BY <2>1, <2>2
<1>2. IInv /\ ResultInv /\ [Next]_vars => ResultInv'
  BY ResultStep
<1>3. ResultInv => ResultExact
  BY DEF ResultInv
<1> QED BY <1>1, <1>2, <1>3, IInvHolds, PTL DEF Spec
=============================================================================
