------------------------ MODULE EventHandler_proofs ------------------------
(***************************************************************************)
(* Proofs about EventHandler, for any number of concurrent Publish calls.  *)
(***************************************************************************)
EXTENDS EventHandler, SequenceTheorems, TLAPS

(* Close returns with doneC closed, and nobody blocks on a closed doneC. *)
DoneInv == sub = "closed" => doneC /\ Blocked = {}

LEMMA TypeStep == TypeOK /\ [Next]_vars => TypeOK'
<1> SUFFICES ASSUME TypeOK, [Next]_vars PROVE TypeOK'
  OBVIOUS
<1> USE DEF TypeOK, PublishStates, Become
<1>1. ASSUME NEW p \in Publishes, Publish(p) \/ NextTake(p) PROVE TypeOK'
  <2>1. Append(received, p) \in Seq(Publishes)
    BY AppendProperties
  <2>2. CASE CheckClosed(p)
    BY <2>2 DEF CheckClosed
  <2>3. CASE SelectSend(p)
    BY <2>1, <2>3 DEF SelectSend
  <2>4. CASE SelectDone(p) \/ SelectToken(p) \/ SelectPanic(p) \/ SelectBlock(p)
    BY <2>4 DEF SelectDone, SelectToken, SelectPanic, SelectBlock
  <2>5. CASE NextTake(p)
    BY <2>1, <2>5 DEF NextTake
  <2> QED BY <1>1, <2>2, <2>3, <2>4, <2>5 DEF Publish
<1>2. CASE NextWait
  BY <1>2 DEF NextWait
<1>3. CASE Close
  BY <1>3 DEF Close, CloseCall, CloseSignalsHandler, CloseSignalsPublish, CloseDone, ReleaseAll
<1>4. CASE HandleClose
  BY <1>4 DEF HandleClose
<1>5. CASE UNCHANGED vars
  BY <1>5 DEF vars
<1> QED BY <1>1, <1>2, <1>3, <1>4, <1>5 DEF Next

LEMMA TypeInit == Init => TypeOK
<1> SUFFICES ASSUME Init PROVE TypeOK
  OBVIOUS
<1>1. received \in Seq(Publishes)
  BY EmptySeq DEF Init
<1>2. pub \in [Publishes -> PublishStates]
  BY DEF Init, PublishStates
<1> QED BY <1>1, <1>2 DEF Init, TypeOK

(* The fields of a subscription keep their types, under any interleaving of
   Publish, Next, Close and handleClose. *)
THEOREM TypeCorrect == Spec => []TypeOK
BY TypeInit, TypeStep, PTL DEF Spec

-----------------------------------------------------------------------------
(* What one delivery does. *)
LEMMA Delivery ==
    ASSUME TypeOK, OkMeansDelivered, NEW p \in Publishes, pub[p] # "ok",
           pub' = [pub EXCEPT ![p] = "ok"], received' = Append(received, p)
    PROVE  OkMeansDelivered'
<1>1. received \in Seq(Publishes) /\ pub \in [Publishes -> PublishStates]
  BY DEF TypeOK
<1>2. Len(received) \in Nat /\ DOMAIN received = 1 .. Len(received)
  BY <1>1, LenProperties
<1>3. /\ received' \in Seq(Publishes)
      /\ Len(received') = Len(received) + 1
      /\ \A i \in 1 .. Len(received) : received'[i] = received[i]
      /\ received'[Len(received) + 1] = p
  BY <1>1, AppendProperties
<1>4. DOMAIN received' = 1 .. Len(received) + 1
  BY <1>3, LenProperties
<1>5. Range(received') = Range(received) \cup {p}
  BY <1>2, <1>3, <1>4 DEF Range
<1>6. p \notin Range(received)
  BY DEF OkMeansDelivered
<1>7. \A q \in Publishes : pub'[q] = "ok" <=> q \in Range(received')
  BY <1>1, <1>5 DEF OkMeansDelivered
<1>8. \A i, k \in DOMAIN received' : received'[i] = received'[k] => i = k
  <2> SUFFICES ASSUME NEW i \in 1 .. Len(received) + 1, NEW k \in 1 .. Len(received) + 1,
                      received'[i] = received'[k]
               PROVE  i = k
    BY <1>4
  <2>1. \A m \in 1 .. Len(received) : received[m] # p
    BY <1>2, <1>6 DEF Range
  <2>2. \A m \in 1 .. Len(received) + 1 : m \in 1 .. Len(received) \/ m = Len(received) + 1
    BY <1>2
  <2> QED BY <1>2, <1>3, <2>1, <2>2 DEF OkMeansDelivered
<1> QED BY <1>7, <1>8 DEF OkMeansDelivered

LEMMA DeliveredStep == TypeOK /\ OkMeansDelivered /\ [Next]_vars => OkMeansDelivered'
<1> SUFFICES ASSUME TypeOK, OkMeansDelivered, [Next]_vars PROVE OkMeansDelivered'
  OBVIOUS
<1>0. pub \in [Publishes -> PublishStates]
  BY DEF TypeOK
<1>a. ASSUME received' = received, pub' \in [Publishes -> PublishStates],
             \A p \in Publishes : pub'[p] = "ok" <=> pub[p] = "ok"
      PROVE  OkMeansDelivered'
  BY <1>a DEF OkMeansDelivered
<1>1. ASSUME NEW p \in Publishes, SelectSend(p) \/ NextTake(p) PROVE OkMeansDelivered'
  BY <1>1, Delivery DEF SelectSend, NextTake, Become
<1>2. ASSUME NEW p \in Publishes, Publish(p), ~SelectSend(p) PROVE OkMeansDelivered'
  <2>1. TypeOK'
    BY TypeStep
  <2>2. received' = received /\ \A q \in Publishes : pub'[q] = "ok" <=> pub[q] = "ok"
    BY <1>0, <1>2 DEF Publish, CheckClosed, SelectDone, SelectToken, SelectPanic,
       SelectBlock, Become
  <2> QED BY <1>a, <2>1, <2>2 DEF TypeOK
<1>3. CASE NextWait \/ Close \/ HandleClose \/ UNCHANGED vars
  <2>1. TypeOK'
    BY TypeStep
  <2>2. received' = received /\ \A q \in Publishes : pub'[q] = "ok" <=> pub[q] = "ok"
    BY <1>0, <1>3 DEF NextWait, Close, CloseCall, CloseSignalsHandler,
       CloseSignalsPublish, CloseDone, ReleaseAll, HandleClose, Become, vars
  <2> QED BY <1>a, <2>1, <2>2 DEF TypeOK
<1> QED BY <1>1, <1>2, <1>3 DEF Next

(* Publish returns nil exactly for the events delivered by Next, each of which
   is delivered once, also while the subscription is being closed. *)
THEOREM PublishIsExact == Spec => []OkMeansDelivered
<1>1. Init => OkMeansDelivered
  BY DEF Init, OkMeansDelivered, Range
<1> QED BY TypeCorrect, <1>1, DeliveredStep, PTL DEF Spec

-----------------------------------------------------------------------------
(* When Close has returned, no Publish is left blocked on the subscription. *)
THEOREM CloseUnblocks == Spec => []NoneBlockedAfterClose
<1> USE DEF DoneInv, Blocked, Become
<1>1. Init => DoneInv
  BY DEF Init
<1>2. TypeOK /\ DoneInv /\ [Next]_vars => DoneInv'
  <2> SUFFICES ASSUME TypeOK, DoneInv, [Next]_vars PROVE DoneInv'
    OBVIOUS
  <2>0. pub \in [Publishes -> PublishStates]
    BY DEF TypeOK
  <2>1. ASSUME NEW p \in Publishes, Publish(p) PROVE DoneInv'
    BY <2>0, <2>1 DEF Publish, CheckClosed, SelectSend, SelectDone, SelectToken,
       SelectPanic, SelectBlock
  <2>2. ASSUME NEW p \in Publishes, NextTake(p) PROVE DoneInv'
    BY <2>0, <2>2 DEF NextTake
  <2>3. CASE NextWait \/ HandleClose
    BY <2>3 DEF NextWait, HandleClose
  <2>4. CASE Close
    BY <2>0, <2>4 DEF Close, CloseCall, CloseSignalsHandler, CloseSignalsPublish,
       CloseDone, ReleaseAll
  <2>5. CASE UNCHANGED vars
    BY <2>5 DEF vars
  <2> QED BY <2>1, <2>2, <2>3, <2>4, <2>5 DEF Next
<1>3. DoneInv => NoneBlockedAfterClose
  BY DEF NoneBlockedAfterClose
<1> QED BY TypeCorrect, <1>1, <1>2, <1>3, PTL DEF Spec

-----------------------------------------------------------------------------
(* Once the subscription is closed and the calls of Publish under way have
   returned, no later call crashes the node, however many there are. *)
THEOREM PanicNeedsOverlap == Spec => QuietCloseIsSafe
<1>1. TypeOK /\ Quiet /\ [Next]_vars => Quiet'
  <2> SUFFICES ASSUME TypeOK, Quiet, [Next]_vars PROVE Quiet'
    OBVIOUS
  <2> USE DEF Quiet, Become
  <2>0. pub \in [Publishes -> PublishStates]
    BY DEF TypeOK
  <2>1. ASSUME NEW p \in Publishes, Publish(p) PROVE Quiet'
    <3>1. CheckClosed(p)
      BY <2>1 DEF Publish, SelectSend, SelectDone, SelectToken, SelectPanic, SelectBlock
    <3>2. closed' = closed /\ panicked' = panicked
      BY <3>1 DEF CheckClosed
    <3>3. pub' = [pub EXCEPT ![p] = "err"]
      BY <3>1 DEF CheckClosed
    <3>4. \A q \in Publishes : pub'[q] \notin {"select", "blocked"}
      BY <2>0, <3>3
    <3> QED BY <3>2, <3>4, Zenon
  <2>2. ASSUME NEW p \in Publishes, NextTake(p) PROVE Quiet'
    BY <2>2 DEF NextTake
  <2>3. CASE NextWait
    <3>1. UNCHANGED <<pub, closed, panicked>>
      BY <2>3 DEF NextWait
    <3> QED BY <3>1
  <2>4. CASE HandleClose
    <3>1. Blocked = {}
      BY DEF Blocked
    <3>2. pub' = pub /\ closed' = TRUE /\ panicked' = FALSE
      BY <2>4, <3>1 DEF HandleClose
    <3> QED BY <3>2
  <2>5. CASE Close
    <3>0. closed' = closed /\ panicked' = panicked
      BY <2>5 DEF Close, CloseCall, CloseSignalsHandler, CloseSignalsPublish, CloseDone
    <3>1. closed' /\ ~panicked'
      BY <3>0, Zenon
    <3>2. \A p \in Publishes : pub'[p] = pub[p]
      BY <2>0, <2>5 DEF Close, CloseCall, CloseSignalsHandler, CloseSignalsPublish,
         CloseDone, ReleaseAll
    <3> QED BY <3>1, <3>2
  <2>6. CASE UNCHANGED vars
    BY <2>6 DEF vars
  <2> QED BY <2>1, <2>2, <2>3, <2>4, <2>5, <2>6 DEF Next
<1>2. Quiet => ~panicked
  BY DEF Quiet
<1> QED BY TypeCorrect, <1>1, <1>2, PTL DEF Spec, QuietCloseIsSafe
=============================================================================
