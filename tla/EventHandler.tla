---------------------------- MODULE EventHandler ----------------------------
(***************************************************************************)
(* One subscription of events/event_handler.go: a publisher and a          *)
(* subscriber joined by two unbuffered Go channels, c for events and doneC *)
(* for the subscriber's wish to close.  Any number of goroutines may be    *)
(* inside Publish (the Connector's publisher is shared by every Send and   *)
(* every reader); one goroutine calls Next and, at last, Close; one runs   *)
(* handleClose.                                                            *)
(*                                                                         *)
(* Channels follow the Go specification: a send on an unbuffered channel   *)
(* meets a receiver, close wakes everyone waiting, a send on a closed      *)
(* channel panics, and a select with several ready cases takes any one.    *)
(***************************************************************************)
EXTENDS Integers, Sequences, FiniteSets, Functions

CONSTANT Publishes     \* calls of Publish; a call stands for its event

VARIABLES
    pub,        \* pub[p]: where call p is
    sub,        \* where the subscriber's goroutine is
    received,   \* events that Next has returned, in order
    doneC,      \* TRUE: doneC is closed
    handler,    \* where handleClose is
    closed,     \* publisher.closed, and c is closed
    panicked    \* the process has died of a send on a closed channel

vars == <<pub, sub, received, doneC, handler, closed, panicked>>

PublishStates == {"new", "select", "blocked", "ok", "err"}
Blocked == {p \in Publishes : pub[p] = "blocked"}

(* NewSubscription. *)
Init ==
    /\ pub = [p \in Publishes |-> "new"]
    /\ sub = "busy"
    /\ received = <<>>
    /\ doneC = FALSE
    /\ handler = "wait"
    /\ closed = FALSE
    /\ panicked = FALSE

-----------------------------------------------------------------------------
(* Publish. *)

Become(p, s) == pub' = [pub EXCEPT ![p] = s]

\* Mutant of CheckClosed: Closed() is not asked.
CheckSkipped(p) ==
    /\ pub[p] = "new"
    /\ Become(p, "select")
    /\ UNCHANGED <<sub, received, doneC, handler, closed, panicked>>

(* The check of Closed(). *)
CheckClosed(p) ==
    /\ pub[p] = "new"
    /\ Become(p, IF closed THEN "err" ELSE "select")
    /\ UNCHANGED <<sub, received, doneC, handler, closed, panicked>>

(* The select: a waiting Next takes the event ... *)
SelectSend(p) ==
    /\ pub[p] = "select"
    /\ sub = "next"
    /\ Become(p, "ok")
    /\ received' = Append(received, p)
    /\ sub' = "busy"
    /\ UNCHANGED <<doneC, handler, closed, panicked>>

\* Mutant of SelectDone: a lost event is reported as delivered.
SelectDoneOk(p) ==
    /\ pub[p] = "select"
    /\ doneC
    /\ Become(p, "ok")
    /\ UNCHANGED <<sub, received, doneC, handler, closed, panicked>>

(* ... or doneC is closed ... *)
SelectDone(p) ==
    /\ pub[p] = "select"
    /\ doneC
    /\ Become(p, "err")
    /\ UNCHANGED <<sub, received, doneC, handler, closed, panicked>>

(* ... or Close is about to send on doneC, and this Publish receives that ... *)
SelectToken(p) ==
    /\ pub[p] = "select"
    /\ sub = "closing"
    /\ Become(p, "err")
    /\ sub' = "signalled"
    /\ UNCHANGED <<received, doneC, handler, closed, panicked>>

(* ... or c is closed: the send panics ... *)
SelectPanic(p) ==
    /\ pub[p] = "select"
    /\ closed
    /\ panicked' = TRUE
    /\ UNCHANGED <<pub, sub, received, doneC, handler, closed>>

(* ... or nothing is ready: it blocks on both channels. *)
SelectBlock(p) ==
    /\ pub[p] = "select"
    /\ sub \notin {"next", "closing"}
    /\ ~doneC
    /\ ~closed
    /\ Become(p, "blocked")
    /\ UNCHANGED <<sub, received, doneC, handler, closed, panicked>>

-----------------------------------------------------------------------------
(* The subscriber. *)

(* Next takes the event of a blocked Publish, or waits for one. *)
NextTake(p) ==
    /\ sub = "busy"
    /\ pub[p] = "blocked"
    /\ Become(p, "ok")
    /\ received' = Append(received, p)
    /\ UNCHANGED <<sub, doneC, handler, closed, panicked>>

NextWait ==
    /\ sub = "busy"
    /\ Blocked = {}
    /\ sub' = "next"
    /\ UNCHANGED <<pub, received, doneC, handler, closed, panicked>>

(* Close sends on doneC.  Whoever waits there may receive it: handleClose or
   a blocked Publish. *)
CloseCall ==
    /\ sub = "busy"
    /\ sub' = "closing"
    /\ UNCHANGED <<pub, received, doneC, handler, closed, panicked>>

\* Mutant of CloseSignalsHandler: the signal needs a handler that has one already.
CloseSignalsLate ==
    /\ sub = "closing"
    /\ handler = "got"
    /\ sub' = "signalled"
    /\ UNCHANGED <<pub, received, doneC, handler, closed, panicked>>

CloseSignalsHandler ==
    /\ sub = "closing"
    /\ handler = "wait"
    /\ sub' = "signalled"
    /\ handler' = "got"
    /\ UNCHANGED <<pub, received, doneC, closed, panicked>>

CloseSignalsPublish(p) ==
    /\ sub = "closing"
    /\ pub[p] = "blocked"
    /\ sub' = "signalled"
    /\ Become(p, "err")
    /\ UNCHANGED <<received, doneC, handler, closed, panicked>>

\* Mutant of ReleaseAll: blocked calls are not woken.
ReleaseNone == pub

(* close(doneC) wakes every blocked Publish, and handleClose if it waits. *)
ReleaseAll == [p \in Publishes |-> IF pub[p] = "blocked" THEN "err" ELSE pub[p]]

CloseDone ==
    /\ sub = "signalled"
    /\ sub' = "closed"
    /\ doneC' = TRUE
    /\ pub' = ReleaseAll
    /\ handler' = IF handler = "wait" THEN "got" ELSE handler
    /\ UNCHANGED <<received, closed, panicked>>

-----------------------------------------------------------------------------
(* handleClose: closed = true and close(c), which panics blocked senders. *)
HandleClose ==
    /\ handler = "got"
    /\ handler' = "end"
    /\ closed' = TRUE
    /\ panicked' = (Blocked # {})
    /\ UNCHANGED <<pub, sub, received, doneC>>

-----------------------------------------------------------------------------
Publish(p) ==
    \/ CheckClosed(p)
    \/ SelectSend(p) \/ SelectDone(p) \/ SelectToken(p)
    \/ SelectPanic(p) \/ SelectBlock(p)

Close ==
    \/ CloseCall \/ CloseSignalsHandler
    \/ \E p \in Publishes : CloseSignalsPublish(p)
    \/ CloseDone

(* A panic ends the process. *)
Next ==
    /\ ~panicked
    /\ \/ \E p \in Publishes : Publish(p) \/ NextTake(p)
       \/ NextWait
       \/ Close
       \/ HandleClose

Spec == Init /\ [][Next]_vars

(* Goroutines inside Publish, Close and handleClose run; nothing obliges
   anyone to call Publish, Next or Close. *)
Fairness ==
    /\ \A p \in Publishes : WF_vars(~panicked /\ pub[p] # "new" /\ Publish(p))
    /\ WF_vars(~panicked /\ Close /\ sub # "busy")
    /\ WF_vars(~panicked /\ HandleClose)

FairSpec == Spec /\ Fairness

-----------------------------------------------------------------------------
(* Properties. *)

(* Type invariant. *)
TypeOK ==
    /\ pub \in [Publishes -> PublishStates]
    /\ sub \in {"busy", "next", "closing", "signalled", "closed"}
    /\ received \in Seq(Publishes)
    /\ doneC \in BOOLEAN
    /\ handler \in {"wait", "got", "end"}
    /\ closed \in BOOLEAN
    /\ panicked \in BOOLEAN

(* Publish returns nil exactly for the events Next has returned, and none is
   returned twice: an error of Publish means the event is lost, not late. *)
OkMeansDelivered ==
    /\ \A p \in Publishes : pub[p] = "ok" <=> p \in Range(received)
    /\ \A i, k \in DOMAIN received : received[i] = received[k] => i = k

(* A Publish never blocks on a subscription that nobody will read again: when
   Close has returned, no call is left blocked. *)
NoneBlockedAfterClose == sub = "closed" => Blocked = {}

(* The subscription is closed and no Publish is under way. *)
Quiet == closed /\ ~panicked /\ \A p \in Publishes : pub[p] \notin {"select", "blocked"}

(* "so the owner of the sub.c can stop sending new events": a Publish that has
   checked Closed() before handleClose ran may still send on the closed channel
   and crash the node.  That danger ends: once the subscription is closed and
   the calls under way have returned, no later Publish crashes the node. *)
QuietCloseIsSafe == [](Quiet => []~panicked)

(* A Close that has begun returns, whoever takes its signal. *)
CloseReturns == sub = "closing" ~> (sub = "closed" \/ panicked)
=============================================================================
