------------------------------ MODULE IpfsPin -------------------------------
(***************************************************************************)
(* How a custodian pins and unpins content: ipfs/ipfs_manager.go.          *)
(*                                                                         *)
(* A HostContent call makes sure that an ipfs daemon runs, pins the index  *)
(* file of the content and then every piece listed in it, with a shell     *)
(* pipeline  ipfs cat | while read line; do ipfs pin add $line; done.      *)
(* When the contract has expired, IpfsUnpinAll undoes it in the same way.  *)
(* The exit status of the pipeline is that of the last pin add: a failing  *)
(* cat and the pins before the last one do not count.                      *)
(*                                                                         *)
(* ipfs itself is external: a set of pinned cids, in which a cid is pinned *)
(* once however many contents need it; commands that may fail at any time; *)
(* and a daemon, needed for what is not pinned here yet, that may die.     *)
(***************************************************************************)
EXTENDS Integers, Sequences, FiniteSets

CONSTANTS
    Hosts,      \* HostContent calls, each with the contract that follows it
    Cids,
    Index,      \* Index[h]: cid of the index file of the content
    Pieces,     \* Pieces[h]: the lines of that file
    MaxLooks,   \* looks at the output of a daemon that was started: 30
    MaxDeaths   \* bound: times the daemon dies

ASSUME ContentAssumption ==
    /\ Index \in [Hosts -> Cids]
    /\ Pieces \in [Hosts -> Seq(Cids)]
    /\ MaxLooks \in Nat
    /\ MaxDeaths \in Nat

VARIABLES
    host,       \* host[h]: where HostContent, later IpfsUnpinAll, of h is
    out,        \* out[h]: what the daemon that h has started has printed
    looks,      \* looks[h]: times that h has looked at it
    daemon,     \* the ipfs daemon
    deaths,     \* times it has died
    lines,      \* lines[h]: lines the last cat of h has delivered
    line,       \* line[h]: the line its loop is at
    status,     \* status[h]: exit status of the last command in the loop
    pinned,     \* cids pinned in the local ipfs node
    missed,     \* history: lines of h whose pin add has failed
    added,      \* history: cids that HostContent of h has pinned
    kept        \* history: cids that IpfsUnpinAll of h has left pinned

daemonVars == <<out, looks, daemon, deaths>>
loopVars == <<lines, line, status>>
vars == <<host, daemonVars, loopVars, pinned, missed, added, kept>>

Starting == {"new", "spawn", "await"}
Pinning == {"index", "cat", "pin"}
Unpinning == {"ucat", "unpin", "uindex"}
HostStates == Starting \cup Pinning \cup Unpinning \cup {"hosted", "failed", "gone"}

Lines(h) == 1 .. Len(Pieces[h])
Needs(h) == {Index[h]} \cup {Pieces[h][i] : i \in Lines(h)}

Init ==
    /\ host = [h \in Hosts |-> "new"]
    /\ out = [h \in Hosts |-> "nothing"]
    /\ looks = [h \in Hosts |-> 0]
    /\ daemon \in {"off", "ready"}
    /\ deaths = 0
    /\ lines = [h \in Hosts |-> 0]
    /\ line = [h \in Hosts |-> 1]
    /\ status = [h \in Hosts |-> TRUE]
    /\ pinned = {}
    /\ missed = [h \in Hosts |-> {}]
    /\ added = [h \in Hosts |-> {}]
    /\ kept = [h \in Hosts |-> {}]

Goto(h, s) == host' = [host EXCEPT ![h] = s]

-----------------------------------------------------------------------------
(* startIpfsDaemon. *)

(* What pidof ipfs takes for a daemon: one that is ready or not, or any other
   ipfs command; between two commands of a loop none runs. *)
IpfsMayRun == daemon # "off" \/ \E g \in Hosts : host[g] \in Pinning \cup Unpinning

DaemonFound(h) ==
    /\ host[h] = "new"
    /\ IpfsMayRun
    /\ Goto(h, "index")
    /\ UNCHANGED <<daemonVars, loopVars, pinned, missed, added, kept>>

NoDaemon(h) ==
    /\ host[h] = "new"
    /\ daemon = "off"
    /\ Goto(h, "spawn")
    /\ UNCHANGED <<daemonVars, loopVars, pinned, missed, added, kept>>

(* nohup ipfs daemon; a second daemon finds the repository locked and exits. *)
StartDaemon(h) ==
    /\ host[h] = "spawn"
    /\ Goto(h, "await")
    /\ \/ /\ daemon = "off"
          /\ daemon' = "starting"
          /\ out' = [out EXCEPT ![h] = "banner"]
       \/ /\ daemon # "off"
          /\ UNCHANGED <<daemon, out>>
    /\ UNCHANGED <<looks, deaths, loopVars, pinned, missed, added, kept>>

(* bash cannot be started. *)
StartFails(h) ==
    /\ host[h] = "spawn"
    /\ Goto(h, "failed")
    /\ UNCHANGED <<daemonVars, loopVars, pinned, missed, added, kept>>

(* At one of the looks the last row of the output is "Daemon is ready", ... *)
AwaitDone(h) ==
    /\ host[h] = "await"
    /\ looks[h] < MaxLooks
    /\ out[h] = "ready"
    /\ Goto(h, "index")
    /\ UNCHANGED <<daemonVars, loopVars, pinned, missed, added, kept>>

\* Mutant of AwaitLook: the looks are not counted.
AwaitOn(h) ==
    /\ host[h] = "await"
    /\ looks[h] < MaxLooks
    /\ UNCHANGED vars

(* ... or it is not: not yet, no longer, or not in what the look, racing with
   the goroutine that copies the output, can see of it; ... *)
AwaitLook(h) ==
    /\ host[h] = "await"
    /\ looks[h] < MaxLooks
    /\ looks' = [looks EXCEPT ![h] = @ + 1]
    /\ UNCHANGED <<host, out, daemon, deaths, loopVars, pinned, missed, added, kept>>

(* ... after the last look the call gives up. *)
AwaitFails(h) ==
    /\ host[h] = "await"
    /\ looks[h] = MaxLooks
    /\ Goto(h, "failed")
    /\ UNCHANGED <<daemonVars, loopVars, pinned, missed, added, kept>>

DaemonReady ==
    /\ daemon = "starting"
    /\ daemon' = "ready"
    /\ out' = [h \in Hosts |-> IF out[h] = "banner" THEN "ready" ELSE out[h]]
    /\ UNCHANGED <<host, looks, deaths, loopVars, pinned, missed, added, kept>>

DaemonDies ==
    /\ daemon # "off"
    /\ deaths < MaxDeaths
    /\ daemon' = "off"
    /\ deaths' = deaths + 1
    /\ out' = [h \in Hosts |-> IF out[h] = "banner" THEN "nothing" ELSE out[h]]
    /\ UNCHANGED <<host, looks, loopVars, pinned, missed, added, kept>>

-----------------------------------------------------------------------------
(* ipfsPinAll. *)

(* The blocks of a cid can be read. *)
Reachable(c) == daemon = "ready" \/ c \in pinned

PinIndex(h) ==
    /\ host[h] = "index"
    /\ Reachable(Index[h])
    /\ pinned' = pinned \cup {Index[h]}
    /\ added' = [added EXCEPT ![h] = @ \cup {Index[h]}]
    /\ Goto(h, "cat")
    /\ UNCHANGED <<daemonVars, loopVars, missed, kept>>

\* Mutant of PinIndexFails: the error is ignored.
PinIndexIgnored(h) ==
    /\ host[h] = "index"
    /\ Goto(h, "cat")
    /\ UNCHANGED <<daemonVars, loopVars, pinned, missed, added, kept>>

PinIndexFails(h) ==
    /\ host[h] = "index"
    /\ Goto(h, "failed")
    /\ UNCHANGED <<daemonVars, loopVars, pinned, missed, added, kept>>

\* Mutant of CatInto: the end of the file counts as a line.
CatBlankInto(h, next) ==
    /\ lines' = [lines EXCEPT ![h] = Len(Pieces[h]) + 1]
    /\ Goto(h, next)

(* ipfs cat delivers the lines of the index file, or fewer if it fails; the
   loop begins. *)
CatInto(h, next) ==
    /\ lines' = [lines EXCEPT ![h] = Len(Pieces[h])]
    /\ Goto(h, next)

CutInto(h, n, next) ==
    /\ n < Len(Pieces[h])
    /\ lines' = [lines EXCEPT ![h] = n]
    /\ Goto(h, next)

Cat(h) ==
    /\ host[h] = "cat"
    /\ \/ Reachable(Index[h]) /\ CatInto(h, "pin")
       \/ \E n \in 0 .. Len(Pieces[h]) : CutInto(h, n, "pin")
    /\ line' = [line EXCEPT ![h] = 1]
    /\ status' = [status EXCEPT ![h] = TRUE]
    /\ UNCHANGED <<daemonVars, pinned, missed, added, kept>>

AtLine(h, s) ==
    /\ host[h] = s
    /\ line[h] <= lines[h]
    /\ line' = [line EXCEPT ![h] = @ + 1]

This(h) == Pieces[h][line[h]]

PinLine(h) ==
    /\ AtLine(h, "pin")
    /\ Reachable(This(h))
    /\ pinned' = pinned \cup {This(h)}
    /\ added' = [added EXCEPT ![h] = @ \cup {This(h)}]
    /\ status' = [status EXCEPT ![h] = TRUE]
    /\ UNCHANGED <<host, daemonVars, lines, missed, kept>>

PinLineFails(h) ==
    /\ AtLine(h, "pin")
    /\ status' = [status EXCEPT ![h] = FALSE]
    /\ missed' = [missed EXCEPT ![h] = @ \cup {line[h]}]
    /\ UNCHANGED <<host, daemonVars, lines, pinned, added, kept>>

(* executeCommand looks at the exit status of the loop. *)
PinEnd(h) ==
    /\ host[h] = "pin"
    /\ line[h] > lines[h]
    /\ Goto(h, IF status[h] THEN "hosted" ELSE "failed")
    /\ UNCHANGED <<daemonVars, loopVars, pinned, missed, added, kept>>

-----------------------------------------------------------------------------
(* IpfsUnpinAll, once the contract has expired; errors are only logged. *)

Expire(h) ==
    /\ host[h] = "hosted"
    /\ Goto(h, "ucat")
    /\ UNCHANGED <<daemonVars, loopVars, pinned, missed, added, kept>>

UnpinCat(h) ==
    /\ host[h] = "ucat"
    /\ \/ /\ Reachable(Index[h])
          /\ CatInto(h, "unpin")
          /\ UNCHANGED kept
       \/ \E n \in 0 .. Len(Pieces[h]) :
             /\ CutInto(h, n, "unpin")
             /\ kept' = [kept EXCEPT ![h] = @ \cup {Pieces[h][i] : i \in n+1 .. Len(Pieces[h])}]
    /\ line' = [line EXCEPT ![h] = 1]
    /\ UNCHANGED <<daemonVars, status, pinned, missed, added>>

UnpinLine(h) ==
    /\ AtLine(h, "unpin")
    /\ pinned' = pinned \ {This(h)}
    /\ UNCHANGED <<host, daemonVars, lines, status, missed, added, kept>>

UnpinLineFails(h) ==
    /\ AtLine(h, "unpin")
    /\ kept' = [kept EXCEPT ![h] = @ \cup {This(h)}]
    /\ UNCHANGED <<host, daemonVars, lines, status, pinned, missed, added>>

\* Mutant of UnpinEnd: the last line is left out.
UnpinEndEarly(h) ==
    /\ host[h] = "unpin"
    /\ line[h] >= lines[h]
    /\ Goto(h, "uindex")
    /\ UNCHANGED <<daemonVars, loopVars, pinned, missed, added, kept>>

UnpinEnd(h) ==
    /\ host[h] = "unpin"
    /\ line[h] > lines[h]
    /\ Goto(h, "uindex")
    /\ UNCHANGED <<daemonVars, loopVars, pinned, missed, added, kept>>

UnpinIndex(h) ==
    /\ host[h] = "uindex"
    /\ pinned' = pinned \ {Index[h]}
    /\ Goto(h, "gone")
    /\ UNCHANGED <<daemonVars, loopVars, missed, added, kept>>

UnpinIndexFails(h) ==
    /\ host[h] = "uindex"
    /\ kept' = [kept EXCEPT ![h] = @ \cup {Index[h]}]
    /\ Goto(h, "gone")
    /\ UNCHANGED <<daemonVars, loopVars, pinned, missed, added>>

-----------------------------------------------------------------------------
startIpfsDaemon(h) ==
    \/ DaemonFound(h) \/ NoDaemon(h)
    \/ StartDaemon(h) \/ StartFails(h)
    \/ AwaitDone(h) \/ AwaitLook(h) \/ AwaitFails(h)

ipfsPinAll(h) ==
    PinIndex(h) \/ PinIndexFails(h) \/ Cat(h) \/ PinLine(h) \/ PinLineFails(h) \/ PinEnd(h)

HostContent(h) == startIpfsDaemon(h) \/ ipfsPinAll(h)

IpfsUnpinAll(h) ==
    \/ UnpinCat(h) \/ UnpinLine(h) \/ UnpinLineFails(h) \/ UnpinEnd(h)
    \/ UnpinIndex(h) \/ UnpinIndexFails(h)

Next ==
    \/ \E h \in Hosts : HostContent(h) \/ Expire(h) \/ IpfsUnpinAll(h)
    \/ DaemonReady
    \/ DaemonDies

Spec == Init /\ [][Next]_vars

(* Between the commands a call goes on.  Nothing obliges ipfs to answer:
   executeCommand waits for its command without a timeout.  Nor need calls
   come, contracts expire or a daemon live. *)
Fairness ==
    \A h \in Hosts :
        /\ WF_vars(host[h] # "new" /\ startIpfsDaemon(h))
        /\ WF_vars(PinEnd(h))

FairSpec == Spec /\ Fairness

-----------------------------------------------------------------------------
(* Properties. *)

(* Type invariant: a loop stays within the lines that were read. *)
TypeOK ==
    /\ host \in [Hosts -> HostStates]
    /\ out \in [Hosts -> {"nothing", "banner", "ready"}]
    /\ looks \in [Hosts -> 0 .. MaxLooks]
    /\ daemon \in {"off", "starting", "ready"}
    /\ deaths \in 0 .. MaxDeaths
    /\ lines \in [Hosts -> Nat]
    /\ line \in [Hosts -> Nat \ {0}]
    /\ status \in [Hosts -> BOOLEAN]
    /\ pinned \subseteq Cids
    /\ missed \in [Hosts -> SUBSET (Nat \ {0})]
    /\ added \in [Hosts -> SUBSET Cids]
    /\ kept \in [Hosts -> SUBSET Cids]
    /\ \A h \in Hosts : lines[h] <= Len(Pieces[h]) /\ line[h] <= lines[h] + 1

(* Another content that needs c has been, or is being, unpinned. *)
UnpinnedByOther(h, c) ==
    \E g \in Hosts \ {h} : c \in Needs(g) /\ host[g] \in {"unpin", "uindex", "gone"}

(* What HostContent's success is worth: of content that counts as hosted the
   index file is pinned, and a piece is missing only if cat has not delivered
   its line, or its pin add has failed and another line came after it, or an
   expired contract had content in common and took the pin away. *)
MissingExplained ==
    \A h \in Hosts : host[h] = "hosted" =>
        /\ Index[h] \in pinned \/ UnpinnedByOther(h, Index[h])
        /\ \A i \in Lines(h) :
              \/ Pieces[h][i] \in pinned
              \/ UnpinnedByOther(h, Pieces[h][i])
              \/ i > lines[h]
              \/ i \in missed[h] /\ i < lines[h]

(* What can take up disk space: a pin made by a HostContent call whose content
   is being hosted, is hosted or is being unpinned; one that IpfsUnpinAll has
   left, because its pin rm failed or cat did not deliver its line; and, for
   ever, every pin of a call that failed later (ipfs_manager.go:265-268), for
   nothing unpins the content of a contract that was never made. *)
PinsOwned ==
    \A c \in pinned : \E h \in Hosts :
        /\ c \in added[h]
        /\ \/ host[h] \in Pinning \cup Unpinning \cup {"hosted"}
           \/ host[h] = "gone" /\ c \in kept[h]
           \/ host[h] = "failed"

(* An ipfs command of HostContent of h is running. *)
InCommand(h) ==
    \/ host[h] \in {"index", "cat"}
    \/ host[h] = "pin" /\ line[h] <= lines[h]

(* A HostContent call that has found no daemon returns, although calls start
   daemons against each other, daemons die and some never get ready; what can
   keep it for ever is an ipfs command that does not end. *)
HostReturns ==
    \A h \in Hosts :
        \/ host[h] = "spawn" ~> host[h] \in {"hosted", "failed"}
        \/ <>[]InCommand(h)

-----------------------------------------------------------------------------
(* The inductive strengthenings behind MissingExplained and PinsOwned. *)

Safe(h, c) == c \in pinned \/ UnpinnedByOther(h, c)

(* While the pieces are pinned, the lines passed are safe or missed, and the
   status tells whether the last of them was missed. *)
ProgressInv ==
    \A h \in Hosts :
        /\ host[h] \in Starting \cup {"index", "cat"} => missed[h] = {}
        /\ host[h] \in {"cat", "pin"} => Safe(h, Index[h])
        /\ host[h] = "pin" =>
              /\ \A i \in Lines(h) : i < line[h] => Safe(h, Pieces[h][i]) \/ i \in missed[h]
              /\ status[h] <=> line[h] - 1 \notin missed[h]
              /\ \A i \in missed[h] : i < line[h]

(* Call h still answers for a pin of c: it has not yet come to unpin it, or
   has failed to. *)
Holds(h, c) ==
    /\ c \in added[h]
    /\ host[h] = "unpin" =>
          \/ c \in kept[h] \cup {Index[h]}
          \/ \E i \in Lines(h) : line[h] <= i /\ c = Pieces[h][i]
    /\ host[h] = "uindex" => c \in kept[h] \cup {Index[h]}
    /\ host[h] = "gone" => c \in kept[h]

HoldInv ==
    /\ \A h \in Hosts : added[h] \subseteq Needs(h)
    /\ \A h \in Hosts : host[h] \in Starting => added[h] = {}
    /\ \A c \in pinned : \E h \in Hosts : Holds(h, c)
    /\ \A h \in Hosts : host[h] = "unpin" =>
          \A i \in Lines(h) : lines[h] < i => Pieces[h][i] \in kept[h]

IInv == TypeOK /\ ProgressInv /\ MissingExplained /\ HoldInv
=============================================================================
