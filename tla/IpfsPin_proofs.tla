--------------------------- MODULE IpfsPin_proofs ---------------------------
(***************************************************************************)
(* Proofs about IpfsPin, for any number of contents of any length, whether *)
(* they share pieces or not.                                               *)
(***************************************************************************)
EXTENDS IpfsPin, TLAPS

USE ContentAssumption

LEMMA LinesProperties ==
    ASSUME NEW h \in Hosts
    PROVE  /\ Len(Pieces[h]) \in Nat
           /\ \A i \in Lines(h) : i \in Nat \ {0} /\ i <= Len(Pieces[h]) /\ Pieces[h][i] \in Cids
           /\ \A i \in Nat \ {0} : i <= Len(Pieces[h]) => i \in Lines(h)
           /\ Index[h] \in Cids
BY DEF Lines

(* What the command in the loop works on. *)
LEMMA ThisProperties ==
    ASSUME TypeOK, NEW h \in Hosts, NEW s, AtLine(h, s)
    PROVE  /\ line[h] \in Lines(h)
           /\ This(h) = Pieces[h][line[h]]
           /\ This(h) \in Cids
           /\ This(h) \in Needs(h)
           /\ line' \in [Hosts -> Nat \ {0}]
           /\ line'[h] = line[h] + 1
           /\ line[h] <= lines[h]
           /\ \A g \in Hosts \ {h} : line'[g] = line[g]
           /\ \A g \in Hosts : line'[g] <= lines[g] + 1
BY LinesProperties DEF TypeOK, AtLine, This, Lines, Needs

(* What cat delivers. *)
LEMMA CatProperties ==
    ASSUME TypeOK, NEW h \in Hosts, NEW s,
           CatInto(h, s) \/ \E n \in 0 .. Len(Pieces[h]) : CutInto(h, n, s),
           line' = [line EXCEPT ![h] = 1]
    PROVE  /\ lines' \in [Hosts -> Nat]
           /\ line' \in [Hosts -> Nat \ {0}]
           /\ \A g \in Hosts : lines'[g] <= Len(Pieces[g]) /\ line'[g] <= lines'[g] + 1
           /\ \A g \in Hosts \ {h} : lines'[g] = lines[g] /\ line'[g] = line[g]
           /\ host' = [host EXCEPT ![h] = s]
           /\ line'[h] = 1
<1>1. PICK n \in Nat : n <= Len(Pieces[h]) /\ lines' = [lines EXCEPT ![h] = n]
  BY LinesProperties DEF CatInto, CutInto
<1>2. lines' \in [Hosts -> Nat] /\ lines'[h] = n /\ \A g \in Hosts \ {h} : lines'[g] = lines[g]
  BY <1>1 DEF TypeOK
<1>3. line' \in [Hosts -> Nat \ {0}] /\ line'[h] = 1 /\ \A g \in Hosts \ {h} : line'[g] = line[g]
  BY DEF TypeOK
<1>4. \A g \in Hosts : lines'[g] <= Len(Pieces[g]) /\ line'[g] <= lines'[g] + 1
  BY <1>1, <1>2, <1>3 DEF TypeOK
<1>5. host' = [host EXCEPT ![h] = s]
  BY DEF CatInto, CutInto, Goto
<1> QED BY <1>2, <1>3, <1>4, <1>5

-----------------------------------------------------------------------------
LEMMA TypeInit == Init => TypeOK
BY LinesProperties DEF Init, TypeOK, HostStates, Starting

LEMMA TypeStep == TypeOK /\ [Next]_vars => TypeOK'
<1> SUFFICES ASSUME TypeOK, [Next]_vars PROVE TypeOK'
  OBVIOUS
<1> USE DEF daemonVars, loopVars, HostStates, Starting, Pinning, Unpinning, Goto
<1>1. ASSUME NEW h \in Hosts, startIpfsDaemon(h) PROVE TypeOK'
  <2>1. CASE AwaitLook(h)
    <3>1. looks' \in [Hosts -> 0 .. MaxLooks]
      BY <2>1 DEF TypeOK, AwaitLook
    <3> QED BY <2>1, <3>1 DEF TypeOK, AwaitLook
  <2>2. CASE DaemonFound(h) \/ NoDaemon(h) \/ StartFails(h) \/ AwaitDone(h) \/ AwaitFails(h)
    BY <2>2 DEF TypeOK, DaemonFound, NoDaemon, StartFails, AwaitDone, AwaitFails
  <2>3. CASE StartDaemon(h)
    BY <2>3 DEF TypeOK, StartDaemon
  <2> QED BY <1>1, <2>1, <2>2, <2>3 DEF startIpfsDaemon
<1>2. ASSUME NEW h \in Hosts, ipfsPinAll(h) PROVE TypeOK'
  <2>1. CASE PinIndex(h) \/ PinIndexFails(h)
    <3>1. added' = added \/ added' = [added EXCEPT ![h] = added[h] \cup {Index[h]}]
      BY <2>1 DEF TypeOK, PinIndex, PinIndexFails
    <3>2. added' \in [Hosts -> SUBSET Cids]
      <4>1. added \in [Hosts -> SUBSET Cids] /\ added[h] \cup {Index[h]} \in SUBSET Cids
        BY LinesProperties DEF TypeOK
      <4> QED BY <3>1, <4>1
    <3> QED BY <2>1, <3>2, LinesProperties DEF TypeOK, PinIndex, PinIndexFails
  <2>2. CASE Cat(h)
    <3>1. line' = [line EXCEPT ![h] = 1] /\ status' = [status EXCEPT ![h] = TRUE]
      BY <2>2 DEF Cat
    <3>2. status' \in [Hosts -> BOOLEAN]
      BY <3>1 DEF TypeOK
    <3>3. CatInto(h, "pin") \/ \E n \in 0 .. Len(Pieces[h]) : CutInto(h, n, "pin")
      BY <2>2 DEF Cat
    <3>4. /\ lines' \in [Hosts -> Nat] /\ line' \in [Hosts -> Nat \ {0}]
          /\ \A g \in Hosts : lines'[g] <= Len(Pieces[g]) /\ line'[g] <= lines'[g] + 1
          /\ host' = [host EXCEPT ![h] = "pin"]
      BY <3>1, <3>3, CatProperties
    <3>5. UNCHANGED <<daemonVars, pinned, missed, added, kept>>
      BY <2>2 DEF Cat
    <3> QED BY <3>2, <3>4, <3>5 DEF TypeOK
  <2>3. CASE PinLine(h)
    <3>1. AtLine(h, "pin") /\ UNCHANGED <<host, daemonVars, lines, missed, kept>>
      BY <2>3 DEF PinLine
    <3>2. pinned' \subseteq Cids /\ status' \in [Hosts -> BOOLEAN]
      BY <2>3, <3>1, ThisProperties DEF PinLine, TypeOK
    <3>3. added' \in [Hosts -> SUBSET Cids]
      BY <2>3, <3>1, ThisProperties DEF PinLine, TypeOK
    <3> QED BY <3>1, <3>2, <3>3, ThisProperties DEF TypeOK
  <2>4. CASE PinLineFails(h)
    <3>1. missed' \in [Hosts -> SUBSET (Nat \ {0})]
      BY <2>4 DEF TypeOK, PinLineFails
    <3>2. status' \in [Hosts -> BOOLEAN]
      BY <2>4 DEF TypeOK, PinLineFails
    <3>3. AtLine(h, "pin") /\ UNCHANGED <<host, daemonVars, lines, pinned, added, kept>>
      BY <2>4 DEF PinLineFails
    <3> QED BY <3>1, <3>2, <3>3, ThisProperties DEF TypeOK
  <2>5. CASE PinEnd(h)
    BY <2>5 DEF TypeOK, PinEnd
  <2> QED BY <1>2, <2>1, <2>2, <2>3, <2>4, <2>5 DEF ipfsPinAll
<1>3. ASSUME NEW h \in Hosts, Expire(h) PROVE TypeOK'
  BY <1>3 DEF TypeOK, Expire
<1>4. ASSUME NEW h \in Hosts, IpfsUnpinAll(h) PROVE TypeOK'
  <2>1. CASE UnpinCat(h)
    <3>1. \A n \in 0 .. Len(Pieces[h]) : {Pieces[h][i] : i \in n+1 .. Len(Pieces[h])} \subseteq Cids
      BY LinesProperties DEF Lines
    <3>2. kept' \in [Hosts -> SUBSET Cids]
      <4>1. kept \in [Hosts -> SUBSET Cids]
        BY DEF TypeOK
      <4>2. \/ kept' = kept
            \/ \E n \in 0 .. Len(Pieces[h]) :
                  kept' = [kept EXCEPT ![h] =
                              @ \cup {Pieces[h][i] : i \in n+1 .. Len(Pieces[h])}]
        BY <2>1, Zenon DEF UnpinCat
      <4>3. ASSUME NEW n \in 0 .. Len(Pieces[h]),
                   kept' = [kept EXCEPT ![h] =
                               @ \cup {Pieces[h][i] : i \in n+1 .. Len(Pieces[h])}]
            PROVE  kept' \in [Hosts -> SUBSET Cids]
        <5>1. kept[h] \cup {Pieces[h][i] : i \in n+1 .. Len(Pieces[h])} \in SUBSET Cids
          BY <3>1, <4>1
        <5> QED BY <4>1, <4>3, <5>1
      <4> QED BY <4>1, <4>2, <4>3
    <3>3. line' = [line EXCEPT ![h] = 1] /\ UNCHANGED <<daemonVars, status, pinned, missed, added>>
      BY <2>1 DEF UnpinCat
    <3>4. CatInto(h, "unpin") \/ \E n \in 0 .. Len(Pieces[h]) : CutInto(h, n, "unpin")
      BY <2>1 DEF UnpinCat
    <3>5. /\ lines' \in [Hosts -> Nat] /\ line' \in [Hosts -> Nat \ {0}]
          /\ \A g \in Hosts : lines'[g] <= Len(Pieces[g]) /\ line'[g] <= lines'[g] + 1
          /\ host' = [host EXCEPT ![h] = "unpin"]
      BY <3>3, <3>4, CatProperties
    <3> QED BY <3>2, <3>3, <3>5 DEF TypeOK
  <2>2. CASE UnpinLine(h)
    <3>1. AtLine(h, "unpin") /\ UNCHANGED <<host, daemonVars, lines, status, missed, added, kept>>
      BY <2>2 DEF UnpinLine
    <3>2. pinned' \subseteq Cids
      BY <2>2 DEF TypeOK, UnpinLine
    <3> QED BY <3>1, <3>2, ThisProperties DEF TypeOK
  <2>3. CASE UnpinLineFails(h)
    <3>1. AtLine(h, "unpin") /\ UNCHANGED <<host, daemonVars, lines, status, pinned, missed, added>>
      BY <2>3 DEF UnpinLineFails
    <3>2. kept' = [kept EXCEPT ![h] = kept[h] \cup {This(h)}]
      BY <2>3 DEF UnpinLineFails, TypeOK
    <3>3. kept' \in [Hosts -> SUBSET Cids]
      BY <3>1, <3>2, ThisProperties DEF TypeOK
    <3> QED BY <3>1, <3>3, ThisProperties DEF TypeOK
  <2>4. CASE UnpinEnd(h) \/ UnpinIndex(h)
    BY <2>4 DEF TypeOK, UnpinEnd, UnpinIndex
  <2>5. CASE UnpinIndexFails(h)
    <3>1. kept' \in [Hosts -> SUBSET Cids]
      BY <2>5, LinesProperties DEF TypeOK, UnpinIndexFails
    <3> QED BY <2>5, <3>1 DEF TypeOK, UnpinIndexFails
  <2> QED BY <1>4, <2>1, <2>2, <2>3, <2>4, <2>5 DEF IpfsUnpinAll
<1>5. CASE DaemonReady \/ DaemonDies
  BY <1>5 DEF TypeOK, DaemonReady, DaemonDies
<1>6. CASE UNCHANGED vars
  BY <1>6 DEF TypeOK, vars
<1> QED BY <1>1, <1>2, <1>3, <1>4, <1>5, <1>6 DEF Next, HostContent

(* The bookkeeping of HostContent and IpfsUnpinAll keeps its types; the loops
   stay within the lines that were read. *)
THEOREM TypeCorrect == Spec => []TypeOK
BY TypeInit, TypeStep, PTL DEF Spec

-----------------------------------------------------------------------------
(* A step of one call leaves what the others have noted alone. *)
Same(g) ==
    /\ host'[g] = host[g]
    /\ lines'[g] = lines[g]
    /\ line'[g] = line[g]
    /\ status'[g] = status[g]
    /\ missed'[g] = missed[g]
    /\ added'[g] = added[g]
    /\ kept'[g] = kept[g]

LEMMA OthersSame ==
    ASSUME TypeOK, NEW h \in Hosts, HostContent(h) \/ Expire(h) \/ IpfsUnpinAll(h),
           NEW g \in Hosts, g # h
    PROVE  Same(g)
<1> USE DEF Same, TypeOK, daemonVars, loopVars, Goto
<1>1. CASE startIpfsDaemon(h)
  BY <1>1 DEF startIpfsDaemon, DaemonFound, NoDaemon, StartDaemon, StartFails, AwaitDone, AwaitLook,
              AwaitFails
<1>2. CASE ipfsPinAll(h)
  BY <1>2 DEF ipfsPinAll, PinIndex, PinIndexFails, Cat, CatInto, CutInto, PinLine, PinLineFails,
              AtLine, PinEnd
<1>3. CASE Expire(h)
  BY <1>3 DEF Expire
<1>4. CASE IpfsUnpinAll(h)
  BY <1>4 DEF IpfsUnpinAll, UnpinCat, CatInto, CutInto, UnpinLine, UnpinLineFails, AtLine,
              UnpinEnd, UnpinIndex, UnpinIndexFails
<1> QED BY <1>1, <1>2, <1>3, <1>4 DEF HostContent

(* Steps of ipfs itself and stuttering steps. *)
LEMMA NobodyMoves ==
    ASSUME DaemonReady \/ DaemonDies \/ UNCHANGED vars
    PROVE  UNCHANGED <<host, lines, line, status, pinned, missed, added, kept>>
BY DEF DaemonReady, DaemonDies, vars, loopVars

(* What has begun to be unpinned stays so. *)
LEMMA UnpinnedStays ==
    ASSUME TypeOK, [Next]_vars, NEW h \in Hosts, NEW c, UnpinnedByOther(h, c)
    PROVE  UnpinnedByOther(h, c)'
<1>1. PICK g \in Hosts \ {h} : c \in Needs(g) /\ host[g] \in {"unpin", "uindex", "gone"}
  BY DEF UnpinnedByOther
<1>2. SUFFICES host'[g] \in {"unpin", "uindex", "gone"}
  BY <1>1 DEF UnpinnedByOther, Needs, Lines
<1>3. ASSUME NEW k \in Hosts, HostContent(k) \/ Expire(k) \/ IpfsUnpinAll(k)
      PROVE  host'[g] \in {"unpin", "uindex", "gone"}
  <2>1. CASE k # g
    BY <1>1, <1>3, <2>1, OthersSame DEF Same
  <2>2. CASE k = g /\ IpfsUnpinAll(k)
    BY <1>1, <2>2 DEF TypeOK, IpfsUnpinAll, UnpinCat, UnpinLine, UnpinLineFails, AtLine,
                      UnpinEnd, UnpinIndex, UnpinIndexFails, Goto
  <2>3. CASE k = g /\ (HostContent(k) \/ Expire(k))
    BY <1>1, <2>3 DEF HostContent, Expire, startIpfsDaemon, ipfsPinAll, DaemonFound, NoDaemon,
                      StartDaemon, StartFails, AwaitDone, AwaitLook,
                      AwaitFails, PinIndex, PinIndexFails, Cat, PinLine,
                      PinLineFails, AtLine, PinEnd
  <2> QED BY <1>3, <2>1, <2>2, <2>3
<1>4. CASE DaemonReady \/ DaemonDies \/ UNCHANGED vars
  BY <1>1, <1>4, NobodyMoves
<1> QED BY <1>3, <1>4 DEF Next

(* A pin that a call relies on goes only to another call that unpins it. *)
LEMMA SafeStays ==
    ASSUME TypeOK, [Next]_vars, NEW h \in Hosts, NEW c, Safe(h, c),
           host[h] \notin {"unpin", "uindex"}
    PROVE  Safe(h, c)'
<1>1. CASE UnpinnedByOther(h, c)
  BY <1>1, UnpinnedStays DEF Safe
<1>2. CASE c \in pinned
  <2>1. ASSUME NEW k \in Hosts, HostContent(k) \/ Expire(k) PROVE c \in pinned'
    BY <1>2, <2>1 DEF HostContent, Expire, startIpfsDaemon, ipfsPinAll, DaemonFound, NoDaemon,
                      StartDaemon, StartFails, AwaitDone, AwaitLook,
                      AwaitFails, PinIndex, PinIndexFails, Cat, PinLine,
                      PinLineFails, PinEnd
  <2>2. ASSUME NEW k \in Hosts, UnpinLine(k) PROVE Safe(h, c)'
    <3>1. k # h /\ host'[k] = "unpin" /\ This(k) \in Needs(k)
      BY <2>2, ThisProperties DEF UnpinLine, AtLine
    <3>2. Needs(k)' = Needs(k)
      BY DEF Needs, Lines
    <3>3. c \in pinned' \/ c = This(k)
      BY <1>2, <2>2 DEF UnpinLine
    <3> QED BY <3>1, <3>2, <3>3 DEF Safe, UnpinnedByOther
  <2>3. ASSUME NEW k \in Hosts, UnpinIndex(k) PROVE Safe(h, c)'
    <3>1. k # h /\ host'[k] = "gone" /\ Index[k] \in Needs(k)
      BY <2>3 DEF UnpinIndex, Needs, Goto, TypeOK
    <3>2. Needs(k)' = Needs(k)
      BY DEF Needs, Lines
    <3>3. c \in pinned' \/ c = Index[k]
      BY <1>2, <2>3 DEF UnpinIndex
    <3> QED BY <3>1, <3>2, <3>3 DEF Safe, UnpinnedByOther
  <2>4. ASSUME NEW k \in Hosts, UnpinCat(k) \/ UnpinLineFails(k) \/ UnpinEnd(k) \/ UnpinIndexFails(k)
        PROVE  c \in pinned'
    BY <1>2, <2>4 DEF UnpinCat, UnpinLineFails, UnpinEnd, UnpinIndexFails
  <2>5. ASSUME DaemonReady \/ DaemonDies \/ UNCHANGED vars PROVE c \in pinned'
    BY <1>2, <2>5, NobodyMoves
  <2> QED BY <2>1, <2>2, <2>3, <2>4, <2>5 DEF Next, IpfsUnpinAll, Safe
<1> QED BY <1>1, <1>2 DEF Safe

-----------------------------------------------------------------------------
(* ProgressInv and MissingExplained for one call. *)
Progress(h) ==
    /\ host[h] \in Starting \cup {"index", "cat"} => missed[h] = {}
    /\ host[h] \in {"cat", "pin"} => Safe(h, Index[h])
    /\ host[h] = "pin" =>
          /\ \A i \in Lines(h) : i < line[h] => Safe(h, Pieces[h][i]) \/ i \in missed[h]
          /\ status[h] <=> line[h] - 1 \notin missed[h]
          /\ \A i \in missed[h] : i < line[h]

Explained(h) ==
    host[h] = "hosted" =>
        /\ Safe(h, Index[h])
        /\ \A i \in Lines(h) :
              \/ Safe(h, Pieces[h][i])
              \/ i > lines[h]
              \/ i \in missed[h] /\ i < lines[h]

LEMMA ExplainedByCall ==
    /\ ProgressInv /\ MissingExplained => \A h \in Hosts : Progress(h) /\ Explained(h)
    /\ (\A h \in Hosts : Progress(h)' /\ Explained(h)') => ProgressInv' /\ MissingExplained'
<1>1. ProgressInv /\ MissingExplained => \A h \in Hosts : Progress(h) /\ Explained(h)
  BY DEF ProgressInv, Progress, MissingExplained, Explained, Safe
<1>2. (\A h \in Hosts : Progress(h)') => ProgressInv'
  BY DEF ProgressInv, Progress
<1>3. (\A h \in Hosts : Explained(h)') => MissingExplained'
  BY DEF MissingExplained, Explained, Safe
<1> QED BY <1>1, <1>2, <1>3

LEMMA StandsStill ==
    ASSUME TypeOK, [Next]_vars, NEW h \in Hosts, Same(h), Progress(h), Explained(h)
    PROVE  Progress(h)' /\ Explained(h)'
<1>1. \A c : Safe(h, c) /\ host[h] \notin {"unpin", "uindex"} => Safe(h, c)'
  BY SafeStays
<1>2. Progress(h)'
  BY <1>1 DEF Progress, Same, Lines, Starting
<1>3. Explained(h)'
  BY <1>1 DEF Explained, Same, Lines
<1> QED BY <1>2, <1>3

LEMMA PinAllStep ==
    ASSUME TypeOK, [Next]_vars, NEW h \in Hosts, ipfsPinAll(h), Progress(h), TypeOK'
    PROVE  Progress(h)' /\ Explained(h)'
<1>1. \A c : Safe(h, c) /\ host[h] \notin {"unpin", "uindex"} => Safe(h, c)'
  BY SafeStays
<1>2. \A c \in pinned' : Safe(h, c)'
  BY DEF Safe
<1>3. CASE PinIndex(h)
  <2>1. host[h] = "index" /\ host'[h] = "cat" /\ missed' = missed /\ Index[h] \in pinned'
    BY <1>3 DEF PinIndex, Goto, TypeOK
  <2> QED BY <1>2, <2>1 DEF Progress, Explained, Starting
<1>4. CASE PinIndexFails(h)
  <2>1. host'[h] = "failed"
    BY <1>4 DEF PinIndexFails, Goto, TypeOK
  <2> QED BY <2>1 DEF Progress, Explained, Starting
<1>5. CASE Cat(h)
  <2>1. /\ host[h] = "cat" /\ host'[h] = "pin" /\ missed' = missed
        /\ line'[h] = 1 /\ status'[h] = TRUE
    BY <1>5 DEF Cat, CatInto, CutInto, Goto, TypeOK
  <2>2. missed'[h] = {} /\ Safe(h, Index[h])'
    BY <1>1, <2>1 DEF Progress
  <2>3. \A i \in Lines(h)' : ~(i < line'[h])
    BY <2>1 DEF Lines
  <2> QED BY <2>1, <2>2, <2>3 DEF Progress, Explained, Starting
<1>6. CASE PinLine(h)
  <2>1. /\ host[h] = "pin" /\ host'[h] = "pin" /\ missed' = missed
        /\ line'[h] = line[h] + 1 /\ status'[h] = TRUE /\ Pieces[h][line[h]] \in pinned'
        /\ line[h] \in Nat
    BY <1>6, ThisProperties DEF PinLine, AtLine, TypeOK
  <2>2. Safe(h, Index[h])'
    BY <1>1, <2>1 DEF Progress
  <2>3. \A i \in Lines(h)' : i < line'[h] => Safe(h, Pieces[h][i])' \/ i \in missed'[h]
    <3> SUFFICES ASSUME NEW i \in Lines(h), i < line[h] + 1
                 PROVE  Safe(h, Pieces[h][i])' \/ i \in missed'[h]
      BY <2>1 DEF Lines
    <3>1. i = line[h] \/ i < line[h]
      BY <2>1 DEF Lines
    <3> QED BY <1>1, <1>2, <2>1, <3>1 DEF Progress
  <2>4. \A i \in missed'[h] : i \in Nat /\ i < line[h]
    BY <2>1 DEF Progress, TypeOK
  <2>5. (line'[h] - 1 \notin missed'[h]) /\ \A i \in missed'[h] : i < line'[h]
    BY <2>1, <2>4
  <2> QED BY <2>1, <2>2, <2>3, <2>5 DEF Progress, Explained, Starting
<1>7. CASE PinLineFails(h)
  <2>1. /\ host[h] = "pin" /\ host'[h] = "pin" /\ missed'[h] = missed[h] \cup {line[h]}
        /\ line'[h] = line[h] + 1 /\ status'[h] = FALSE /\ line[h] \in Nat
    BY <1>7, ThisProperties DEF PinLineFails, AtLine, TypeOK
  <2>2. Safe(h, Index[h])'
    BY <1>1, <2>1 DEF Progress
  <2>3. \A i \in Lines(h)' : i < line'[h] => Safe(h, Pieces[h][i])' \/ i \in missed'[h]
    <3> SUFFICES ASSUME NEW i \in Lines(h), i < line[h] + 1
                 PROVE  Safe(h, Pieces[h][i])' \/ i \in missed'[h]
      BY <2>1 DEF Lines
    <3>1. i = line[h] \/ i < line[h]
      BY <2>1 DEF Lines
    <3> QED BY <1>1, <2>1, <3>1 DEF Progress
  <2>4. \A i \in missed[h] : i \in Nat /\ i < line[h]
    BY <2>1 DEF Progress, TypeOK
  <2>5. line'[h] - 1 \in missed'[h]
    BY <2>1
  <2>6. \A i \in missed'[h] : i < line'[h]
    BY <2>1, <2>4
  <2> QED BY <2>1, <2>2, <2>3, <2>5, <2>6 DEF Progress, Explained, Starting
<1>8. CASE PinEnd(h)
  <2>1. /\ host[h] = "pin" /\ host'[h] = (IF status[h] THEN "hosted" ELSE "failed")
        /\ missed' = missed /\ lines' = lines /\ line[h] > lines[h]
    BY <1>8 DEF PinEnd, Goto, TypeOK, loopVars
  <2>2. line[h] - 1 = lines[h] /\ lines[h] \in Nat
    BY <2>1 DEF TypeOK
  <2>3. CASE status[h]
    <3>1. host'[h] = "hosted" /\ lines[h] \notin missed[h] /\ Safe(h, Index[h])'
      BY <1>1, <2>1, <2>2, <2>3 DEF Progress
    <3>2. \A i \in Lines(h) :
              \/ Safe(h, Pieces[h][i])'
              \/ i > lines[h]
              \/ i \in missed[h] /\ i < lines[h]
      <4> SUFFICES ASSUME NEW i \in Lines(h), ~(i > lines[h])
                   PROVE  Safe(h, Pieces[h][i])' \/ (i \in missed[h] /\ i < lines[h])
        OBVIOUS
      <4>1. i \in Nat /\ i < line[h] /\ i <= lines[h]
        BY <2>2, LinesProperties DEF TypeOK
      <4>2. Safe(h, Pieces[h][i]) \/ i \in missed[h]
        BY <2>1, <4>1 DEF Progress
      <4>3. i \in missed[h] => i < lines[h]
        BY <2>2, <3>1, <4>1
      <4> QED BY <1>1, <2>1, <4>2, <4>3
    <3> QED BY <2>1, <3>1, <3>2 DEF Progress, Explained, Starting, Lines
  <2>4. CASE ~status[h]
    BY <2>1, <2>4 DEF Progress, Explained, Starting
  <2> QED BY <2>3, <2>4
<1> QED BY <1>3, <1>4, <1>5, <1>6, <1>7, <1>8 DEF ipfsPinAll

LEMMA MissingStep ==
    TypeOK /\ TypeOK' /\ ProgressInv /\ MissingExplained /\ [Next]_vars
        => ProgressInv' /\ MissingExplained'
<1> SUFFICES ASSUME TypeOK, TypeOK', ProgressInv, MissingExplained, [Next]_vars, NEW h \in Hosts
             PROVE  Progress(h)' /\ Explained(h)'
  BY ExplainedByCall
<1>1. Progress(h) /\ Explained(h)
  BY ExplainedByCall
<1>2. ASSUME NEW k \in Hosts, HostContent(k) \/ Expire(k) \/ IpfsUnpinAll(k), k # h
      PROVE  Progress(h)' /\ Explained(h)'
  BY <1>1, <1>2, OthersSame, StandsStill
<1>3. CASE startIpfsDaemon(h)
  <2>1. /\ host[h] \in Starting /\ host'[h] \in Starting \cup {"index", "failed"}
        /\ missed' = missed
    BY <1>3 DEF startIpfsDaemon, DaemonFound, NoDaemon, StartDaemon, StartFails, AwaitDone, AwaitLook,
                AwaitFails,
                Goto, Starting, TypeOK
  <2> QED BY <1>1, <2>1 DEF Progress, Explained, Starting
<1>4. CASE ipfsPinAll(h)
  BY <1>1, <1>4, PinAllStep
<1>5. CASE Expire(h) \/ IpfsUnpinAll(h)
  <2>1. host'[h] \in Unpinning \cup {"gone"}
    BY <1>5 DEF Expire, IpfsUnpinAll, UnpinCat, CatInto, CutInto, UnpinLine, UnpinLineFails, AtLine,
                UnpinEnd, UnpinIndex, UnpinIndexFails, Goto, Unpinning, TypeOK
  <2> QED BY <2>1 DEF Progress, Explained, Starting, Unpinning
<1>6. CASE DaemonReady \/ DaemonDies \/ UNCHANGED vars
  <2>1. UNCHANGED <<host, lines, line, status, pinned, missed, added, kept>>
    BY <1>6, NobodyMoves
  <2>2. Same(h)
    BY <2>1 DEF Same
  <2> QED BY <1>1, <2>2, StandsStill
<1>7. CASE \E k \in Hosts : HostContent(k) \/ Expire(k) \/ IpfsUnpinAll(k)
  BY <1>2, <1>3, <1>4, <1>5, <1>7 DEF HostContent
<1> QED BY <1>6, <1>7 DEF Next

LEMMA MissingInit == Init => ProgressInv /\ MissingExplained
BY DEF Init, ProgressInv, MissingExplained, Starting

(* Content that HostContent reports as hosted lacks a piece only for one of the
   reasons named: its line was not read, its own pin failed before the last
   one, or an unpin of content that shares it came later. *)
THEOREM HostedMeansPinned == Spec => []MissingExplained
<1>1. Init => TypeOK /\ ProgressInv /\ MissingExplained
  BY TypeInit, MissingInit
<1>2. TypeOK /\ ProgressInv /\ MissingExplained /\ [Next]_vars
        => (TypeOK /\ ProgressInv /\ MissingExplained)'
  BY TypeStep, MissingStep
<1> QED BY <1>1, <1>2, PTL DEF Spec

-----------------------------------------------------------------------------
(* The second half of HoldInv for one call: what cat has not delivered to
   IpfsUnpinAll counts as kept. *)
KeptRest(h) ==
    host[h] = "unpin" => \A i \in Lines(h) : lines[h] < i => Pieces[h][i] \in kept[h]

LEMMA HoldsSame ==
    ASSUME NEW h \in Hosts, Same(h)
    PROVE  /\ \A c : Holds(h, c) => Holds(h, c)'
           /\ KeptRest(h) => KeptRest(h)'
BY DEF Holds, KeptRest, Same, Needs, Lines

(* HostContent pins only what its content needs, and nothing before it has
   found or started a daemon. *)
AddedOwn(h) == added[h] \subseteq Needs(h) /\ (host[h] \in Starting => added[h] = {})

LEMMA AddedStep ==
    ASSUME TypeOK, NEW h \in Hosts, AddedOwn(h), HostContent(h) \/ Expire(h) \/ IpfsUnpinAll(h)
    PROVE  /\ AddedOwn(h)'
           /\ added[h] \subseteq added'[h]
           /\ \A c \in pinned' : c \notin pinned => c \in added'[h]
<1> USE DEF AddedOwn, Starting, Goto
<1>0. Needs(h)' = Needs(h)
  BY DEF Needs, Lines
<1>1. CASE startIpfsDaemon(h)
  <2>1. host[h] \in Starting /\ UNCHANGED <<pinned, added>>
    BY <1>1 DEF startIpfsDaemon, DaemonFound, NoDaemon, StartDaemon, StartFails, AwaitDone,
                AwaitLook, AwaitFails
  <2> QED BY <1>0, <2>1
<1>2. CASE PinIndex(h)
  <2>1. host'[h] = "cat" /\ added'[h] = added[h] \cup {Index[h]} /\ pinned' = pinned \cup {Index[h]}
    BY <1>2 DEF PinIndex, TypeOK
  <2> QED BY <1>0, <2>1 DEF Needs
<1>3. CASE PinLine(h)
  <2>1. host'[h] = "pin" /\ added'[h] = added[h] \cup {This(h)} /\ pinned' = pinned \cup {This(h)}
    BY <1>3 DEF PinLine, AtLine, TypeOK
  <2>2. This(h) \in Needs(h)
    BY <1>3, ThisProperties DEF PinLine
  <2> QED BY <1>0, <2>1, <2>2
<1>4. CASE PinIndexFails(h) \/ Cat(h) \/ PinLineFails(h) \/ PinEnd(h) \/ Expire(h)
  <2>1. host'[h] \notin Starting /\ UNCHANGED <<pinned, added>>
    BY <1>4 DEF PinIndexFails, Cat, CatInto, CutInto, PinLineFails, AtLine, PinEnd, Expire, TypeOK
  <2> QED BY <1>0, <2>1
<1>5. CASE IpfsUnpinAll(h)
  <2>1. host'[h] \notin Starting /\ UNCHANGED added /\ pinned' \subseteq pinned
    BY <1>5 DEF IpfsUnpinAll, UnpinCat, CatInto, CutInto, UnpinLine, UnpinLineFails, AtLine,
                UnpinEnd, UnpinIndex, UnpinIndexFails, TypeOK
  <2> QED BY <1>0, <2>1
<1> QED BY <1>1, <1>2, <1>3, <1>4, <1>5 DEF HostContent, ipfsPinAll

(* A call that steps keeps answering for the pins that stay, except for the
   one it removes, and answers for the one it adds. *)
LEMMA HoldsStep ==
    ASSUME TypeOK, TypeOK', NEW h \in Hosts, KeptRest(h), AddedOwn(h),
           HostContent(h) \/ Expire(h) \/ IpfsUnpinAll(h)
    PROVE  /\ \A c \in pinned' : Holds(h, c) \/ c \notin pinned => Holds(h, c)'
           /\ KeptRest(h)'
<1> USE DEF Starting
<1>0. /\ \A c \in pinned' : Holds(h, c) \/ c \notin pinned => c \in added'[h]
      /\ added'[h] \subseteq Needs(h) /\ Needs(h)' = Needs(h)
  BY AddedStep DEF Holds, AddedOwn, Needs, Lines
<1>1. CASE HostContent(h) \/ Expire(h)
  <2>1. host'[h] \in Starting \cup {"index", "cat", "pin", "hosted", "failed", "ucat"}
    BY <1>1 DEF HostContent, startIpfsDaemon, DaemonFound, NoDaemon, StartDaemon, StartFails,
                AwaitDone, AwaitLook, AwaitFails, ipfsPinAll, Expire, PinIndex, PinIndexFails,
                Cat, CatInto, CutInto, PinLine, PinLineFails, AtLine, PinEnd, Goto, TypeOK
  <2> QED BY <1>0, <2>1 DEF Holds, KeptRest
<1>3. CASE UnpinCat(h)
  <2>1. host'[h] = "unpin" /\ line'[h] = 1 /\ pinned' = pinned
    BY <1>3 DEF UnpinCat, CatInto, CutInto, Goto, TypeOK
  <2>2. \A c \in added'[h] : Holds(h, c)'
    BY <1>0, <2>1, LinesProperties DEF Holds, Needs, Lines
  <2>3. \A i \in Lines(h) : lines'[h] < i => Pieces[h][i] \in kept'[h]
    <3>1. CASE CatInto(h, "unpin")
      BY <3>1, LinesProperties DEF CatInto, TypeOK
    <3>2. CASE \E n \in 0 .. Len(Pieces[h]) :
                  /\ CutInto(h, n, "unpin")
                  /\ kept' = [kept EXCEPT ![h] = @ \cup {Pieces[h][i] : i \in n+1 .. Len(Pieces[h])}]
      <4>1. PICK n \in 0 .. Len(Pieces[h]) :
                  /\ CutInto(h, n, "unpin")
                  /\ kept' = [kept EXCEPT ![h] = @ \cup {Pieces[h][i] : i \in n+1 .. Len(Pieces[h])}]
        BY <3>2
      <4>2. lines'[h] = n /\ {Pieces[h][i] : i \in n+1 .. Len(Pieces[h])} \subseteq kept'[h]
        BY <4>1 DEF CutInto, TypeOK
      <4>3. \A i \in Lines(h) : n < i => i \in n+1 .. Len(Pieces[h])
        BY LinesProperties DEF Lines
      <4> QED BY <4>2, <4>3
    <3> QED BY <1>3, <3>1, <3>2 DEF UnpinCat
  <2> QED BY <1>0, <2>1, <2>2, <2>3 DEF Holds, KeptRest, Lines
<1>4. CASE UnpinLine(h)
  <2>1. /\ host[h] = "unpin" /\ host' = host /\ kept' = kept /\ lines' = lines
        /\ line'[h] = line[h] + 1 /\ line[h] \in Nat
        /\ pinned' = pinned \ {Pieces[h][line[h]]}
    BY <1>4, ThisProperties DEF UnpinLine, AtLine, TypeOK
  <2>2. ASSUME NEW c \in pinned', Holds(h, c) PROVE Holds(h, c)'
    <3>1. \A i \in Lines(h) : line[h] <= i /\ c = Pieces[h][i] => line[h] + 1 <= i
      BY <2>1, <2>2, LinesProperties
    <3> QED BY <1>0, <2>1, <2>2, <3>1 DEF Holds, Lines
  <2> QED BY <2>1, <2>2 DEF KeptRest, Lines
<1>5. CASE UnpinLineFails(h)
  <2>1. /\ host[h] = "unpin" /\ host' = host /\ lines' = lines /\ pinned' = pinned
        /\ line'[h] = line[h] + 1 /\ line[h] \in Nat
        /\ kept'[h] = kept[h] \cup {Pieces[h][line[h]]}
    BY <1>5, ThisProperties DEF UnpinLineFails, AtLine, TypeOK
  <2>2. ASSUME NEW c \in pinned', Holds(h, c) PROVE Holds(h, c)'
    <3>1. \A i \in Lines(h) : line[h] <= i /\ c = Pieces[h][i] =>
              line[h] + 1 <= i \/ c \in kept'[h]
      BY <2>1, <2>2, LinesProperties
    <3> QED BY <1>0, <2>1, <2>2, <3>1 DEF Holds, Lines
  <2> QED BY <2>1, <2>2 DEF KeptRest, Lines
<1>6. CASE UnpinEnd(h)
  <2>1. /\ host[h] = "unpin" /\ host'[h] = "uindex" /\ kept' = kept /\ pinned' = pinned
        /\ line[h] > lines[h] /\ line[h] \in Nat /\ lines[h] \in Nat
    BY <1>6 DEF UnpinEnd, Goto, TypeOK
  <2>2. ASSUME NEW c \in pinned', Holds(h, c) PROVE Holds(h, c)'
    <3>1. \A i \in Lines(h) : line[h] <= i /\ c = Pieces[h][i] => c \in kept[h]
      BY <2>1, LinesProperties DEF KeptRest
    <3> QED BY <1>0, <2>1, <2>2, <3>1 DEF Holds, Lines
  <2> QED BY <2>1, <2>2 DEF KeptRest
<1>7. CASE UnpinIndex(h)
  <2>1. /\ host[h] = "uindex" /\ host'[h] = "gone" /\ kept' = kept
        /\ pinned' = pinned \ {Index[h]}
    BY <1>7 DEF UnpinIndex, Goto, TypeOK
  <2> QED BY <1>0, <2>1 DEF Holds, KeptRest
<1>8. CASE UnpinIndexFails(h)
  <2>1. /\ host[h] = "uindex" /\ host'[h] = "gone" /\ pinned' = pinned
        /\ kept'[h] = kept[h] \cup {Index[h]}
    BY <1>8 DEF UnpinIndexFails, Goto, TypeOK
  <2> QED BY <1>0, <2>1 DEF Holds, KeptRest
<1> QED BY <1>1, <1>3, <1>4, <1>5, <1>6, <1>7, <1>8 DEF IpfsUnpinAll

LEMMA HoldStep == TypeOK /\ TypeOK' /\ HoldInv /\ [Next]_vars => HoldInv'
<1> SUFFICES ASSUME TypeOK, TypeOK', HoldInv, [Next]_vars PROVE HoldInv'
  OBVIOUS
<1>1. \A h \in Hosts : KeptRest(h) /\ AddedOwn(h)
  BY DEF HoldInv, KeptRest, AddedOwn
<1>2. SUFFICES /\ \A c \in pinned' : \E h \in Hosts : Holds(h, c)'
               /\ \A h \in Hosts : KeptRest(h)' /\ AddedOwn(h)'
  BY DEF HoldInv, KeptRest, AddedOwn
<1>3. ASSUME NEW k \in Hosts, HostContent(k) \/ Expire(k) \/ IpfsUnpinAll(k)
      PROVE  /\ \A c \in pinned' : \E h \in Hosts : Holds(h, c)'
             /\ \A h \in Hosts : KeptRest(h)' /\ AddedOwn(h)'
  <2>1. /\ \A c \in pinned' : Holds(k, c) \/ c \notin pinned => Holds(k, c)'
        /\ KeptRest(k)' /\ AddedOwn(k)'
    BY <1>1, <1>3, HoldsStep, AddedStep
  <2>2. \A h \in Hosts \ {k} : Same(h)
    BY <1>3, OthersSame
  <2>3. \A h \in Hosts \ {k} : \A c : Holds(h, c) => Holds(h, c)'
    BY <2>2, HoldsSame
  <2>4. \A h \in Hosts \ {k} : KeptRest(h)' /\ AddedOwn(h)'
    BY <1>1, <2>2, HoldsSame DEF AddedOwn, Same, Needs, Lines
  <2>5. ASSUME NEW c \in pinned' PROVE \E h \in Hosts : Holds(h, c)'
    <3>1. CASE c \notin pinned
      BY <2>1, <3>1
    <3>2. CASE c \in pinned
      <4>1. PICK h \in Hosts : Holds(h, c)
        BY <3>2 DEF HoldInv
      <4> QED BY <2>1, <2>3, <4>1
    <3> QED BY <3>1, <3>2
  <2> QED BY <2>1, <2>4, <2>5
<1>4. CASE DaemonReady \/ DaemonDies \/ UNCHANGED vars
  <2>1. UNCHANGED <<host, lines, line, status, pinned, missed, added, kept>>
    BY <1>4, NobodyMoves
  <2>2. \A h \in Hosts : Same(h)
    BY <2>1 DEF Same
  <2>3. \A h \in Hosts : KeptRest(h)' /\ AddedOwn(h)' /\ \A c : Holds(h, c) => Holds(h, c)'
    BY <1>1, <2>2, HoldsSame DEF AddedOwn, Same, Needs, Lines
  <2> QED BY <2>1, <2>3 DEF HoldInv
<1> QED BY <1>3, <1>4 DEF Next

(* Every pin was made by a HostContent call and is accounted for: the content
   is being hosted, hosted or being unpinned, or IpfsUnpinAll has left the pin,
   or the call has failed after making it, and then the pin stays for ever. *)
THEOREM NoUnownedPins == Spec => []PinsOwned
<1>1. Init => HoldInv
  BY DEF Init, HoldInv, Starting
<1>2. TypeOK /\ HoldInv /\ [Next]_vars => (TypeOK /\ HoldInv)'
  BY TypeStep, HoldStep
<1>3. TypeOK /\ HoldInv => PinsOwned
  <2> SUFFICES ASSUME TypeOK, HoldInv, NEW c \in pinned
               PROVE  \E h \in Hosts :
                         /\ c \in added[h]
                         /\ \/ host[h] \in Pinning \cup Unpinning \cup {"hosted"}
                            \/ host[h] = "gone" /\ c \in kept[h]
                            \/ host[h] = "failed"
    BY DEF PinsOwned
  <2>1. PICK h \in Hosts : Holds(h, c)
    BY DEF HoldInv
  <2>2. c \in added[h] /\ host[h] \notin Starting /\ (host[h] = "gone" => c \in kept[h])
    BY <2>1 DEF Holds, HoldInv
  <2>3. host[h] \in Pinning \cup Unpinning \cup {"hosted", "failed", "gone"}
    BY <2>2 DEF TypeOK, HostStates
  <2> QED BY <2>2, <2>3
<1> QED BY <1>1, <1>2, <1>3, TypeInit, PTL DEF Spec
=============================================================================
