-------------------------- MODULE ChainStateProofs --------------------------
(***************************************************************************)
(* The block index and the active chain over any block tree, for any       *)
(* notarisations, reorganisation limit, memory layouts and number of       *)
(* restarts and RPC calls: the facts about the tree that every proof       *)
(* needs, the basic invariant IInv, and that each step keeps it.           *)
(*                                                                         *)
(* That the notarised block stays on the chain is an action property, but  *)
(* no consequence of the types: DisconnectTip recognises the block only    *)
(* while mapBlockIndex knows it (LastRead).  So the invariant follows the  *)
(* block data from the network to the chain (Downloaded) and, because a    *)
(* restart brings the index back from the disk, what has been written of   *)
(* it (OnDisk).                                                            *)
(*                                                                         *)
(* The second half adds how the candidates, the tip and an activation      *)
(* step lie to each other (GInv), and proves the first of its parts.       *)
(* Ordered: no candidate is worse than the tip, and the blocks with        *)
(* nChainTx are closed under parents.  Heights: a notarisation holds the   *)
(* height of the block it names.  Stepping: a step goes from the tip it    *)
(* found down to a fork that it has measured and up a chain without a      *)
(* failed block.                                                           *)
(***************************************************************************)
EXTENDS ChainState, TLAPS

-----------------------------------------------------------------------------
(* The block tree.                                                         *)

LEMMA Tree ==
    /\ Genesis \in Blocks /\ Path[Genesis] = {Genesis}
    /\ \A b \in Blocks : /\ nHeight[b] \in Nat /\ nChainWork[b] \in Nat
                         /\ Path[b] \subseteq Blocks
                         /\ Genesis \in Path[b] /\ b \in Path[b]
    /\ \A b \in Blocks : b # Genesis =>
           pprev[b] \in Blocks /\ Path[b] = Path[pprev[b]] \cup {b}
BY TreeAssumption

(* Ancestors of ancestors are ancestors; proper ones are lower and have    *)
(* less work.  The property is given by the set of the blocks that have    *)
(* it, to which TreeAssumption's induction applies.                        *)
LEMMA Ancestors ==
    ASSUME NEW b \in Blocks, NEW a \in Path[b]
    PROVE  /\ Path[a] \subseteq Path[b]
           /\ a # b => nHeight[a] < nHeight[b] /\ nChainWork[a] < nChainWork[b]
<1> DEFINE P(x) == \A y \in Path[x] :
                       /\ Path[y] \subseteq Path[x]
                       /\ y # x => nHeight[y] < nHeight[x] /\ nChainWork[y] < nChainWork[x]
           G == {x \in Blocks : P(x)}
<1>1. Genesis \in G
  BY Tree
<1>2. ASSUME NEW x \in Blocks \ {Genesis}, pprev[x] \in G
      PROVE  x \in G
  <2>1. /\ Path[x] = Path[pprev[x]] \cup {x} /\ pprev[x] \in Path[x]
        /\ pprev[x] \in Blocks /\ P(pprev[x])
    BY <1>2, Tree
  <2>2. SUFFICES ASSUME NEW y \in Path[x]
                 PROVE  /\ Path[y] \subseteq Path[x]
                        /\ y # x => /\ nHeight[y] < nHeight[x]
                                    /\ nChainWork[y] < nChainWork[x]
    OBVIOUS
  <2>3. CASE y = x
    BY <2>3
  <2>4. CASE y # x
    <3>1. y \in Path[pprev[x]]
      BY <2>1, <2>2, <2>4
    <3>2. /\ nHeight[x] = nHeight[pprev[x]] + 1 /\ nChainWork[x] > nChainWork[pprev[x]]
          /\ nHeight[pprev[x]] \in Nat /\ nChainWork[pprev[x]] \in Nat
          /\ nChainWork[x] \in Nat
      BY <2>1, TreeAssumption
    <3>3. y \in Blocks /\ nHeight[y] \in Nat /\ nChainWork[y] \in Nat
      BY <2>1, <3>1, Tree
    <3>4. nHeight[y] <= nHeight[pprev[x]] /\ nChainWork[y] <= nChainWork[pprev[x]]
      BY <2>1, <3>1, <3>2, <3>3
    <3>5. Path[y] \subseteq Path[x]
      BY <2>1, <3>1
    <3> QED  BY <3>2, <3>3, <3>4, <3>5
  <2> QED  BY <2>3, <2>4
<1>3. G \in SUBSET Blocks
  OBVIOUS
<1>4. G = Blocks
  <2> HIDE DEF G
  <2> QED  BY <1>1, <1>2, <1>3, TreeAssumption
<1> QED  BY <1>4

(* The ancestors of a block are a chain.                                   *)
LEMMA Linear ==
    ASSUME NEW b \in Blocks, NEW a \in Path[b], NEW c \in Path[b]
    PROVE  /\ a \in Path[c] \/ c \in Path[a]
           /\ nHeight[a] <= nHeight[c] => a \in Path[c]
<1> DEFINE P(x) == \A y, z \in Path[x] : y \in Path[z] \/ z \in Path[y]
           G == {x \in Blocks : P(x)}
<1>1. Genesis \in G
  BY Tree
<1>2. ASSUME NEW x \in Blocks \ {Genesis}, pprev[x] \in G
      PROVE  x \in G
  <2>1. Path[x] = Path[pprev[x]] \cup {x} /\ P(pprev[x])
    BY <1>2, Tree
  <2> QED  BY <2>1
<1>3. G = Blocks
  <2>1. G \in SUBSET Blocks
    OBVIOUS
  <2> HIDE DEF G
  <2> QED  BY <1>1, <1>2, <2>1, TreeAssumption
<1>4. a \in Path[c] \/ c \in Path[a]
  BY <1>3
<1>5. ASSUME nHeight[a] <= nHeight[c], c \in Path[a] PROVE a \in Path[c]
  <2>1. a \in Blocks /\ c \in Blocks
    BY Tree
  <2>2. c # a => nHeight[c] < nHeight[a]
    BY <1>5, <2>1, Ancestors
  <2>3. nHeight[a] \in Nat /\ nHeight[c] \in Nat /\ a \in Path[a]
    BY <2>1, Tree
  <2> QED  BY <1>5, <2>2, <2>3
<1> QED  BY <1>4, <1>5

(* Two chains have a last block in common.                                 *)
LEMMA Fork ==
    ASSUME NEW a \in Blocks, NEW b \in Blocks
    PROVE  FindFork(a, b) \in Path[a] \cap Path[b]
<1> DEFINE P(x) == \E f \in Path[x] \cap Path[b] :
                       \A g \in Path[x] \cap Path[b] : nHeight[g] <= nHeight[f]
           G == {x \in Blocks : P(x)}
<1>1. Genesis \in G
  BY TreeAssumption
<1>2. ASSUME NEW x \in Blocks \ {Genesis}, pprev[x] \in G
      PROVE  x \in G
  <2>1. Path[x] = Path[pprev[x]] \cup {x} /\ x \in Path[x]
    BY Tree
  <2>2. CASE x \in Path[b]
    <3>1. \A g \in Path[x] : nHeight[g] \in Nat /\ nHeight[g] <= nHeight[x]
      BY Ancestors, Tree
    <3> QED  BY <2>1, <2>2, <3>1
  <2>3. CASE x \notin Path[b]
    <3>1. Path[x] \cap Path[b] = Path[pprev[x]] \cap Path[b]
      BY <2>1, <2>3
    <3> QED  BY <1>2, <3>1
  <2> QED  BY <2>2, <2>3
<1>3. G = Blocks
  <2>1. G \in SUBSET Blocks
    OBVIOUS
  <2> HIDE DEF G
  <2> QED  BY <1>1, <1>2, <2>1, TreeAssumption
<1>4. P(a)
  BY <1>3
<1> QED  BY <1>4 DEF FindFork

(* CBlockIndexWorkComparator orders the blocks, any two of them.           *)
LEMMA WorseOrder ==
    ASSUME NEW q \in [Blocks -> Nat], NEW p \in Layouts
    PROVE  /\ \A a \in Blocks : ~Worse(q, p, a, a)
           /\ \A a, b, c \in Blocks :
                  Worse(q, p, a, b) /\ Worse(q, p, b, c) => Worse(q, p, a, c)
           /\ \A a, b, c \in Blocks :
                  Worse(q, p, a, c) => Worse(q, p, a, b) \/ Worse(q, p, b, c)
           /\ \A a, b \in Blocks : a = b \/ Worse(q, p, a, b) \/ Worse(q, p, b, a)
<1>1. /\ \A a \in Blocks : nChainWork[a] \in Nat /\ q[a] \in Nat /\ p[a] \in Nat
      /\ \A a, b \in Blocks : p[a] = p[b] => a = b
  BY TreeAssumption
<1>2. \A a \in Blocks : ~Worse(q, p, a, a)
  <2> TAKE a \in Blocks
  <2>1. nChainWork[a] \in Nat /\ q[a] \in Nat /\ p[a] \in Nat
    BY <1>1, Zenon
  <2> QED  BY <2>1 DEF Worse
<1>3. \A a, b, c \in Blocks :
          Worse(q, p, a, b) /\ Worse(q, p, b, c) => Worse(q, p, a, c)
  <2> TAKE a, b, c \in Blocks
  <2> QED  BY <1>1 DEF Worse
<1>4. \A a, b, c \in Blocks :
          Worse(q, p, a, c) => Worse(q, p, a, b) \/ Worse(q, p, b, c)
  <2> TAKE a, b, c \in Blocks
  <2> QED  BY <1>1 DEF Worse
<1>5. \A a, b \in Blocks : a = b \/ Worse(q, p, a, b) \/ Worse(q, p, b, a)
  BY <1>1 DEF Worse
<1> QED  BY <1>2, <1>3, <1>4, <1>5

(* A block is better than its ancestors.                                   *)
LEMMA WorseBelow ==
    ASSUME NEW q, NEW p, NEW b \in Blocks, NEW a \in Path[b], a # b
    PROVE  Worse(q, p, a, b) /\ ~Worse(q, p, b, a)
<1>1. nChainWork[a] < nChainWork[b] /\ nChainWork[a] \in Nat /\ nChainWork[b] \in Nat
  BY Ancestors, Tree
<1> QED  BY <1>1 DEF Worse

-----------------------------------------------------------------------------
(* The invariant.                                                          *)

(* Only blocks with data become part of anything; nothing is linked, made  *)
(* a candidate, aimed at or connected before all its ancestors are there.  *)
Downloaded ==
    /\ data \subseteq index
    /\ unlinked \subseteq data
    /\ candidates \subseteq chainTx
    /\ \A b \in chainTx : Path[b] \subseteq data
    /\ Path[tip] \subseteq data

Aims ==
    /\ act.op = "step" => Path[act.target] \subseteq data
    /\ act.op = "invalidate" => act.target # Genesis

(* The disk lags behind memory by no more than the dirty entries.          *)
OnDisk ==
    /\ DiskConsistent
    /\ disk.data \subseteq disk.index
    /\ disk.data \subseteq data
    /\ data \subseteq disk.data \cup dirty

IInv == TypeOK /\ Downloaded /\ Aims /\ OnDisk

-----------------------------------------------------------------------------
(* A block that is not an ancestor of another is not the genesis block.    *)
LEMMA NotGenesis ==
    ASSUME NEW a \in Blocks, NEW b \in Blocks, a \notin Path[b]
    PROVE  a # Genesis
BY Tree

LEMMA ActTypes ==
    ASSUME act \in Act
    PROVE  /\ act.op = "step" => /\ act.target \in Blocks /\ act.oldTip \in Blocks
                                 /\ act.kind \in {"dpow", "skip", "init"}
           /\ act.op = "invalidate" => act.target \in Blocks
           /\ act = idle => act.op = "idle"
BY DEF Act, idle

LEMMA LastReadType ==
    ASSUME last \in Checkpoint
    PROVE  LastRead \in Checkpoint
BY Zenon DEF LastRead, Checkpoint

(* Reading `last' does not lose a block that is in the index.              *)
LEMMA LastReadKeeps ==
    ASSUME last.notarized_hash \in index
    PROVE  LastRead = last
BY DEF LastRead

(* FlushStateToDisk leaves the disk consistent, wherever the chain stands. *)
LEMMA FlushedDisk ==
    ASSUME TypeOK, OnDisk, NEW d \in SUBSET Blocks, NEW fc \in SUBSET Blocks,
           NEW t \in Blocks, Path[t] \subseteq data, dirty \subseteq d
    PROVE  /\ Flushed(d, fc, t) \in Disk
           /\ Flushed(d, fc, t).data \subseteq data
           /\ data \subseteq Flushed(d, fc, t).data
           /\ Flushed(d, fc, t).tip = t
           /\ data \subseteq Flushed(d, fc, t).index
<1> DEFINE f == Flushed(d, fc, t)
<1>1. /\ disk \in Disk /\ failedValid \subseteq Blocks /\ data \subseteq Blocks
      /\ disk.data \subseteq disk.index /\ disk.data \subseteq data
      /\ data \subseteq disk.data \cup d
  BY DEF OnDisk, TypeOK
<1>2. f \in Disk
  BY <1>1 DEF Flushed, Written, Disk
<1>3. /\ f.data = Written(disk.data, data, d) /\ f.index = disk.index \cup d
      /\ f.tip = t
  BY DEF Flushed
<1>4. Written(disk.data, data, d) = data /\ data \subseteq disk.index \cup d
  BY <1>1 DEF Written
<1> QED  BY <1>2, <1>3, <1>4

(* So does a flush that stops half-way.                                    *)
LEMMA IndexWrittenDisk ==
    ASSUME IInv
    PROVE  /\ IndexWritten \in Disk /\ IndexWritten.tip = disk.tip
           /\ IndexWritten.data = data /\ IndexWritten.data \subseteq IndexWritten.index
           /\ Path[disk.tip] \subseteq data
<1>1. /\ TypeOK /\ OnDisk /\ disk.tip \in Blocks /\ Path[disk.tip] \subseteq data
      /\ dirty \subseteq Blocks /\ failedChild \subseteq Blocks /\ Marking \subseteq Blocks
  BY DEF IInv, TypeOK, OnDisk, DiskConsistent, Disk, Marking
<1> DEFINE d  == dirty \cup Marking
           fc == failedChild \cup Marking
           f  == Flushed(d, fc, disk.tip)
<1>2. d \in SUBSET Blocks /\ fc \in SUBSET Blocks /\ dirty \subseteq d
  BY <1>1
<1> HIDE DEF d, fc
<1>3. /\ f \in Disk /\ f.data \subseteq data /\ data \subseteq f.data
      /\ f.tip = disk.tip /\ data \subseteq f.index
  BY <1>1, <1>2, FlushedDisk, Zenon
<1> HIDE DEF f
<1>4. f.data = data /\ f.data \subseteq f.index
  BY <1>3
<1>5. IndexWritten = f
  BY Zenon DEF IndexWritten, f, d, fc
<1> QED  BY <1>1, <1>3, <1>4, <1>5

LEMMA FlushKeeps ==
    ASSUME IInv, NEW d \in SUBSET Blocks, dirty \subseteq d,
           NEW fc \in SUBSET Blocks, NEW t \in Blocks, Path[t] \subseteq data,
           NEW indexOnly \in BOOLEAN, data' = data,
           FlushStateToDisk(d, fc, t, indexOnly)
    PROVE  disk' \in Disk /\ dirty' \subseteq Blocks /\ OnDisk'
<1>1. CASE dirty' = d /\ disk' = disk
  BY <1>1 DEF IInv, OnDisk, DiskConsistent, TypeOK
<1>2. CASE /\ dirty' = {}
           /\ \E best \in {t} \cup (IF indexOnly THEN {disk.tip} ELSE {}) :
                  disk' = Flushed(d, fc, best)
  <2>1. PICK best \in {t, disk.tip} : disk' = Flushed(d, fc, best)
    BY <1>2
  <2>2. best \in Blocks /\ Path[best] \subseteq data
    BY DEF IInv, OnDisk, DiskConsistent, TypeOK, Disk
  <2>3. /\ disk' \in Disk /\ disk'.data \subseteq data
        /\ data \subseteq disk'.data
        /\ disk'.tip = best /\ data \subseteq disk'.index
    <3>1. TypeOK /\ OnDisk
      BY DEF IInv
    <3> QED  BY <2>1, <2>2, <3>1, FlushedDisk, Zenon
  <2> QED  BY <2>2, <2>3, <1>2 DEF OnDisk, DiskConsistent
<1> QED  BY <1>1, <1>2 DEF FlushStateToDisk

-----------------------------------------------------------------------------
(* What one step may do to the notarised block.                            *)
Kept == (restarts' = restarts /\ last.notarized_hash \in Path[tip])
            => last.notarized_hash \in Path[tip']

(* A block that is taken off the chain is not the notarised one, because   *)
(* that one is on the chain and so in the index, where LastRead finds it.  *)
LEMMA DisconnectKeeps ==
    ASSUME IInv, tip # Genesis, ~Refuses, tip' = pprev[tip]
    PROVE  Kept /\ tip' \in Blocks /\ Path[tip'] \subseteq Path[tip]
<1>1. tip \in Blocks /\ Path[tip] = Path[tip'] \cup {tip} /\ tip' \in Blocks
  BY Tree DEF IInv, TypeOK
<1>2. SUFFICES ASSUME last.notarized_hash \in Path[tip]
               PROVE  last.notarized_hash # tip
  BY <1>1 DEF Kept
<1>3. last.notarized_hash \in index
  BY <1>2 DEF IInv, Downloaded
<1> QED  BY <1>3, LastReadKeeps DEF Refuses

(* A step that writes nothing and forgets no dirty entry.                  *)
LEMMA DiskUntouched ==
    ASSUME OnDisk, disk' = disk, data' = data, dirty \subseteq dirty'
    PROVE  OnDisk'
BY DEF OnDisk, DiskConsistent

LEMMA Initially ==
    ASSUME Init
    PROVE  IInv
<1>1. /\ index \subseteq Blocks /\ data \subseteq Blocks /\ chainTx \subseteq Blocks
      /\ failedValid \subseteq Blocks /\ failedChild \subseteq Blocks
      /\ unlinked \subseteq Blocks /\ candidates \subseteq Blocks
      /\ dirty \subseteq Blocks /\ tip \in Blocks /\ address \in Layouts
      /\ nSequenceId \in [Blocks -> Nat] /\ nBlockSequenceId \in Nat
  BY Tree DEF Init
<1>2. /\ NPOINTS \in Seq(Checkpoint) /\ last \in Checkpoint
      /\ NPOINTS_last_index \in 0 .. Len(NPOINTS)
  BY DEF Init, Checkpoint, NullCheckpoint
<1>3. /\ ibd \in BOOLEAN /\ stalled \in BOOLEAN /\ act \in Act
      /\ abc \subseteq {"dpow", "skip", "init"}
      /\ mode \in {"run", "down", "aborted"}
      /\ restarts \in Nat /\ invalidates \in Nat /\ reconsiders \in Nat
  BY Zenon DEF Init, Act, idle
<1>4. disk \in Disk
  BY Tree DEF Init, Disk
<1>5. TypeOK
  BY <1>1, <1>2, <1>3, <1>4 DEF TypeOK
<1>6. Downloaded
  BY Tree DEF Init, Downloaded
<1>7. Aims
  BY DEF Init, Aims, idle
<1>8. OnDisk
  BY Tree DEF Init, OnDisk, DiskConsistent
<1> QED  BY <1>5, <1>6, <1>7, <1>8 DEF IInv

-----------------------------------------------------------------------------
(* Headers and blocks from the network.                                    *)

(* A walk over the checkpoints stops at one of them or at the end.         *)
LEMMA WalkStops ==
    ASSUME NEW NP \in Seq(Checkpoint), NEW from \in 0 .. Len(NP), NEW h \in Nat
    PROVE  Stop(NP, from, h) \in from .. Len(NP)
<1> DEFINE breaks == Breaks(NP, from, h)
<1>1. Len(NP) \in from .. Len(NP) /\ breaks \subseteq from .. Len(NP)
  BY DEF Breaks
<1>2. CASE breaks = {}
  BY <1>1, <1>2 DEF Stop
<1>3. CASE breaks # {}
  <2>1. Stop(NP, from, h) \in breaks
    BY <1>3, Zenon DEF Stop
  <2> QED  BY <1>1, <2>1
<1> QED  BY <1>2, <1>3

(* The index that NotarizedData leaves behind stays within NPOINTS.        *)
LEMMA SearchesType ==
    ASSUME TypeOK, NEW b \in Blocks, HeaderSearches(b), NPOINTS' = NPOINTS
    PROVE  NPOINTS_last_index' \in 0 .. Len(NPOINTS')
<1> DEFINE h == nHeight[tip]
           li == NPOINTS_last_index
<1>1. h \in Nat
  BY Tree DEF TypeOK
<1>2. NPOINTS \in Seq(Checkpoint) /\ li \in 0 .. Len(NPOINTS)
  BY DEF TypeOK
<1>3. Len(NPOINTS) \in Nat /\ 0 \in 0 .. Len(NPOINTS)
  BY <1>2
<1>4. Stop(NPOINTS, 0, h) \in 0 .. Len(NPOINTS) /\ Stop(NPOINTS, li, h) \in li .. Len(NPOINTS)
  <2> HIDE DEF h, li
  <2> QED  BY <1>1, <1>2, <1>3, WalkStops, Zenon
<1>5. NotarizedDataIndex(NPOINTS, li, h) \in 0 .. Len(NPOINTS)
  <2> HIDE DEF h, li
  <2> QED  BY <1>2, <1>3, <1>4 DEF NotarizedDataIndex
<1> QED  BY <1>2, <1>5 DEF HeaderSearches

LEMMA TurnType ==
    ASSUME NEW L \in SUBSET Blocks, NEW x, NEW first
    PROVE  Turn(x, L, first) \in Nat /\ Cardinality(L) \in Nat
<1>1. {y \in L : Before(y, x, first)} \in SUBSET Blocks
  OBVIOUS
<1> QED  BY <1>1, ChainAssumption DEF Turn

(* A block that is linked has all its ancestors: those above b waited in   *)
(* mapBlocksUnlinked with their data, those below b were linked before.    *)
LEMMA ReceivedStep ==
    ASSUME IInv, NEW b \in Blocks \ {Genesis}, ReceivedBlockTransactions(b),
           tip' = tip, index' = index \cup {b}
    PROVE  /\ data' \subseteq Blocks /\ chainTx' \subseteq Blocks
           /\ nSequenceId' \in [Blocks -> Nat] /\ nBlockSequenceId' \in Nat
           /\ unlinked' \subseteq Blocks /\ candidates' \subseteq Blocks
           /\ Downloaded'
<1> DEFINE L == Linkable(b)
<1>1. /\ L \subseteq unlinked \cup {b} /\ L \in SUBSET Blocks
  BY DEF Linkable, IInv, TypeOK
<1>2. data' = data \cup {b}
  BY DEF ReceivedBlockTransactions
<1>3. CASE pprev[b] \in chainTx
  <2>1. /\ chainTx' = chainTx \cup L /\ unlinked' = unlinked \ L
        /\ nBlockSequenceId' = nBlockSequenceId + Cardinality(L)
        /\ candidates' \subseteq candidates \cup L
    BY <1>3 DEF ReceivedBlockTransactions
  <2>2. PICK first : nSequenceId' = [x \in Blocks |->
                         IF x \in L THEN nBlockSequenceId + Turn(x, L, first)
                                    ELSE nSequenceId[x]]
    BY <1>3 DEF ReceivedBlockTransactions
  <2>3. \A x : Turn(x, L, first) \in Nat /\ Cardinality(L) \in Nat
    BY <1>1, TurnType
  <2>4. nSequenceId' \in [Blocks -> Nat] /\ nBlockSequenceId' \in Nat
    <3>1. nSequenceId \in [Blocks -> Nat] /\ nBlockSequenceId \in Nat
      BY DEF IInv, TypeOK
    <3> HIDE DEF L
    <3> QED  BY <2>1, <2>2, <2>3, <3>1
  <2>5. \A u \in L : Path[u] \subseteq data'
    <3>1. \A u \in L : Path[u] \subseteq Path[b] \cup unlinked
      BY DEF Linkable
    <3>2. Path[b] = Path[pprev[b]] \cup {b}
      BY Tree
    <3>3. Path[pprev[b]] \subseteq data /\ unlinked \subseteq data
      BY <1>3 DEF IInv, Downloaded
    <3> QED  BY <1>2, <3>1, <3>2, <3>3
  <2>6. Downloaded'
    BY <1>1, <1>2, <2>1, <2>5 DEF IInv, Downloaded
  <2>7. /\ data' \subseteq Blocks /\ chainTx' \subseteq Blocks
        /\ unlinked' \subseteq Blocks /\ candidates' \subseteq Blocks
    BY <1>1, <1>2, <2>1 DEF IInv, TypeOK
  <2> QED  BY <2>4, <2>6, <2>7
<1>4. CASE pprev[b] \notin chainTx
  <2>1. /\ unlinked' \subseteq unlinked \cup {b}
        /\ UNCHANGED <<chainTx, nSequenceId, nBlockSequenceId, candidates>>
    BY <1>4 DEF ReceivedBlockTransactions
  <2> QED  BY <1>2, <2>1 DEF IInv, TypeOK, Downloaded
<1> QED  BY <1>3, <1>4

(* What FindMostWorkChain chooses from, and what it marks.                 *)
LEMMA Found ==
    ASSUME IInv
    PROVE  /\ MostWork \subseteq candidates /\ Erased \subseteq Blocks
           /\ \A m \in MostWork : m \in Blocks /\ Path[m] \subseteq data
           /\ Eligible \subseteq chainTx
           /\ \A S, t : NotWorse(S, t) \subseteq S
<1>1. MostWork \subseteq candidates
  BY DEF MostWork
<1>2. Erased \subseteq Blocks
  <2>1. \A c \in Rejected : c \in Blocks
    BY DEF Rejected, IInv, TypeOK
  <2>2. \A c \in Rejected : FailedSegment(c) \subseteq Blocks
    BY <2>1, Tree DEF FailedSegment
  <2> QED  BY <2>2 DEF Erased
<1>3. \A m \in MostWork : m \in Blocks /\ Path[m] \subseteq data
  BY <1>1 DEF IInv, TypeOK, Downloaded
<1>4. Eligible \subseteq chainTx /\ \A S, t : NotWorse(S, t) \subseteq S
  BY DEF Eligible, NotWorse
<1> QED  BY <1>1, <1>2, <1>3, <1>4

(* A notarisation is recorded with the height of a known kind of block.    *)
LEMMA NotaryTypes ==
    ASSUME TypeOK, NEW b \in Blocks, squishy_connectblock(b)
    PROVE  /\ NPOINTS' \in Seq(Checkpoint) /\ last' \in Checkpoint
           /\ Len(NPOINTS) <= Len(NPOINTS')
<1> DEFINE cp == [nHeight |-> nHeight[b], notarized_height |-> nHeight[Ntz[b]],
                  notarized_hash |-> Ntz[b], MoMdepth |-> 0]
<1>1. NPOINTS \in Seq(Checkpoint) /\ last \in Checkpoint
  BY DEF TypeOK
<1>2. CASE Notarises(b)
  <2>1. Ntz[b] \in Blocks
    BY <1>2, ChainAssumption DEF Notarises
  <2>2. cp \in Checkpoint
    BY <2>1, Tree, ChainAssumption DEF Checkpoint
  <2>3. NPOINTS' = Append(NPOINTS, cp) /\ last' = cp
    BY <1>2 DEF squishy_connectblock
  <2> HIDE DEF cp
  <2> QED  BY <1>1, <2>2, <2>3
<1>3. CASE ~Notarises(b)
  BY <1>1, <1>3 DEF squishy_connectblock
<1> QED  BY <1>2, <1>3

LEMMA LoadStep ==
    ASSUME IInv, NEW d \in Disk, Path[d.tip] \subseteq d.data,
           d.data \subseteq d.index, LoadBlockIndexDB(d)
    PROVE  IInv' /\ Kept
<1>1. /\ disk' = d /\ index' = d.index /\ data' = d.data
      /\ failedValid' = d.failedValid /\ failedChild' = d.failedChild
      /\ chainTx' = d.data \ LoadedUnlinked(d) /\ unlinked' = LoadedUnlinked(d)
      /\ address' \in Layouts /\ tip' = d.tip
      /\ candidates' \subseteq chainTx' /\ dirty' = {}
      /\ restarts' = restarts + 1
  BY DEF LoadBlockIndexDB, LoadedCandidates
<1>2. /\ d.index \subseteq Blocks /\ d.data \subseteq Blocks /\ d.tip \in Blocks
      /\ d.failedValid \subseteq Blocks /\ d.failedChild \subseteq Blocks
  BY DEF Disk
<1>3. LoadedUnlinked(d) \subseteq d.data
  BY DEF LoadedUnlinked
<1>4. \A b \in d.data \ LoadedUnlinked(d) : Path[b] \subseteq d.data
  BY DEF LoadedUnlinked
<1>5. nSequenceId' \in [Blocks -> Nat] /\ nBlockSequenceId' \in Nat
  BY DEF LoadBlockIndexDB
<1>6. /\ NPOINTS' \in Seq(Checkpoint) /\ last' \in Checkpoint
      /\ NPOINTS_last_index' \in 0 .. Len(NPOINTS')
  <2>1. NPOINTS \in Seq(Checkpoint) /\ NPOINTS' = NPOINTS /\ NPOINTS_last_index' = 0
    BY DEF IInv, TypeOK, LoadBlockIndexDB
  <2>2. CASE NPOINTS = <<>>
    <3>1. last' = NullCheckpoint
      BY <2>2 DEF LoadBlockIndexDB
    <3>2. NullCheckpoint \in Checkpoint
      BY DEF NullCheckpoint, Checkpoint
    <3>3. Len(NPOINTS') = 0
      BY <2>1, <2>2
    <3> QED  BY <2>1, <3>1, <3>2, <3>3
  <2>3. CASE NPOINTS # <<>>
    <3>1. Len(NPOINTS) \in 1 .. Len(NPOINTS)
      BY <2>1, <2>3
    <3>2. last' = NPOINTS[Len(NPOINTS)]
      BY <2>3 DEF LoadBlockIndexDB
    <3> QED  BY <2>1, <3>1, <3>2
  <2> QED  BY <2>2, <2>3
<1>7. /\ ibd' \in BOOLEAN /\ stalled' \in BOOLEAN /\ act' \in Act
      /\ abc' \subseteq {"dpow", "skip", "init"}
      /\ mode' \in {"run", "down", "aborted"} /\ act' = idle
      /\ restarts' \in Nat /\ invalidates' \in Nat /\ reconsiders' \in Nat
  <2>1. idle \in Act
    BY DEF Act, idle
  <2>2. act' = idle /\ ibd' = TRUE /\ stalled' = FALSE /\ abc' = {"init"}
    BY Zenon DEF LoadBlockIndexDB
  <2>3. mode' \in {"run", "down", "aborted"}
    BY DEF LoadBlockIndexDB
  <2>4. restarts' \in Nat /\ invalidates' \in Nat /\ reconsiders' \in Nat
    <3>1. restarts \in Nat /\ invalidates \in Nat /\ reconsiders \in Nat
      BY DEF IInv, TypeOK
    <3>2. restarts' = restarts + 1 /\ UNCHANGED <<invalidates, reconsiders>>
      BY DEF LoadBlockIndexDB
    <3> QED  BY <3>1, <3>2
  <2> QED  BY <2>1, <2>2, <2>3, <2>4, Zenon
<1>8. TypeOK'
  BY <1>1, <1>2, <1>3, <1>5, <1>6, <1>7 DEF TypeOK
<1>9. Downloaded'
  BY <1>1, <1>3, <1>4 DEF Downloaded
<1>10. Aims'
  BY <1>7 DEF Aims, idle
<1>11. OnDisk'
  BY <1>1 DEF OnDisk, DiskConsistent
<1>12. Kept
  <2>1. restarts \in Nat
    BY DEF IInv, TypeOK
  <2>2. restarts' # restarts
    BY <1>1, <2>1
  <2> QED  BY <2>2 DEF Kept
<1> QED  BY <1>8, <1>9, <1>10, <1>11, <1>12 DEF IInv

-----------------------------------------------------------------------------
(* Every step keeps the invariant, and the notarised block on the chain.   *)
LEMMA NextStep ==
    ASSUME IInv, Next
    PROVE  IInv' /\ Kept
<1>1. ASSUME NEW b \in Blocks, ProcessNewHeader(b)
      PROVE  IInv' /\ Kept
  <2> USE <1>1
  <2>1. NPOINTS_last_index' \in 0 .. Len(NPOINTS')
    BY SearchesType DEF IInv, ProcessNewHeader, HeaderAccepted
  <2>2. TypeOK'
    BY <2>1 DEF IInv, TypeOK, ProcessNewHeader, HeaderAccepted, counts
  <2>3. Downloaded' /\ Aims'
    BY DEF IInv, Downloaded, Aims, ProcessNewHeader, HeaderAccepted
  <2>4. OnDisk'
    BY DiskUntouched DEF IInv, ProcessNewHeader
  <2> QED  BY <2>2, <2>3, <2>4 DEF IInv, Kept, ProcessNewHeader
<1>2. ASSUME NEW b \in Blocks, HeaderRefused(b)
      PROVE  IInv' /\ Kept
  <2> USE <1>2
  <2>1. NPOINTS_last_index' \in 0 .. Len(NPOINTS')
    BY SearchesType DEF IInv, HeaderRefused
  <2>2. TypeOK'
    BY <2>1 DEF IInv, TypeOK, HeaderRefused, chain, counts
  <2>3. Downloaded' /\ Aims'
    BY DEF IInv, Downloaded, Aims, HeaderRefused, chain
  <2>4. OnDisk'
    BY DiskUntouched DEF IInv, HeaderRefused, chain
  <2> QED  BY <2>2, <2>3, <2>4 DEF IInv, Kept, HeaderRefused, chain
<1>3. ASSUME NEW b \in Blocks \ {Genesis}, NEW fRequested \in BOOLEAN, ProcessNewBlock(b, fRequested)
      PROVE  IInv' /\ Kept
  <2> USE <1>3
  <2>1. NPOINTS_last_index' \in 0 .. Len(NPOINTS')
    BY SearchesType DEF IInv, ProcessNewBlock, HeaderAccepted
  <2>2. /\ index' = index \cup {b} /\ failedChild' = failedChild \ {b}
        /\ failedValid' \subseteq failedValid \cup {b}
        /\ abc' \subseteq abc \cup {"dpow"}
        /\ dirty \subseteq dirty' /\ dirty' \subseteq dirty \cup {b}
        /\ UNCHANGED <<tip, address, NPOINTS, last, ibd, act, stalled, mode, disk,
                       restarts, invalidates, reconsiders>>
    BY DEF ProcessNewBlock, HeaderAccepted, counts
  <2>3. /\ data' \subseteq Blocks /\ chainTx' \subseteq Blocks
        /\ nSequenceId' \in [Blocks -> Nat] /\ nBlockSequenceId' \in Nat
        /\ unlinked' \subseteq Blocks /\ candidates' \subseteq Blocks
        /\ Downloaded'
        /\ data \subseteq data' /\ data' \subseteq data \cup dirty'
    <3>1. CASE Stores(b, fRequested) /\ b \notin BadContext
      <4>1. ReceivedBlockTransactions(b) /\ dirty' = dirty \cup {b}
        BY <3>1, Zenon DEF ProcessNewBlock
      <4>2. data' = data \cup {b}
        BY <4>1, Zenon DEF ReceivedBlockTransactions
      <4> QED  BY <2>2, <4>1, <4>2, ReceivedStep
    <3>2. CASE ~(Stores(b, fRequested) /\ b \notin BadContext)
      <4>1. UNCHANGED <<data, chainTx, nSequenceId, nBlockSequenceId, unlinked,
                        candidates>>
        BY <3>2 DEF ProcessNewBlock
      <4> QED  BY <2>2, <4>1 DEF IInv, TypeOK, Downloaded
    <3> QED  BY <3>1, <3>2
  <2>4. TypeOK'
    BY <2>1, <2>2, <2>3, Zenon DEF IInv, TypeOK
  <2>5. Aims'
    BY <2>2, <2>3, Zenon DEF IInv, Aims
  <2>6. OnDisk'
    BY <2>2, <2>3 DEF IInv, OnDisk, DiskConsistent
  <2> QED  BY <2>2, <2>3, <2>4, <2>5, <2>6 DEF IInv, Kept
<1>4. ASSUME NEW kind \in {"dpow", "skip", "init"}, ActivateBestChainDone(kind)
      PROVE  IInv' /\ Kept
  <2> USE <1>4
  <2>1. failedChild' \subseteq Blocks
    BY Found DEF IInv, TypeOK, ActivateBestChainDone, FindMostWorkChain
  <2>2. TypeOK'
    BY <2>1, Zenon DEF IInv, TypeOK, ActivateBestChainDone, Return, notary, counts
  <2>3. Downloaded' /\ Aims'
    BY Zenon DEF IInv, Downloaded, Aims, ActivateBestChainDone
  <2>4. OnDisk'
    BY DiskUntouched, Zenon DEF IInv, ActivateBestChainDone
  <2> QED  BY <2>2, <2>3, <2>4, Zenon DEF IInv, Kept, ActivateBestChainDone
<1>5. ASSUME NEW kind \in {"dpow", "skip", "init"}, ActivateBestChainIgnores(kind)
      PROVE  IInv' /\ Kept
  <2> USE <1>5
  <2>1. PICK m \in MostWork \ {tip} :
            /\ failedValid' = failedValid \cup {m}
            /\ dirty' = dirty \cup {m}
            /\ candidates' = ((candidates \ Erased) \ {m}) \cup
                   NotWorse(Eligible \ (Erased \cup {m}), tip)
    BY Zenon DEF ActivateBestChainIgnores
  <2>2. candidates' \subseteq chainTx /\ m \in Blocks
    BY <2>1, Found DEF IInv, Downloaded
  <2>3. failedChild' \subseteq Blocks
    BY Found, Zenon DEF IInv, TypeOK, ActivateBestChainIgnores, FindMostWorkChain
  <2>4. last' \in Checkpoint
    BY LastReadType DEF IInv, TypeOK, ActivateBestChainIgnores
  <2>5. TypeOK'
    BY <2>1, <2>2, <2>3, <2>4, Zenon
       DEF IInv, TypeOK, ActivateBestChainIgnores, Fail, counts
  <2>6. Downloaded' /\ Aims'
    BY <2>2, Zenon DEF IInv, Downloaded, Aims, ActivateBestChainIgnores
  <2>7. OnDisk'
    BY <2>1, DiskUntouched, Zenon DEF IInv, ActivateBestChainIgnores
  <2> QED  BY <2>5, <2>6, <2>7 DEF IInv, Kept, ActivateBestChainIgnores
<1>6. ASSUME NEW kind \in {"dpow", "skip", "init"}, ActivateBestChainShutdown(kind)
      PROVE  IInv' /\ Kept
  <2> USE <1>6
  <2>1. failedChild' \subseteq Blocks
    BY Found, Zenon DEF IInv, TypeOK, ActivateBestChainShutdown, FindMostWorkChain
  <2>2. last' \in Checkpoint
    BY LastReadType, Zenon DEF IInv, TypeOK, ActivateBestChainShutdown
  <2>3. TypeOK'
    BY <2>1, <2>2 DEF IInv, TypeOK, ActivateBestChainShutdown, counts
  <2>4. Downloaded' /\ Aims'
    BY Zenon DEF IInv, Downloaded, Aims, ActivateBestChainShutdown
  <2>5. OnDisk'
    BY DiskUntouched DEF IInv, ActivateBestChainShutdown
  <2> QED  BY <2>3, <2>4, <2>5 DEF IInv, Kept, ActivateBestChainShutdown
<1>7. ASSUME NEW kind \in {"dpow", "skip", "init"}, ActivateBestChainStep(kind)
      PROVE  IInv' /\ Kept
  <2> USE <1>7
  <2>1. PICK m \in MostWork \ {tip} :
            act' = [op |-> "step", target |-> m, kind |-> kind, oldTip |-> tip]
    BY Zenon DEF ActivateBestChainStep
  <2>2. m \in Blocks /\ Path[m] \subseteq data
    BY Found, Zenon
  <2>3. act' \in Act
    BY <2>1, <2>2 DEF Act, IInv, TypeOK
  <2>4. failedChild' \subseteq Blocks
    BY Found, Zenon DEF IInv, TypeOK, ActivateBestChainStep, FindMostWorkChain
  <2>5. last' \in Checkpoint
    BY LastReadType, Zenon DEF IInv, TypeOK, ActivateBestChainStep
  <2>6. TypeOK'
    BY <2>3, <2>4, <2>5 DEF IInv, TypeOK, ActivateBestChainStep, counts
  <2>7. Downloaded'
    BY Zenon DEF IInv, Downloaded, ActivateBestChainStep
  <2>8. Aims'
    <3>1. act'.op = "step" /\ act'.target = m /\ data' = data
      BY <2>1 DEF ActivateBestChainStep
    <3> QED  BY <2>2, <3>1 DEF Aims
  <2>9. OnDisk'
    BY DiskUntouched DEF IInv, ActivateBestChainStep
  <2> QED  BY <2>6, <2>7, <2>8, <2>9, Zenon DEF IInv, Kept, ActivateBestChainStep
<1>8. ASSUME Disconnect
      PROVE  IInv' /\ Kept
  <2> USE <1>8
  <2>1. act.target \in Blocks /\ tip \in Blocks
    BY ActTypes DEF IInv, TypeOK, Disconnect
  <2>2. tip # Genesis
    BY <2>1, NotGenesis, Zenon DEF Disconnect
  <2>3. Kept /\ tip' \in Blocks /\ Path[tip'] \subseteq Path[tip]
    BY <2>2, DisconnectKeeps DEF Disconnect
  <2>4. Path[tip'] \subseteq data
    BY <2>3 DEF IInv, Downloaded
  <2>5. disk' \in Disk /\ dirty' \subseteq Blocks /\ OnDisk'
    <3>1. FlushStateToDisk(dirty, failedChild, tip', FALSE) /\ data' = data
      BY Zenon DEF Disconnect
    <3>2. dirty \in SUBSET Blocks /\ failedChild \in SUBSET Blocks
      BY Zenon DEF IInv, TypeOK
    <3> QED  BY <2>3, <2>4, <3>1, <3>2, FlushKeeps, Zenon
  <2>6. last' \in Checkpoint
    BY LastReadType DEF IInv, TypeOK, Disconnect
  <2>7. TypeOK'
    BY <2>3, <2>5, <2>6, Zenon DEF IInv, TypeOK, Disconnect, counts
  <2>8. Downloaded' /\ Aims'
    BY <2>4, Zenon DEF IInv, Downloaded, Aims, Disconnect
  <2> QED  BY <2>3, <2>5, <2>7, <2>8, Zenon DEF IInv
<1>9. ASSUME DisconnectRefused
      PROVE  IInv' /\ Kept
  <2> USE <1>9
  <2>1. TypeOK'
    BY Zenon DEF IInv, TypeOK, DisconnectRefused, Fail, Act, idle, chain, notary, counts
  <2>2. Downloaded' /\ Aims'
    BY Zenon DEF IInv, Downloaded, Aims, DisconnectRefused, idle, chain
  <2>3. OnDisk'
    BY DiskUntouched, Zenon DEF IInv, DisconnectRefused, chain
  <2> QED  BY <2>1, <2>2, <2>3 DEF IInv, Kept, DisconnectRefused, chain
<1>10. ASSUME ConnectFails
      PROVE  IInv' /\ Kept
  <2> USE <1>10
  <2>1. PICK b \in BadConnect : /\ failedValid' = failedValid \cup {b}
                                /\ dirty' = dirty \cup {b}
                                /\ candidates' = candidates \ {b}
    BY DEF ConnectFails
  <2>2. b \in Blocks
    BY TreeAssumption
  <2>3. TypeOK'
    BY <2>1, <2>2, Zenon DEF IInv, TypeOK, ConnectFails, Act, idle, notary, counts
  <2>4. Downloaded' /\ Aims'
    BY <2>1, Zenon DEF IInv, Downloaded, Aims, ConnectFails, idle
  <2>5. OnDisk'
    BY <2>1, DiskUntouched, Zenon DEF IInv, ConnectFails
  <2> QED  BY <2>3, <2>4, <2>5, Zenon DEF IInv, Kept, ConnectFails
<1>11. ASSUME Connect
      PROVE  IInv' /\ Kept
  <2> USE <1>11
  <2>1. PICK b \in Path[act.target] \ (BadConnect \cup {Genesis}) :
            /\ pprev[b] = tip
            /\ ConnectTip(b)
            /\ act' = IF \/ b = act.target
                         \/ nChainWork[b] > nChainWork[act.oldTip]
                      THEN idle ELSE act
            /\ IF b = act.target
               THEN abc' = abc \ {act.kind} /\ stalled' = FALSE
               ELSE UNCHANGED <<abc, stalled>>
            /\ FlushStateToDisk(dirty \cup {b}, failedChild, b, b = act.target)
    BY Zenon DEF Connect
  <2>2. act.target \in Blocks /\ Path[act.target] \subseteq data
    BY ActTypes, Zenon DEF IInv, TypeOK, Aims, Connect
  <2>3. b \in Blocks /\ b \in data /\ Path[b] = Path[tip] \cup {b}
    BY <2>1, <2>2, Tree, Zenon
  <2>4. Path[b] \subseteq data
    BY <2>3 DEF IInv, Downloaded
  <2>5. /\ tip' = b /\ candidates' = NotWorse(candidates, b)
        /\ UNCHANGED <<index, data, chainTx, failedValid, failedChild, nSequenceId,
                       nBlockSequenceId, unlinked, address, NPOINTS_last_index,
                       ibd, restarts, invalidates, reconsiders>>
    BY <2>1, Zenon DEF ConnectTip, counts
  <2>6. disk' \in Disk /\ dirty' \subseteq Blocks /\ OnDisk'
    <3>1. dirty \cup {b} \in SUBSET Blocks /\ failedChild \in SUBSET Blocks
      BY <2>3, Zenon DEF IInv, TypeOK
    <3>2. dirty \subseteq dirty \cup {b} /\ (b = act.target) \in BOOLEAN /\ data' = data
      BY <2>5, Zenon
    <3> QED  BY <2>1, <2>3, <2>4, <3>1, <3>2, FlushKeeps, Zenon
  <2>7. /\ NPOINTS' \in Seq(Checkpoint) /\ last' \in Checkpoint
        /\ NPOINTS_last_index' \in 0 .. Len(NPOINTS')
    <3>1. /\ NPOINTS' \in Seq(Checkpoint) /\ last' \in Checkpoint
          /\ Len(NPOINTS) <= Len(NPOINTS')
      BY <2>1, <2>3, NotaryTypes, Zenon DEF IInv, ConnectTip
    <3>2. NPOINTS_last_index \in 0 .. Len(NPOINTS) /\ NPOINTS \in Seq(Checkpoint)
      BY Zenon DEF IInv, TypeOK
    <3>3. NPOINTS_last_index' = NPOINTS_last_index
      BY <2>5, Zenon
    <3>4. Len(NPOINTS) \in Nat /\ Len(NPOINTS') \in Nat
      <4>1. \A s \in Seq(Checkpoint) : Len(s) \in Nat
        OBVIOUS
      <4> QED  BY <3>1, <3>2, <4>1, Zenon
    <3>5. NPOINTS_last_index' \in 0 .. Len(NPOINTS')
      BY <3>1, <3>2, <3>3, <3>4
    <3> QED  BY <3>1, <3>5, Zenon
  <2>8. candidates' \subseteq candidates
    BY <2>5 DEF NotWorse
  <2>9. act' \in Act /\ (act' = act \/ act' = idle)
    BY <2>1, Zenon DEF IInv, TypeOK, Act, idle
  <2>10. abc' \subseteq {"dpow", "skip", "init"} /\ stalled' \in BOOLEAN
         /\ mode' \in {"run", "down", "aborted"}
    BY <2>1, Zenon DEF IInv, TypeOK, Connect
  <2>11. TypeOK'
    BY <2>3, <2>5, <2>6, <2>7, <2>8, <2>9, <2>10, Zenon DEF IInv, TypeOK
  <2>12. Downloaded'
    BY <2>4, <2>5, <2>8, Zenon DEF IInv, Downloaded
  <2>13. Aims'
    <3>1. CASE act' = idle
      BY <3>1, Zenon DEF Aims, idle
    <3>2. CASE act' = act
      BY <2>5, <3>2, Zenon DEF IInv, Aims
    <3> QED  BY <2>9, <3>1, <3>2, Zenon
  <2>14. Kept
    BY <2>3, <2>5 DEF Kept
  <2> QED  BY <2>6, <2>11, <2>12, <2>13, <2>14 DEF IInv
<1>12. ASSUME NEW b \in Blocks, InvalidateBlock(b)
      PROVE  IInv' /\ Kept
  <2> USE <1>12
  <2>1. act' \in Act
    BY Zenon DEF InvalidateBlock, Act
  <2>2. TypeOK'
    BY <2>1 DEF IInv, TypeOK, InvalidateBlock, notary
  <2>3. Downloaded'
    BY Zenon DEF IInv, Downloaded, InvalidateBlock
  <2>4. Aims'
    <3>1. act'.op = "invalidate" /\ act'.target = b /\ b # Genesis
      BY DEF InvalidateBlock
    <3> QED  BY <3>1, Zenon DEF Aims
  <2>5. OnDisk'
    BY DiskUntouched DEF IInv, InvalidateBlock
  <2> QED  BY <2>2, <2>3, <2>4, <2>5, Zenon DEF IInv, Kept, InvalidateBlock
<1>13. ASSUME InvalidateDisconnect
      PROVE  IInv' /\ Kept
  <2> USE <1>13
  <2>1. tip \in Blocks /\ tip # Genesis
    <3>1. act.target # Genesis /\ act.target \in Path[tip]
      BY DEF IInv, Aims, InvalidateDisconnect
    <3> QED  BY <3>1, Tree DEF IInv, TypeOK
  <2>2. /\ failedChild' = failedChild \cup {tip} /\ candidates' = candidates \ {tip}
        /\ UNCHANGED <<index, data, chainTx, failedValid, nSequenceId,
                       nBlockSequenceId, unlinked, address, NPOINTS,
                       NPOINTS_last_index, ibd, abc, stalled, mode, restarts,
                       invalidates, reconsiders>>
    BY Zenon DEF InvalidateDisconnect, counts
  <2>3. last' \in Checkpoint
    BY LastReadType, Zenon DEF IInv, TypeOK, InvalidateDisconnect
  <2>4. act' \in Act /\ (act' = act \/ act' = idle)
    <3>1. act' = act \/ act' = idle
      BY Zenon DEF InvalidateDisconnect
    <3>2. act \in Act /\ idle \in Act
      BY DEF IInv, TypeOK, Act, idle
    <3> QED  BY <3>1, <3>2
  <2>5. /\ disk' \in Disk /\ dirty' \subseteq Blocks /\ OnDisk'
        /\ tip' \in Blocks /\ Path[tip'] \subseteq data /\ Kept
    <3>1. CASE Refuses
      <4>1. dirty' = dirty \cup {tip} /\ tip' = tip /\ disk' = disk /\ data' = data
        BY <3>1 DEF InvalidateDisconnect
      <4>2. OnDisk'
        BY <4>1, DiskUntouched DEF IInv
      <4> QED  BY <2>1, <4>1, <4>2 DEF IInv, TypeOK, Downloaded, Kept
    <3>2. CASE ~Refuses
      <4>1. /\ tip' = pprev[tip] /\ data' = data
            /\ FlushStateToDisk(dirty \cup {tip}, failedChild \cup {tip}, tip', FALSE)
        BY <3>2, Zenon DEF InvalidateDisconnect
      <4>2. Kept /\ tip' \in Blocks /\ Path[tip'] \subseteq Path[tip]
        BY <2>1, <3>2, <4>1, DisconnectKeeps
      <4>3. Path[tip'] \subseteq data
        BY <4>2 DEF IInv, Downloaded
      <4>4. /\ dirty \cup {tip} \in SUBSET Blocks /\ dirty \subseteq dirty \cup {tip}
            /\ failedChild \cup {tip} \in SUBSET Blocks
        BY <2>1 DEF IInv, TypeOK
      <4>5. disk' \in Disk /\ dirty' \subseteq Blocks /\ OnDisk'
        BY <4>1, <4>2, <4>3, <4>4, FlushKeeps, Zenon
      <4> QED  BY <4>2, <4>3, <4>5
    <3> QED  BY <3>1, <3>2
  <2>6. TypeOK'
    BY <2>1, <2>2, <2>3, <2>4, <2>5, Zenon DEF IInv, TypeOK
  <2>7. Downloaded'
    BY <2>2, <2>5, Zenon DEF IInv, Downloaded
  <2>8. Aims'
    <3>1. CASE act' = idle
      BY <3>1 DEF Aims, idle
    <3>2. CASE act' = act
      BY <2>2, <3>2 DEF IInv, Aims
    <3> QED  BY <2>4, <3>1, <3>2
  <2> QED  BY <2>5, <2>6, <2>7, <2>8, Zenon DEF IInv
<1>14. ASSUME InvalidateDone
      PROVE  IInv' /\ Kept
  <2> USE <1>14
  <2>1. candidates' \subseteq chainTx
    BY Found, Zenon DEF IInv, Downloaded, InvalidateDone
  <2>2. TypeOK'
    BY <2>1, Zenon DEF IInv, TypeOK, InvalidateDone, Act, idle, notary, counts
  <2>3. Downloaded' /\ Aims'
    BY <2>1, Zenon DEF IInv, Downloaded, Aims, InvalidateDone, idle
  <2>4. OnDisk'
    BY DiskUntouched DEF IInv, InvalidateDone
  <2> QED  BY <2>2, <2>3, <2>4, Zenon DEF IInv, Kept, InvalidateDone
<1>15. ASSUME NEW b \in Blocks, ReconsiderBlock(b)
      PROVE  IInv' /\ Kept
  <2> USE <1>15
  <2>1. /\ failedValid' \subseteq failedValid /\ failedChild' \subseteq failedChild
        /\ candidates' \subseteq candidates \cup chainTx
        /\ dirty \subseteq dirty'
        /\ abc' = abc \cup {"skip"} /\ reconsiders' = reconsiders + 1
        /\ UNCHANGED <<index, data, chainTx, nSequenceId, nBlockSequenceId,
                       unlinked, tip, address, NPOINTS, NPOINTS_last_index, last,
                       ibd, act, stalled, mode, disk, restarts, invalidates>>
    BY Zenon DEF ReconsiderBlock, notary
  <2>2. dirty' \subseteq Blocks
    <3>1. Path[b] \subseteq Blocks
      BY Tree, Zenon
    <3> QED  BY <3>1, Zenon DEF IInv, TypeOK, ReconsiderBlock
  <2>3. TypeOK'
    <3>1. /\ failedValid' \subseteq Blocks /\ failedChild' \subseteq Blocks
          /\ candidates' \subseteq Blocks /\ abc' \subseteq {"dpow", "skip", "init"}
          /\ reconsiders' \in Nat
      BY <2>1 DEF IInv, TypeOK
    <3> QED  BY <2>1, <2>2, <3>1 DEF IInv, TypeOK
  <2>4. Downloaded' /\ Aims'
    BY <2>1, Zenon DEF IInv, Downloaded, Aims
  <2>5. OnDisk'
    BY <2>1, DiskUntouched DEF IInv
  <2> QED  BY <2>1, <2>3, <2>4, <2>5 DEF IInv, Kept
<1>16. ASSUME Crash
      PROVE  IInv' /\ Kept
  <2>1. disk \in Disk /\ Path[disk.tip] \subseteq disk.data /\ disk.data \subseteq disk.index
    BY DEF IInv, TypeOK, OnDisk, DiskConsistent
  <2>2. LoadBlockIndexDB(disk) \/ LoadBlockIndexDB(IndexWritten)
    BY <1>16 DEF Crash
  <2>3. CASE LoadBlockIndexDB(disk)
    BY <2>1, <2>3, LoadStep
  <2>4. CASE LoadBlockIndexDB(IndexWritten)
    <3>1. /\ IndexWritten \in Disk /\ Path[IndexWritten.tip] \subseteq IndexWritten.data
          /\ IndexWritten.data \subseteq IndexWritten.index
      BY IndexWrittenDisk
    <3> QED  BY <2>4, <3>1, LoadStep
  <2> QED  BY <2>2, <2>3, <2>4
<1>17. ASSUME StopAndRestart
      PROVE  IInv' /\ Kept
  <2> USE <1>17
  <2> DEFINE d == Flushed(dirty, failedChild, tip)
  <2>1. /\ TypeOK /\ OnDisk /\ dirty \in SUBSET Blocks /\ failedChild \in SUBSET Blocks
        /\ tip \in Blocks /\ Path[tip] \subseteq data /\ dirty \subseteq dirty
    BY Zenon DEF IInv, TypeOK, Downloaded
  <2>2. /\ d \in Disk /\ d.data \subseteq data /\ data \subseteq d.data
        /\ d.tip = tip /\ data \subseteq d.index
    BY <2>1, FlushedDisk, Zenon
  <2>3. LoadBlockIndexDB(d)
    BY DEF StopAndRestart
  <2>4. Path[d.tip] \subseteq d.data /\ d.data \subseteq d.index
    BY <2>1, <2>2
  <2> HIDE DEF d
  <2> QED  BY <2>2, <2>3, <2>4, LoadStep
<1>18. CASE Network
  BY <1>18, <1>1, <1>2, <1>3 DEF Network
<1>19. CASE Activation
  BY <1>19, <1>4, <1>5, <1>6, <1>7, <1>8,
     <1>9, <1>10, <1>11 DEF Activation
<1>20. CASE RPC
  BY <1>20, <1>12, <1>15, <1>13,
     <1>14 DEF RPC
<1>21. CASE Crash
  BY <1>21, <1>16
<1>22. CASE StopAndRestart
  BY <1>22, <1>17
<1>23. CASE LeaveIBD
  <2>1. /\ ibd' = FALSE
        /\ UNCHANGED <<index, data, chainTx, failedValid, failedChild, nSequenceId,
                       nBlockSequenceId, unlinked, candidates, dirty, tip, address>>
        /\ UNCHANGED <<NPOINTS, NPOINTS_last_index, last, act, abc, stalled, mode,
                       disk, restarts, invalidates, reconsiders>>
    BY <1>23 DEF LeaveIBD, chain, notary, counts
  <2> QED  BY <2>1, Zenon DEF IInv, TypeOK, Downloaded, Aims, OnDisk, DiskConsistent, Kept
<1>24. CASE Halted
  BY <1>24, Zenon DEF Halted, vars, chain, notary, counts, IInv, TypeOK, Downloaded, Aims,
              OnDisk, DiskConsistent, Kept
<1> QED  BY <1>18, <1>19, <1>20, <1>21, <1>22, <1>23, <1>24 DEF Next

LEMMA Stutter ==
    ASSUME IInv, UNCHANGED vars
    PROVE  IInv'
BY Zenon DEF vars, chain, notary, counts, IInv, TypeOK, Downloaded, Aims, OnDisk,
       DiskConsistent

(* The block index, the active chain and the disk stay tied together,      *)
(* whatever the handlers of main.cpp do.                                   *)
THEOREM ChainInvariant == Spec => []IInv
<1>1. Init => IInv
  BY Initially
<1>2. IInv /\ [Next]_vars => IInv'
  BY NextStep, Stutter
<1> QED  BY <1>1, <1>2, PTL DEF Spec

(* Type correctness for any block tree; the cached index of NotarizedData  *)
(* never points outside NPOINTS.                                           *)
THEOREM ChainTypeOK == Spec => []TypeOK
<1>1. IInv => TypeOK
  BY DEF IInv
<1> QED  BY <1>1, ChainInvariant, PTL

(* Every crash, at any point between two flushes, leaves a coins database  *)
(* whose best block LoadBlockIndexDB finds with all its ancestors.         *)
THEOREM ChainDiskConsistent == Spec => []DiskConsistent
<1>1. IInv => DiskConsistent
  BY DEF IInv, OnDisk
<1> QED  BY <1>1, ChainInvariant, PTL

(* DisconnectTip's refusal is enough: no step of any call takes the        *)
(* notarised block off the active chain.                                   *)
THEOREM ChainNotarizedBlockKept == Spec => NotarizedBlockKept
<1>1. IInv /\ [Next]_vars => [Kept]_vars
  BY NextStep
<1>2. Spec => [][Kept]_vars
  BY <1>1, ChainInvariant, PTL DEF Spec
<1>3. [Kept]_vars =>
          [(restarts' = restarts /\ last.notarized_hash \in Path[tip])
               => last.notarized_hash \in Path[tip']]_vars
  BY DEF Kept
<1> QED  BY <1>2, <1>3, PTL DEF NotarizedBlockKept

-----------------------------------------------------------------------------
(* The order of the candidates and the course of a step.                   *)

W(a, b) == Worse(nSequenceId, address, a, b)

(* The active chain is linked and free of blocks that ConnectBlock         *)
(* refuses, in memory and on disk, and no candidate is worse than the tip. *)
Ordered ==
    /\ \A b \in chainTx : Path[b] \subseteq chainTx
    /\ tip \in chainTx /\ unlinked \cap chainTx = {}
    /\ \A c \in candidates : ~W(c, tip)
    /\ Path[tip] \cap BadConnect = {} /\ Path[disk.tip] \cap BadConnect = {}

(* Notarisations give the height of the block they name.                   *)
Named(cp) ==
    cp.notarized_hash \in Blocks => cp.notarized_height = nHeight[cp.notarized_hash]

Heights == Named(last) /\ \A i \in 1 .. Len(NPOINTS) : Named(NPOINTS[i])

(* A reorganisation moves the tip down to the fork and up to its target;   *)
(* the fork is neither too deep nor, for a call from the network, below    *)
(* the notarised height.                                                   *)
Forks ==
    \E f \in Path[act.oldTip] \cap Path[act.target] :
        /\ nHeight[act.oldTip] - nHeight[f] <= MAX_REORG_LENGTH
        /\ (/\ act.kind = "dpow" /\ tip \notin Path[act.target]
            /\ nHeight[act.oldTip] > last.notarized_height)
               => nHeight[f] >= last.notarized_height

Stepping ==
    act.op = "step" =>
        /\ mode = "run" /\ act.kind \in abc
        /\ act.target \in candidates /\ act.oldTip \in chainTx
        /\ W(act.oldTip, act.target)
        /\ Path[act.oldTip] \cap Path[act.target] \subseteq Path[tip]
        /\ tip \in Path[act.oldTip] \cup Path[act.target]
        /\ (Path[act.target] \ Path[act.oldTip]) \cap Failed = {}
        /\ Forks

GInv == IInv /\ Ordered /\ Heights /\ Stepping

-----------------------------------------------------------------------------
(* The order of the candidates.                                            *)

LEMMA Types ==
    ASSUME IInv
    PROVE  /\ tip \in Blocks /\ chainTx \subseteq Blocks /\ candidates \subseteq Blocks
           /\ candidates \subseteq chainTx
           /\ nSequenceId \in [Blocks -> Nat] /\ address \in Layouts
           /\ last \in Checkpoint /\ NPOINTS \in Seq(Checkpoint) /\ act \in Act
           /\ disk \in Disk /\ disk.tip \in Blocks
BY DEF IInv, TypeOK, Downloaded, Disk

LEMMA WOrder ==
    ASSUME IInv
    PROVE  /\ \A a \in Blocks : ~W(a, a)
           /\ \A a, b, c \in Blocks : W(a, b) /\ W(b, c) => W(a, c)
           /\ \A a, b, c \in Blocks : W(a, c) => W(a, b) \/ W(b, c)
           /\ \A a, b \in Blocks : a = b \/ W(a, b) \/ W(b, a)
           /\ \A b \in Blocks : \A a \in Path[b] : a # b => W(a, b) /\ ~W(b, a)
<1>1. nSequenceId \in [Blocks -> Nat] /\ address \in Layouts
  BY Types
<1>2. /\ \A a \in Blocks : ~W(a, a)
      /\ \A a, b, c \in Blocks : W(a, b) /\ W(b, c) => W(a, c)
      /\ \A a, b, c \in Blocks : W(a, c) => W(a, b) \/ W(b, c)
      /\ \A a, b \in Blocks : a = b \/ W(a, b) \/ W(b, a)
  BY <1>1, WorseOrder, Zenon DEF W
<1>3. \A b \in Blocks : \A a \in Path[b] : a # b => W(a, b) /\ ~W(b, a)
  BY WorseBelow DEF W
<1> QED  BY <1>2, <1>3

(* The candidates FindMostWorkChain chooses from are not thrown out, and   *)
(* what it chooses is better than the tip and off the active chain.        *)
LEMMA Chosen ==
    ASSUME IInv, Ordered, NEW m \in MostWork
    PROVE  /\ m \in Blocks /\ m \in candidates /\ m \notin Erased /\ Usable(m)
           /\ m # tip => W(tip, m) /\ m \notin Path[tip]
<1>1. m \in candidates /\ Usable(m) /\ m \in Blocks
  BY Types DEF MostWork
<1>2. ASSUME NEW c \in Rejected PROVE m \notin FailedSegment(c)
  <2>1. c \in candidates /\ ~Usable(c) /\ c \in Blocks
    BY Types DEF Rejected
  <2>2. PICK x \in Path[c] \ Path[tip] : x \in Failed
    BY <2>1 DEF Usable
  <2>3. SUFFICES ASSUME m \in FailedSegment(c) PROVE FALSE
    OBVIOUS
  <2>4. x \in Path[m]
    BY <2>2, <2>3 DEF FailedSegment
  <2> QED  BY <1>1, <2>2, <2>4 DEF Usable
<1>3. m \notin Erased
  BY <1>2 DEF Erased
<1>4. ASSUME m # tip PROVE W(tip, m) /\ m \notin Path[tip]
  <2>1. ~W(m, tip)
    BY <1>1, Zenon DEF Ordered
  <2> QED  BY <1>1, <1>4, <2>1, WOrder, Types
<1> QED  BY <1>1, <1>3, <1>4

-----------------------------------------------------------------------------
(* Steps that leave the chain as it is.                                    *)
Frame ==
    /\ UNCHANGED <<chainTx, nSequenceId, address, tip, unlinked, disk>>
    /\ candidates' \subseteq NotWorse(chainTx, tip)

LEMMA OrderKept ==
    ASSUME Ordered, Frame
    PROVE  Ordered'
BY DEF Ordered, Frame, NotWorse, W

LEMMA Frames ==
    ASSUME GInv,
           \/ \E b \in Blocks : \/ ProcessNewHeader(b) \/ HeaderRefused(b)
                                \/ InvalidateBlock(b) \/ ReconsiderBlock(b)
           \/ \E kind \in {"dpow", "skip", "init"} :
                  \/ ActivateBestChainDone(kind) \/ ActivateBestChainIgnores(kind)
                  \/ ActivateBestChainShutdown(kind) \/ ActivateBestChainStep(kind)
           \/ DisconnectRefused \/ ConnectFails \/ InvalidateDone \/ LeaveIBD \/ Halted
    PROVE  Frame
<1>1. candidates \subseteq NotWorse(chainTx, tip)
  BY Types DEF GInv, Ordered, NotWorse, W
<1>2. /\ NotWorse(Eligible, tip) \subseteq NotWorse(chainTx, tip)
      /\ \A S : NotWorse(Eligible \ S, tip) \subseteq NotWorse(chainTx, tip)
  BY Zenon DEF NotWorse, Eligible
<1>3. CASE \E b \in Blocks : \/ ProcessNewHeader(b) \/ HeaderRefused(b)
                             \/ InvalidateBlock(b)
  BY <1>1, <1>3 DEF Frame, ProcessNewHeader, HeaderRefused, InvalidateBlock, chain
<1>4. ASSUME NEW b \in Blocks, ReconsiderBlock(b) PROVE Frame
  <2>1. \A d \in chainTx : W(tip, d) => ~W(d, tip)
    BY WOrder, Types DEF GInv
  <2>2. \A c \in candidates' : c \in candidates \/ (c \in chainTx /\ W(tip, c))
    BY <1>4, Zenon DEF ReconsiderBlock, W
  <2>3. candidates' \subseteq NotWorse(chainTx, tip)
    BY <1>1, <2>1, <2>2, Zenon DEF NotWorse, W
  <2>4. UNCHANGED <<chainTx, nSequenceId, address, tip, unlinked, disk>>
    BY <1>4, Zenon DEF ReconsiderBlock
  <2> QED  BY <2>3, <2>4, Zenon DEF Frame
<1>5. ASSUME NEW kind \in {"dpow", "skip", "init"},
             \/ ActivateBestChainDone(kind) \/ ActivateBestChainShutdown(kind)
             \/ ActivateBestChainStep(kind)
      PROVE  Frame
  BY <1>1, <1>5 DEF Frame, ActivateBestChainDone, ActivateBestChainShutdown,
                    ActivateBestChainStep
<1>6. ASSUME NEW kind \in {"dpow", "skip", "init"}, ActivateBestChainIgnores(kind)
      PROVE  Frame
  <2>1. PICK m : candidates' = ((candidates \ Erased) \ {m}) \cup
                     NotWorse(Eligible \ (Erased \cup {m}), tip)
    BY <1>6, Zenon DEF ActivateBestChainIgnores
  <2>2. UNCHANGED <<chainTx, nSequenceId, address, tip, unlinked, disk>>
    BY <1>6, Zenon DEF ActivateBestChainIgnores
  <2> QED  BY <1>1, <1>2, <2>1, <2>2, Zenon DEF Frame
<1>7. CASE InvalidateDone
  BY <1>1, <1>2, <1>7 DEF Frame, InvalidateDone
<1>8. CASE DisconnectRefused \/ ConnectFails \/ LeaveIBD \/ Halted
  BY <1>1, <1>8, Zenon DEF Frame, DisconnectRefused, ConnectFails, LeaveIBD, Halted, vars, chain
<1> QED  BY <1>3, <1>4, <1>5, <1>6, <1>7, <1>8, Zenon

-----------------------------------------------------------------------------
(* Blocks that are linked: they are new, and their chains are linked with  *)
(* them.                                                                   *)
LEMMA Linking ==
    ASSUME IInv, Ordered, NEW b \in Blocks \ {Genesis}, b \notin data,
           pprev[b] \in chainTx
    PROVE  /\ b \in Linkable(b) /\ Linkable(b) \subseteq unlinked \cup {b}
           /\ Linkable(b) \subseteq Blocks
           /\ Linkable(b) \cap chainTx = {}
           /\ \A u \in Linkable(b) : Path[u] \subseteq chainTx \cup Linkable(b)
<1>1. chainTx \subseteq data /\ unlinked \subseteq Blocks
  <2>1. \A x \in chainTx : x \in Path[x] /\ Path[x] \subseteq data
    BY Tree, Types, Zenon DEF IInv, Downloaded
  <2> QED  BY <2>1, Zenon DEF IInv, TypeOK
<1>2. /\ b \in Linkable(b) /\ Linkable(b) \subseteq unlinked \cup {b}
      /\ Linkable(b) \subseteq Blocks
  BY <1>1, Tree, Zenon DEF Linkable
<1>3. Linkable(b) \cap chainTx = {}
  BY <1>1, <1>2, Zenon DEF Ordered
<1>4. Path[b] \subseteq chainTx \cup {b}
  BY Tree DEF Ordered
<1>5. ASSUME NEW u \in Linkable(b), NEW v \in Path[u] PROVE v \in chainTx \cup Linkable(b)
  <2>1. CASE v \in Path[b]
    BY <1>2, <1>4, <2>1
  <2>2. CASE v \notin Path[b]
    <3>1. b \in Path[u] /\ Path[u] \ Path[b] \subseteq unlinked /\ u \in Blocks
      BY <1>2, <1>5, Zenon DEF Linkable
    <3>2. b \in Path[v] /\ Path[v] \subseteq Path[u]
      BY <2>2, <3>1, Linear, Ancestors, Zenon
    <3> QED  BY <2>2, <3>1, <3>2, Zenon DEF Linkable
  <2> QED  BY <2>1, <2>2, Zenon
<1> QED  BY <1>2, <1>3, <1>5

(* What a delivery changes of the chain.                                   *)
LEMMA Delivery ==
    ASSUME IInv, Ordered, NEW b \in Blocks \ {Genesis}, NEW fRequested \in BOOLEAN,
           ProcessNewBlock(b, fRequested)
    PROVE  /\ \/ UNCHANGED <<chainTx, nSequenceId, candidates>>
              \/ /\ b \notin data /\ pprev[b] \in chainTx
                 /\ chainTx' = chainTx \cup Linkable(b)
                 /\ unlinked' = unlinked \ Linkable(b)
                 /\ candidates' = candidates \cup
                        {x \in Linkable(b) : ~Worse(nSequenceId', address, x, tip)}
                 /\ \A x \in Blocks \ Linkable(b) : nSequenceId'[x] = nSequenceId[x]
           /\ unlinked' \cap chainTx' = {}
           /\ UNCHANGED <<address, tip, disk, act, mode, last, NPOINTS>>
<1>1. UNCHANGED <<address, tip, disk, act, mode, last, NPOINTS>>
  BY DEF ProcessNewBlock
<1>2. chainTx \subseteq data
  <2>1. \A x \in chainTx : x \in Path[x] /\ Path[x] \subseteq data
    BY Tree, Types, Zenon DEF IInv, Downloaded
  <2> QED  BY <2>1, Zenon
<1>3. CASE Stores(b, fRequested) /\ b \notin BadContext
  <2>1. ReceivedBlockTransactions(b) /\ b \notin data
    BY <1>3, Zenon DEF ProcessNewBlock, Stores
  <2>2. CASE pprev[b] \in chainTx
    <3>1. /\ chainTx' = chainTx \cup Linkable(b) /\ unlinked' = unlinked \ Linkable(b)
          /\ candidates' = candidates \cup
                 {x \in Linkable(b) : ~Worse(nSequenceId', address, x, tip)}
          /\ \A x \in Blocks \ Linkable(b) : nSequenceId'[x] = nSequenceId[x]
      BY <2>1, <2>2, Zenon DEF ReceivedBlockTransactions
    <3> QED  BY <1>1, <2>1, <2>2, <3>1, Zenon DEF Ordered
  <2>3. CASE pprev[b] \notin chainTx
    <3>1. /\ UNCHANGED <<chainTx, nSequenceId, candidates>>
          /\ unlinked' \subseteq unlinked \cup {b}
      BY <2>1, <2>3, Zenon DEF ReceivedBlockTransactions
    <3> QED  BY <1>1, <1>2, <2>1, <3>1, Zenon DEF Ordered
  <2> QED  BY <2>2, <2>3
<1>4. CASE ~(Stores(b, fRequested) /\ b \notin BadContext)
  BY <1>1, <1>4 DEF ProcessNewBlock, Ordered
<1> QED  BY <1>3, <1>4

LEMMA OrderDelivery ==
    ASSUME IInv, Ordered, NEW b \in Blocks \ {Genesis}, NEW fRequested \in BOOLEAN,
           ProcessNewBlock(b, fRequested)
    PROVE  Ordered'
<1>1. UNCHANGED <<address, tip, disk>> /\ unlinked' \cap chainTx' = {}
  BY Delivery
<1>2. CASE UNCHANGED <<chainTx, nSequenceId, candidates>>
  BY <1>1, <1>2, Zenon DEF Ordered, W
<1>3. CASE ~UNCHANGED <<chainTx, nSequenceId, candidates>>
  <2>1. /\ b \notin data /\ pprev[b] \in chainTx
        /\ chainTx' = chainTx \cup Linkable(b)
        /\ candidates' = candidates \cup
               {x \in Linkable(b) : ~Worse(nSequenceId', address, x, tip)}
        /\ \A x \in Blocks \ Linkable(b) : nSequenceId'[x] = nSequenceId[x]
    BY <1>3, Delivery, Zenon
  <2>2. /\ Linkable(b) \cap chainTx = {}
        /\ \A u \in Linkable(b) : Path[u] \subseteq chainTx \cup Linkable(b)
    BY <2>1, Linking
  <2>3. \A c \in candidates : ~Worse(nSequenceId', address, c, tip)
    <3> TAKE c \in candidates
    <3>1. c \in Blocks \ Linkable(b) /\ tip \in Blocks \ Linkable(b) /\ ~W(c, tip)
      BY <2>2, Types, Zenon DEF Ordered
    <3>2. nSequenceId'[c] = nSequenceId[c] /\ nSequenceId'[tip] = nSequenceId[tip]
      BY <2>1, <3>1, Zenon
    <3> QED  BY <3>1, <3>2 DEF W, Worse
  <2>4. \A c \in candidates' : ~W(c, tip)'
    BY <1>1, <2>1, <2>3, Zenon DEF W
  <2>5. \A x \in chainTx' : Path[x] \subseteq chainTx'
    BY <2>1, <2>2 DEF Ordered
  <2> QED  BY <1>1, <2>1, <2>4, <2>5, Zenon DEF Ordered
<1> QED  BY <1>2, <1>3, Zenon

(* The tip moves.                                                          *)
LEMMA FlushTip ==
    ASSUME NEW d, NEW fc, NEW t, NEW indexOnly \in BOOLEAN,
           FlushStateToDisk(d, fc, t, indexOnly)
    PROVE  disk'.tip \in {disk.tip, t}
BY DEF FlushStateToDisk, Flushed

LEMMA OrderDown ==
    ASSUME IInv, Ordered, tip # Genesis, tip' = pprev[tip],
           candidates' \subseteq candidates, disk'.tip \in {disk.tip, tip'},
           UNCHANGED <<chainTx, nSequenceId, address, unlinked>>
    PROVE  Ordered'
<1>1. /\ tip' \in Blocks /\ Path[tip'] \subseteq Path[tip] /\ tip' \in Path[tip]
      /\ tip' # tip
  <2>1. /\ tip \in Blocks /\ tip' \in Blocks /\ Path[tip] = Path[tip'] \cup {tip}
        /\ tip' \in Path[tip']
    BY Types, Tree
  <2>2. tip \notin Path[pprev[tip]]
    BY <2>1, TreeAssumption, Zenon
  <2> QED  BY <2>1, <2>2, Zenon
<1>2. \A c \in candidates : ~W(c, tip')
  BY <1>1, WOrder, Types, Zenon DEF Ordered
<1>3. \A c \in candidates' : ~W(c, tip)'
  BY <1>2 DEF W
<1>4. tip' \in chainTx
  BY <1>1, Zenon DEF Ordered
<1> QED  BY <1>1, <1>3, <1>4, Zenon DEF Ordered

LEMMA OrderUp ==
    ASSUME IInv, Ordered, NEW b \in chainTx \ (BadConnect \cup {Genesis}),
           pprev[b] = tip, tip' = b, candidates' = NotWorse(candidates, b),
           disk'.tip \in {disk.tip, b},
           UNCHANGED <<chainTx, nSequenceId, address, unlinked>>
    PROVE  Ordered'
<1>1. Path[b] = Path[tip] \cup {b}
  BY Types, Tree
<1>2. \A c \in candidates' : ~W(c, tip)'
  BY Zenon DEF NotWorse, W
<1>3. Path[b] \cap BadConnect = {}
  BY <1>1, Zenon DEF Ordered
<1>4. Path[disk.tip]' \cap BadConnect = {}
  BY <1>3, Zenon DEF Ordered
<1> QED  BY <1>2, <1>3, <1>4, Zenon DEF Ordered

LEMMA OrderLoad ==
    ASSUME NEW d \in Disk, Path[d.tip] \subseteq d.data,
           Path[d.tip] \cap BadConnect = {}, LoadBlockIndexDB(d)
    PROVE  Ordered'
<1>1. /\ chainTx' = d.data \ LoadedUnlinked(d) /\ unlinked' = LoadedUnlinked(d)
      /\ tip' = d.tip /\ disk' = d /\ d.tip \in Blocks /\ d.data \subseteq Blocks
      /\ candidates' = LoadedCandidates(d, address')
      /\ nSequenceId' = [x \in Blocks |-> 0]
  BY Zenon DEF LoadBlockIndexDB, Disk
<1>2. \A x \in chainTx' : Path[x] \subseteq chainTx'
  <2> TAKE x \in chainTx'
  <2>1. x \in Blocks /\ Path[x] \subseteq d.data
    BY <1>1, Zenon DEF LoadedUnlinked
  <2>2. \A y \in Path[x] : y \in d.data /\ Path[y] \subseteq d.data
    BY <2>1, Ancestors, Zenon
  <2> QED  BY <1>1, <2>2 DEF LoadedUnlinked
<1>3. tip' \in chainTx'
  BY <1>1, Tree, Zenon DEF LoadedUnlinked
<1>4. \A c \in candidates' : ~W(c, tip)'
  BY <1>1, Zenon DEF LoadedCandidates, W
<1>5. unlinked' \cap chainTx' = {}
  BY <1>1
<1> QED  BY <1>1, <1>2, <1>3, <1>4, <1>5, Zenon DEF Ordered

-----------------------------------------------------------------------------
(* What Connect does.                                                      *)
LEMMA Connecting ==
    ASSUME GInv, Connect
    PROVE  \E b \in Path[act.target] \ (BadConnect \cup {Genesis}) :
               /\ b \in chainTx /\ b \notin Failed
               /\ pprev[b] = tip /\ tip' = b /\ Path[b] = Path[tip] \cup {b}
               /\ squishy_connectblock(b)
               /\ candidates' = NotWorse(candidates, b)
               /\ act.target \in candidates'
               /\ disk'.tip \in {disk.tip, b}
               /\ FlushStateToDisk(dirty \cup {b}, failedChild, b, b = act.target)
               /\ act' = IF b = act.target \/ nChainWork[b] > nChainWork[act.oldTip]
                         THEN idle ELSE act
               /\ IF b = act.target
                  THEN abc' = abc \ {act.kind} /\ stalled' = FALSE
                  ELSE abc' = abc /\ stalled' = stalled
               /\ mode' = mode
               /\ UNCHANGED <<index, data, chainTx, failedValid, failedChild,
                              nSequenceId, unlinked, address, counts>>
<1>1. /\ act.op = "step" /\ tip \in Path[act.target] /\ act.target \in Blocks
      /\ act.target \in candidates /\ act.target \in chainTx
      /\ act.oldTip \in Blocks
  BY Types, ActTypes, Zenon DEF GInv, Stepping, Connect
<1>2. PICK b \in Path[act.target] \ (BadConnect \cup {Genesis}) :
          /\ pprev[b] = tip
          /\ ConnectTip(b)
          /\ act' = IF b = act.target \/ nChainWork[b] > nChainWork[act.oldTip]
                    THEN idle ELSE act
          /\ IF b = act.target
             THEN abc' = abc \ {act.kind} /\ stalled' = FALSE
             ELSE UNCHANGED <<abc, stalled>>
          /\ FlushStateToDisk(dirty \cup {b}, failedChild, b, b = act.target)
  BY Zenon DEF Connect
<1>3. /\ squishy_connectblock(b) /\ tip' = b /\ candidates' = NotWorse(candidates, b)
      /\ UNCHANGED <<index, data, chainTx, failedValid, failedChild,
                     nSequenceId, unlinked, address, counts>>
  BY <1>2, Zenon DEF ConnectTip
<1>4. b \in Blocks /\ b \in chainTx /\ Path[b] = Path[tip] \cup {b} /\ b \notin Path[tip]
  <2>1. b \in Blocks /\ b \in chainTx /\ b # Genesis
    BY <1>1, Tree, Zenon DEF GInv, Ordered
  <2> QED  BY <1>2, <2>1, TreeAssumption, Zenon
<1>5. b \notin Failed
  BY <1>1, <1>4, Zenon DEF GInv, Stepping
<1>6. act.target \in candidates'
  <2>1. ~W(act.target, b)
    BY <1>1, WOrder, Zenon DEF GInv
  <2> QED  BY <1>1, <1>3, <2>1 DEF NotWorse, W
<1>7. mode' = mode
  BY <1>6 DEF Connect
<1>8. disk'.tip \in {disk.tip, b}
  BY <1>2, FlushTip, Zenon
<1> QED  BY <1>2, <1>3, <1>4, <1>5, <1>6, <1>7, <1>8, Zenon

(* What Disconnect does.                                                   *)
LEMMA Disconnecting ==
    ASSUME GInv, Disconnect
    PROVE  /\ act.op = "step" /\ tip \in Path[act.oldTip] /\ tip \notin Path[act.target]
           /\ tip \in Blocks \ {Genesis} /\ act.oldTip \in Blocks /\ act.target \in Blocks
           /\ tip' = pprev[tip] /\ tip' \in Blocks /\ Path[tip] = Path[tip'] \cup {tip}
           /\ tip' \in Path[act.oldTip]
           /\ disk'.tip \in {disk.tip, tip'}
<1>1. /\ act.op = "step" /\ tip \notin Path[act.target] /\ tip' = pprev[tip]
      /\ FlushStateToDisk(dirty, failedChild, pprev[tip], FALSE)
  BY Zenon DEF Disconnect
<1>2. /\ act.oldTip \in Blocks /\ act.target \in Blocks /\ tip \in Blocks
      /\ tip \in Path[act.oldTip]
  BY <1>1, Types, ActTypes, Zenon DEF GInv, Stepping
<1>3. /\ tip # Genesis /\ tip' \in Blocks /\ Path[tip] = Path[tip'] \cup {tip}
      /\ tip' \in Path[tip']
  <2>1. tip # Genesis
    BY <1>1, <1>2, Tree, Zenon
  <2>2. tip' \in Blocks /\ Path[tip] = Path[tip'] \cup {tip}
    BY <1>1, <1>2, <2>1, Tree, Zenon
  <2> QED  BY <2>1, <2>2, Tree, Zenon
<1>4. tip' \in Path[act.oldTip]
  <2>1. Path[tip] \subseteq Path[act.oldTip]
    BY <1>2, Ancestors, Zenon
  <2> QED  BY <1>3, <2>1, Zenon
<1> QED  BY <1>1, <1>2, <1>3, <1>4, FlushTip, Zenon

LEMMA OrderStep ==
    ASSUME GInv, Next
    PROVE  Ordered'
<1>1. IInv /\ Ordered
  BY DEF GInv
<1>2. CASE Network
  BY <1>1, <1>2, Frames, OrderKept, OrderDelivery, Zenon DEF Network
<1>3. CASE Disconnect
  BY <1>1, <1>3, Disconnecting, OrderDown DEF Disconnect
<1>4. CASE Connect
  BY <1>1, <1>4, Connecting, OrderUp, Zenon
<1>5. CASE InvalidateDisconnect
  <2>1. CASE Refuses
    <3>1. Frame
      <4>1. candidates \subseteq NotWorse(chainTx, tip)
        BY <1>1, Types DEF Ordered, NotWorse, W
      <4> QED  BY <1>5, <2>1, <4>1, Zenon DEF InvalidateDisconnect, Frame
    <3> QED  BY <1>1, <3>1, OrderKept
  <2>2. CASE ~Refuses
    <3>1. /\ tip' = pprev[tip] /\ candidates' \subseteq candidates
          /\ UNCHANGED <<chainTx, nSequenceId, address, unlinked>>
          /\ FlushStateToDisk(dirty \cup {tip}, failedChild \cup {tip}, pprev[tip], FALSE)
      BY <1>5, <2>2, Zenon DEF InvalidateDisconnect
    <3>2. tip # Genesis
      <4>1. act.target # Genesis /\ act.target \in Path[tip]
        BY <1>1, <1>5 DEF IInv, Aims, InvalidateDisconnect
      <4> QED  BY <4>1, Tree, Zenon
    <3>3. disk'.tip \in {disk.tip, tip'}
      BY <3>1, FlushTip, Zenon
    <3> QED  BY <1>1, <3>1, <3>2, <3>3, OrderDown
  <2> QED  BY <2>1, <2>2
<1>6. CASE Crash
  <2>1. /\ disk \in Disk /\ Path[disk.tip] \subseteq disk.data
        /\ Path[disk.tip] \cap BadConnect = {}
    BY <1>1, Types, Zenon DEF IInv, OnDisk, DiskConsistent, Ordered
  <2>2. LoadBlockIndexDB(disk) \/ LoadBlockIndexDB(IndexWritten)
    BY <1>6 DEF Crash
  <2>3. CASE LoadBlockIndexDB(disk)
    BY <2>1, <2>3, OrderLoad
  <2>4. CASE LoadBlockIndexDB(IndexWritten)
    <3>1. /\ IndexWritten \in Disk /\ Path[IndexWritten.tip] \subseteq IndexWritten.data
          /\ Path[IndexWritten.tip] \cap BadConnect = {}
      BY <1>1, <2>1, IndexWrittenDisk
    <3> QED  BY <2>4, <3>1, OrderLoad
  <2> QED  BY <2>2, <2>3, <2>4
<1>7. CASE StopAndRestart
  <2> DEFINE d == Flushed(dirty, failedChild, tip)
  <2>1. /\ TypeOK /\ OnDisk /\ dirty \in SUBSET Blocks /\ failedChild \in SUBSET Blocks
        /\ tip \in Blocks /\ Path[tip] \subseteq data
    BY <1>1 DEF IInv, TypeOK, Downloaded
  <2>2. d \in Disk /\ data \subseteq d.data /\ d.tip = tip
    BY <2>1, FlushedDisk, Zenon
  <2>3. LoadBlockIndexDB(d)
    BY <1>7, Zenon DEF StopAndRestart
  <2>4. Path[d.tip] \subseteq d.data /\ Path[d.tip] \cap BadConnect = {}
    BY <1>1, <2>1, <2>2 DEF Ordered
  <2> HIDE DEF d
  <2> QED  BY <2>2, <2>3, <2>4, OrderLoad, Zenon
<1>8. CASE Activation /\ ~Disconnect /\ ~Connect
  BY <1>1, <1>8, Frames, OrderKept DEF Activation
<1>9. CASE RPC /\ ~InvalidateDisconnect
  BY <1>1, <1>9, Frames, OrderKept DEF RPC
<1>10. CASE LeaveIBD \/ Halted
  BY <1>1, <1>10, Frames, OrderKept
<1> QED  BY <1>2, <1>3, <1>4, <1>5, <1>6, <1>7, <1>8, <1>9, <1>10 DEF Next

=============================================================================
