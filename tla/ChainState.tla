----------------------------- MODULE ChainState -----------------------------
(***************************************************************************)
(* The block index, the candidates for the best chain and the active chain *)
(* (main.cpp), guarded by the dPoW notarisations (squishy_state): what     *)
(* headers, blocks, the invalidateblock and reconsiderblock calls, flushes *)
(* to disk, crashes and restarts do to them.                               *)
(*                                                                         *)
(* cs_main is held from one "idle" to the next: `act' is where its holder  *)
(* is.  `abc' are the calls of ActivateBestChain that have not returned;   *)
(* between two rounds of their loop the lock is free.                      *)
(***************************************************************************)
EXTENDS BlockTree, Checkpoints, FiniteSets

CONSTANTS
    ASSETCHAINS_CC,     \* the chain runs with -ac_cc
    MAX_REORG_LENGTH,
    MaxRestarts,        \* bound: crashes and stops
    MaxInvalidate,      \* bound: invalidateblock calls
    MaxReconsider       \* bound: reconsiderblock calls

ASSUME ChainAssumption ==
    /\ Hashes = Blocks /\ IsFiniteSet(Blocks)
    /\ \A S \in SUBSET Blocks : Cardinality(S) \in Nat
    /\ Ntz \in [Blocks -> Blocks \cup {NoHash}]
    /\ ASSETCHAINS_CC \in BOOLEAN
    /\ MAX_REORG_LENGTH \in Nat \ {0}
    /\ MaxRestarts \in Nat /\ MaxInvalidate \in Nat /\ MaxReconsider \in Nat

VARIABLES
    index,         \* blocks in mapBlockIndex
    data,          \* ... with BLOCK_HAVE_DATA
    chainTx,       \* ... with nChainTx != 0
    failedValid,   \* ... with BLOCK_FAILED_VALID
    failedChild,   \* ... with BLOCK_FAILED_CHILD
    nSequenceId, nBlockSequenceId,
    unlinked,      \* second components of mapBlocksUnlinked
    candidates,    \* setBlockIndexCandidates
    dirty,         \* setDirtyBlockIndex
    tip,           \* chainActive.Tip(); the active chain is Path[tip]
    address,       \* where the entries lie in memory
    NPOINTS, NPOINTS_last_index, last,   \* squishy_state
    ibd,           \* IsInitialBlockDownload()
    act,           \* the holder of cs_main
    abc,           \* pending ActivateBestChain calls: "dpow" from the network,
                   \*   "skip" from an RPC, "init" from AppInit2
    stalled,       \* the last such call to return has failed
    mode,          \* "run", "down" (StartShutdown) or "aborted" (assert)
    disk,          \* what a restart finds
    restarts, invalidates, reconsiders   \* what the bounds count

chain == <<index, data, chainTx, failedValid, failedChild, nSequenceId,
           nBlockSequenceId, unlinked, candidates, dirty, tip, address>>
notary == <<NPOINTS, NPOINTS_last_index, last>>
counts == <<restarts, invalidates, reconsiders>>
vars == <<chain, notary, ibd, act, abc, stalled, mode, disk, counts>>

Failed == failedValid \cup failedChild     \* BLOCK_FAILED_MASK
idle == [op |-> "idle"]

(* The lock is free and the node serves peers and RPC calls.               *)
Serving == act = idle /\ mode = "run" /\ "init" \notin abc

(* IsValid(BLOCK_VALID_TRANSACTIONS) && nChainTx                           *)
Eligible == {b \in data \cap chainTx : b \notin Failed}

NotWorse(S, t) == {b \in S : ~Worse(nSequenceId, address, b, t)}

(* InitBlockIndex on an empty data directory: the genesis block is         *)
(* connected and flushed.                                                  *)
Init ==
    /\ index = {Genesis} /\ data = {Genesis} /\ chainTx = {Genesis}
    /\ failedValid = {} /\ failedChild = {}
    /\ nSequenceId = [b \in Blocks |-> IF b = Genesis THEN 1 ELSE 0]
    /\ nBlockSequenceId = 2
    /\ unlinked = {} /\ candidates = {Genesis} /\ dirty = {}
    /\ tip = Genesis
    /\ address \in Layouts
    /\ NPOINTS = <<>> /\ NPOINTS_last_index = 0 /\ last = NullCheckpoint
    /\ ibd = TRUE
    /\ act = idle /\ abc = {} /\ stalled = FALSE /\ mode = "run"
    /\ disk = [index |-> {Genesis}, data |-> {Genesis}, failedValid |-> {},
               failedChild |-> {}, tip |-> Genesis]
    /\ restarts = 0 /\ invalidates = 0 /\ reconsiders = 0

-----------------------------------------------------------------------------
(* FlushStateToDisk.                                                       *)

(* The dirty entries are written as they are in memory; the others keep    *)
(* what the disk says of them.                                             *)
Written(old, new, d) == (old \ d) \cup (new \cap d)

(* Mutant: the coins are flushed without the block index they refer to. *)
Flushed_CoinsOnly(d, fc, t) == [disk EXCEPT !.tip = t]

Flushed(d, fc, t) ==
    [index |-> disk.index \cup d,
     data |-> Written(disk.data, data, d),
     failedValid |-> Written(disk.failedValid, failedValid, d),
     failedChild |-> Written(disk.failedChild, fc, d),
     tip |-> t]

(* The caches decide whether it writes nothing, the index, or the index    *)
(* and the coins with their best block t.  (Nothing more is written when   *)
(* no restart is left to read it.)                                         *)
FlushStateToDisk(d, fc, t, indexOnly) ==
    \/ dirty' = d /\ UNCHANGED disk
    \/ /\ restarts < MaxRestarts
       /\ dirty' = {}
       /\ \E best \in {t} \cup (IF indexOnly THEN {disk.tip} ELSE {}) :
              disk' = Flushed(d, fc, best)

-----------------------------------------------------------------------------
(* squishy_state as main.cpp uses it.                                      *)

(* Reading the last notarisation gives it up if its block is unknown.      *)
LastRead ==
    IF last.notarized_hash \in index
    THEN last
    ELSE [last EXCEPT !.notarized_hash = NoHash, !.notarized_height = 0]

(* squishy_connectblock for a block with a notarisation: see NotaryState.  *)
Notarises(b) ==
    /\ Ntz[b] # NoHash
    /\ ibd \/ Ntz[b] \in index
    /\ nHeight[Ntz[b]] > last.notarized_height
    /\ nHeight[Ntz[b]] < nHeight[b]

squishy_connectblock(b) ==
    LET cp == [nHeight |-> nHeight[b], notarized_height |-> nHeight[Ntz[b]],
               notarized_hash |-> Ntz[b], MoMdepth |-> 0]
    IN  IF Notarises(b)
        THEN NPOINTS' = Append(NPOINTS, cp) /\ last' = cp
        ELSE UNCHANGED <<NPOINTS, last>>

(* Refuses a block below the checkpoint found below the tip, or another    *)
(* block at the height it notarises.                                       *)
squishy_checkpoint(b) ==
    LET i  == NotarizedData(NPOINTS, NPOINTS_last_index, nHeight[tip])
        cp == IF i = 0 THEN NullCheckpoint ELSE NPOINTS[i]
    IN  (cp.notarized_hash \in index /\ cp.notarized_height <= nHeight[tip])
            => /\ nHeight[b] >= cp.notarized_height
               /\ nHeight[b] = cp.notarized_height => b = cp.notarized_hash

-----------------------------------------------------------------------------
(* Headers and blocks from the network.                                    *)

(* Once the chain is higher, no other block at height 1 is accepted, and   *)
(* the notarisations are not even asked.                                   *)
FirstBlockSettled(b) == nHeight[b] = 1 /\ nHeight[tip] > 1

ContextualCheckBlockHeader(b) ==
    \/ b \in Path[tip]
    \/ ~FirstBlockSettled(b) /\ squishy_checkpoint(b)

(* Whether AcceptBlockHeader succeeds.                                     *)
AcceptBlockHeader(b) ==
    IF b \in index
    THEN b \notin Failed \/ ASSETCHAINS_CC
    ELSE /\ pprev[b] \in index /\ pprev[b] \notin Failed
         /\ ContextualCheckBlockHeader(b)

(* The search index after the header check, successful or not.             *)
HeaderSearches(b) ==
    NPOINTS_last_index' =
        IF /\ b \notin index /\ pprev[b] \in index \ Failed
           /\ ~FirstBlockSettled(b)
        THEN NotarizedDataIndex(NPOINTS, NPOINTS_last_index, nHeight[tip])
        ELSE NPOINTS_last_index

(* What AcceptBlockHeader leaves behind: a new entry (AddToBlockIndex), or *)
(* a known one that on an -ac_cc chain has lost its failure flags.         *)
HeaderAccepted(b) ==
    /\ AcceptBlockHeader(b)
    /\ HeaderSearches(b)
    /\ index' = index \cup {b}
    /\ failedChild' = failedChild \ {b}

ProcessNewHeader(b) ==
    /\ Serving
    /\ HeaderAccepted(b)
    /\ failedValid' = failedValid \ {b}
    /\ dirty' = IF b \in index THEN dirty ELSE dirty \cup {b}
    /\ UNCHANGED <<data, chainTx, nSequenceId, nBlockSequenceId, unlinked,
                   candidates, tip, address, NPOINTS, last, ibd, act, abc,
                   stalled, mode, disk, counts>>

HeaderRefused(b) ==
    /\ Serving
    /\ ~AcceptBlockHeader(b)
    /\ HeaderSearches(b)
    /\ UNCHANGED <<chain, NPOINTS, last, ibd, act, abc, stalled, mode, disk,
                   counts>>

(* Mutant: only the children are linked, not their own children. *)
Linkable_OneLevel(b) ==
    {u \in unlinked \cup {b} : u = b \/ pprev[u] = b}

(* The block and the descendants that waited for it.                       *)
Linkable(b) ==
    {u \in unlinked \cup {b} :
        b \in Path[u] /\ Path[u] \ Path[b] \subseteq unlinked}

(* The queue of ReceivedBlockTransactions is first in, first out: lower    *)
(* blocks come first; of two at the same height either does (`first' holds *)
(* the ones that do).                                                      *)
Before(x, y, first) ==
    \/ nHeight[x] < nHeight[y]
    \/ nHeight[x] = nHeight[y] /\ x \in first /\ y \notin first
    \/ /\ nHeight[x] = nHeight[y] /\ (x \in first <=> y \in first)
       /\ address[x] < address[y]

Rivals(L) == {x \in L : \E y \in L \ {x} : nHeight[x] = nHeight[y]}

Turn(x, L, first) == Cardinality({y \in L : Before(y, x, first)})

(* Mutant: the descendants that are linked do not become candidates. *)
ReceivedBlockTransactions_OneCandidate(b) ==
    /\ data' = data \cup {b}
    /\ IF pprev[b] \in chainTx
       THEN LET L == Linkable(b)
            IN  /\ chainTx' = chainTx \cup L
                /\ unlinked' = unlinked \ L
                /\ nSequenceId' = [x \in Blocks |->
                       IF x \in L THEN nBlockSequenceId + Turn(x, L, {})
                                  ELSE nSequenceId[x]]
                /\ nBlockSequenceId' = nBlockSequenceId + Cardinality(L)
                /\ candidates' = candidates \cup
                       {x \in {b} : ~Worse(nSequenceId', address, x, tip)}
       ELSE /\ unlinked' = unlinked \cup {b}
            /\ UNCHANGED <<chainTx, nSequenceId, nBlockSequenceId, candidates>>

ReceivedBlockTransactions(b) ==
    /\ data' = data \cup {b}
    /\ IF pprev[b] \in chainTx
       THEN LET L == Linkable(b)
            IN  /\ chainTx' = chainTx \cup L
                /\ unlinked' = unlinked \ L
                /\ \E first \in SUBSET Rivals(L) :
                       nSequenceId' = [x \in Blocks |->
                           IF x \in L THEN nBlockSequenceId + Turn(x, L, first)
                                      ELSE nSequenceId[x]]
                /\ nBlockSequenceId' = nBlockSequenceId + Cardinality(L)
                /\ candidates' = candidates \cup
                       {x \in L : ~Worse(nSequenceId', address, x, tip)}
       ELSE /\ unlinked' = IF pprev[b] \in Failed THEN unlinked
                                                  ELSE unlinked \cup {b}
            /\ UNCHANGED <<chainTx, nSequenceId, nBlockSequenceId, candidates>>

(* AcceptBlock and then ActivateBestChain(false).  A block that was not    *)
(* asked for is stored only if it has more work than the tip.              *)
Stores(b, fRequested) ==
    b \notin data /\ (fRequested \/ nChainWork[b] > nChainWork[tip])

ProcessNewBlock(b, fRequested) ==
    /\ Serving
    /\ HeaderAccepted(b)
    /\ IF Stores(b, fRequested) /\ b \in BadContext
       THEN /\ failedValid' = failedValid \cup {b}
            /\ UNCHANGED abc
       ELSE /\ failedValid' = failedValid \ {b}
            /\ abc' = abc \cup {"dpow"}
    /\ IF Stores(b, fRequested) /\ b \notin BadContext
       THEN ReceivedBlockTransactions(b)
       ELSE UNCHANGED <<data, chainTx, nSequenceId, nBlockSequenceId,
                        unlinked, candidates>>
    /\ dirty' = IF b \in index /\ ~Stores(b, fRequested) THEN dirty
                                                         ELSE dirty \cup {b}
    /\ UNCHANGED <<tip, address, NPOINTS, last, ibd, act, stalled, mode, disk,
                   counts>>

-----------------------------------------------------------------------------
(* ActivateBestChain.                                                      *)

(* Nothing between the active chain and c has failed.                      *)
Usable(c) == (Path[c] \ Path[tip]) \cap Failed = {}

MostWork ==
    {c \in candidates : /\ Usable(c)
                        /\ \A d \in candidates \ {c} :
                               Usable(d) => Worse(nSequenceId, address, d, c)}

(* The candidates FindMostWorkChain throws out on its way to the best      *)
(* usable one, each with its chain down to the last failed block.          *)
Rejected ==
    {c \in candidates : /\ ~Usable(c)
                        /\ \A m \in MostWork : Worse(nSequenceId, address, m, c)}

(* Mutant: the failed chain is taken down to the fork. *)
FailedSegment_ToFork(c) == Path[c] \ Path[tip]

FailedSegment(c) ==
    {b \in Path[c] \ Path[tip] :
        (Path[c] \ Path[b]) \cap Failed = {}}

Erased == UNION {FailedSegment(c) : c \in Rejected}

(* The blocks above the failed one get BLOCK_FAILED_CHILD; the entries are *)
(* not marked dirty.                                                       *)
FindMostWorkChain ==
    failedChild' = failedChild \cup (Erased \ Failed)

(* Mutant: off by one at the notarised height. *)
BelowNotarized_OffByOne(m) ==
    LET notarizedht == LastRead.notarized_height
    IN  nHeight[tip] > notarizedht /\ nHeight[FindFork(tip, m)] + 1 < notarizedht

(* Reorganising to m would take the chain below the last notarised height. *)
BelowNotarized(m) ==
    LET notarizedht == LastRead.notarized_height
    IN  nHeight[tip] > notarizedht /\ nHeight[FindFork(tip, m)] < notarizedht

(* Mutant: the last block to be given up is not counted. *)
ReorgLength_OffByOne(m) == nHeight[tip] - nHeight[FindFork(tip, m)] - 1

ReorgLength(m) == nHeight[tip] - nHeight[FindFork(tip, m)]

(* A call returns; AppInit2 shuts the node down if its call failed.        *)
Return(kind) == abc' = abc \ {kind} /\ stalled' = FALSE /\ UNCHANGED mode

Fail(kind) ==
    /\ abc' = abc \ {kind}
    /\ stalled' = TRUE
    /\ mode' = IF kind = "init" THEN "down" ELSE mode

(* Nothing to do: no usable candidate, or the tip is the best one.         *)
ActivateBestChainDone(kind) ==
    /\ act = idle /\ mode = "run" /\ kind \in abc
    /\ MostWork \subseteq {tip}
    /\ FindMostWorkChain
    /\ candidates' = candidates \ Erased
    /\ Return(kind)
    /\ UNCHANGED <<index, data, chainTx, failedValid, nSequenceId,
                   nBlockSequenceId, unlinked, dirty, tip, address, notary,
                   ibd, act, disk, counts>>

(* ActivateBestChainStep ignores a reorganisation below the notarised      *)
(* height: InvalidateBlock marks its last block, which is off the active   *)
(* chain, and puts every eligible block no worse than the tip back.        *)
ActivateBestChainIgnores(kind) ==
    /\ act = idle /\ mode = "run" /\ kind \in abc
    /\ kind = "dpow"
    /\ FindMostWorkChain
    /\ \E m \in MostWork \ {tip} :
           /\ BelowNotarized(m)
           /\ failedValid' = failedValid \cup {m}
           /\ dirty' = dirty \cup {m}
           /\ candidates' = ((candidates \ Erased) \ {m}) \cup
                  NotWorse(Eligible \ (Erased \cup {m}), tip)
    /\ last' = LastRead
    /\ Fail(kind)
    /\ UNCHANGED <<index, data, chainTx, nSequenceId, nBlockSequenceId,
                   unlinked, tip, address, NPOINTS, NPOINTS_last_index, ibd,
                   act, disk, counts>>

(* ... and a reorganisation that is too long stops the node.               *)
ActivateBestChainShutdown(kind) ==
    /\ act = idle /\ mode = "run" /\ kind \in abc
    /\ FindMostWorkChain
    /\ candidates' = candidates \ Erased
    /\ \E m \in MostWork \ {tip} :
           /\ kind # "dpow" \/ ~BelowNotarized(m)
           /\ ReorgLength(m) > MAX_REORG_LENGTH
    /\ last' = LastRead
    /\ abc' = {} /\ stalled' = TRUE /\ mode' = "down"
    /\ UNCHANGED <<index, data, chainTx, failedValid, nSequenceId,
                   nBlockSequenceId, unlinked, dirty, tip, address, NPOINTS,
                   NPOINTS_last_index, ibd, act, disk, counts>>

ActivateBestChainStep(kind) ==
    /\ act = idle /\ mode = "run" /\ kind \in abc
    /\ FindMostWorkChain
    /\ candidates' = candidates \ Erased
    /\ \E m \in MostWork \ {tip} :
           /\ kind # "dpow" \/ ~BelowNotarized(m)
           /\ ReorgLength(m) <= MAX_REORG_LENGTH
           /\ act' = [op |-> "step", target |-> m, kind |-> kind,
                      oldTip |-> tip]
    /\ last' = LastRead
    /\ UNCHANGED <<index, data, chainTx, failedValid, nSequenceId,
                   nBlockSequenceId, unlinked, dirty, tip, address, NPOINTS,
                   NPOINTS_last_index, ibd, abc, stalled, mode, disk, counts>>

-----------------------------------------------------------------------------
(* DisconnectTip and ConnectTip.                                           *)

(* Mutant: DisconnectTip takes any block off the chain. *)
Refuses_Never == FALSE

(* DisconnectTip, which refuses the block of the last notarisation.        *)
Refuses == LastRead.notarized_hash = tip

(* The loop of ActivateBestChainStep down to the fork.                     *)
Disconnect ==
    /\ act.op = "step" /\ tip \notin Path[act.target]
    /\ ~Refuses
    /\ last' = LastRead
    /\ tip' = pprev[tip]
    /\ UNCHANGED <<index, data, chainTx, failedValid, failedChild, nSequenceId,
                   nBlockSequenceId, unlinked, candidates, address, NPOINTS,
                   NPOINTS_last_index, ibd, act, abc, stalled, mode, counts>>
    /\ FlushStateToDisk(dirty, failedChild, pprev[tip], FALSE)

DisconnectRefused ==
    /\ act.op = "step" /\ tip \notin Path[act.target]
    /\ Refuses
    /\ act' = idle
    /\ Fail(act.kind)
    /\ UNCHANGED <<chain, notary, ibd, disk, counts>>

(* ConnectBlock fails: InvalidBlockFound, and the loop of                  *)
(* ActivateBestChain looks for another chain.                              *)
ConnectFails ==
    /\ act.op = "step" /\ tip \in Path[act.target]
    /\ \E b \in Path[act.target] \cap BadConnect :
           /\ pprev[b] = tip
           /\ failedValid' = failedValid \cup {b}
           /\ dirty' = dirty \cup {b}
           /\ candidates' = candidates \ {b}
    /\ act' = idle
    /\ UNCHANGED <<index, data, chainTx, failedChild, nSequenceId,
                   nBlockSequenceId, unlinked, tip, address, notary, ibd, abc,
                   stalled, mode, disk, counts>>

(* Mutant: pruning deletes the current tip too. *)
ConnectTip_PrunesTip(b) ==
    /\ squishy_connectblock(b)
    /\ tip' = b
    /\ candidates' = {c \in candidates : Worse(nSequenceId, address, b, c)}
    /\ UNCHANGED <<index, data, chainTx, failedValid, failedChild, nSequenceId,
                   nBlockSequenceId, unlinked, address, NPOINTS_last_index,
                   ibd, counts>>

(* ConnectTip and PruneBlockIndexCandidates, whose assertion can stop the  *)
(* process.  The step ends when the chain is better than it was; the call  *)
(* returns when it has reached its target.                                 *)
ConnectTip(b) ==
    /\ squishy_connectblock(b)
    /\ tip' = b
    /\ candidates' = NotWorse(candidates, b)
    /\ UNCHANGED <<index, data, chainTx, failedValid, failedChild, nSequenceId,
                   nBlockSequenceId, unlinked, address, NPOINTS_last_index,
                   ibd, counts>>

Connect ==
    /\ act.op = "step" /\ tip \in Path[act.target]
    /\ \E b \in Path[act.target] \ (BadConnect \cup {Genesis}) :
           /\ pprev[b] = tip
           /\ ConnectTip(b)
           /\ act' = IF \/ b = act.target
                        \/ nChainWork[b] > nChainWork[act.oldTip]
                     THEN idle ELSE act
           /\ IF b = act.target
              THEN abc' = abc \ {act.kind} /\ stalled' = FALSE
              ELSE UNCHANGED <<abc, stalled>>
           /\ FlushStateToDisk(dirty \cup {b}, failedChild, b, b = act.target)
    /\ mode' = IF candidates' = {} THEN "aborted" ELSE mode

-----------------------------------------------------------------------------
(* The invalidateblock and reconsiderblock calls.                          *)

InvalidateBlock(b) ==
    /\ Serving /\ invalidates < MaxInvalidate
    /\ b \in index \ {Genesis}
    /\ failedValid' = failedValid \cup {b}
    /\ dirty' = dirty \cup {b}
    /\ candidates' = candidates \ {b}
    /\ act' = [op |-> "invalidate", target |-> b]
    /\ invalidates' = invalidates + 1
    /\ UNCHANGED <<index, data, chainTx, failedChild, nSequenceId,
                   nBlockSequenceId, unlinked, tip, address, notary, ibd, abc,
                   stalled, mode, disk, restarts, reconsiders>>

(* Mutant: one block is disconnected, not all above the invalid one. *)
InvalidateDisconnect_Once ==
    /\ act.op = "invalidate" /\ act.target \in Path[tip]
    /\ failedChild' = failedChild \cup {tip}
    /\ candidates' = candidates \ {tip}
    /\ last' = LastRead
    /\ act' = idle
    /\ IF Refuses
       THEN UNCHANGED <<tip, dirty, disk>>
       ELSE /\ tip' = pprev[tip]
            /\ FlushStateToDisk(dirty \cup {tip}, failedChild \cup {tip}, pprev[tip],
                                FALSE)
    /\ UNCHANGED <<index, data, chainTx, failedValid, nSequenceId,
                   nBlockSequenceId, unlinked, address, NPOINTS,
                   NPOINTS_last_index, ibd, abc, stalled, mode, counts>>

(* One round of its loop: the tip is marked before DisconnectTip is asked. *)
InvalidateDisconnect ==
    /\ act.op = "invalidate" /\ act.target \in Path[tip]
    /\ failedChild' = failedChild \cup {tip}
    /\ candidates' = candidates \ {tip}
    /\ last' = LastRead
    /\ UNCHANGED <<index, data, chainTx, failedValid, nSequenceId,
                   nBlockSequenceId, unlinked, address, NPOINTS,
                   NPOINTS_last_index, ibd, abc, stalled, mode, counts>>
    /\ IF Refuses
       THEN /\ act' = idle
            /\ dirty' = dirty \cup {tip}
            /\ UNCHANGED <<tip, disk>>
       ELSE /\ tip' = pprev[tip]
            /\ FlushStateToDisk(dirty \cup {tip}, failedChild \cup {tip}, pprev[tip],
                                FALSE)
            /\ UNCHANGED act

(* Mutant: the blocks that are best now are not made candidates again. *)
InvalidateDone_NotReadded ==
    /\ act.op = "invalidate" /\ act.target \notin Path[tip]
    /\ act' = idle
    /\ abc' = abc \cup {"skip"}
    /\ UNCHANGED <<chain, notary, ibd, stalled, mode, disk, counts>>

InvalidateDone ==
    /\ act.op = "invalidate" /\ act.target \notin Path[tip]
    /\ candidates' = candidates \cup NotWorse(Eligible, tip)
    /\ act' = idle
    /\ abc' = abc \cup {"skip"}
    /\ UNCHANGED <<index, data, chainTx, failedValid, failedChild, nSequenceId,
                   nBlockSequenceId, unlinked, dirty, tip, address, notary,
                   ibd, stalled, mode, disk, counts>>

(* The flags of all descendants are cleared and the better ones become     *)
(* candidates; those of the ancestors are cleared, and no more.            *)
ReconsiderBlock(b) ==
    LET below   == {d \in index : b \in Path[d] /\ (d \in Failed \/ d \notin data)}
        cleared == below \cup (Path[b] \cap Failed)
    IN  /\ Serving /\ reconsiders < MaxReconsider
        /\ b \in index
        /\ failedValid' = failedValid \ cleared
        /\ failedChild' = failedChild \ cleared
        /\ dirty' = dirty \cup cleared
        /\ candidates' = candidates \cup
               {d \in below \cap data \cap chainTx :
                   Worse(nSequenceId, address, tip, d)}
        /\ abc' = abc \cup {"skip"}
        /\ reconsiders' = reconsiders + 1
        /\ UNCHANGED <<index, data, chainTx, nSequenceId, nBlockSequenceId,
                       unlinked, tip, address, notary, ibd, act, stalled, mode,
                       disk, restarts, invalidates>>

-----------------------------------------------------------------------------
(* Restarts.                                                               *)

(* Mutant: mapBlocksUnlinked is not built. *)
LoadedUnlinked_None(d) == {}

(* The blocks with data that do not connect to the genesis block.          *)
LoadedUnlinked(d) == {b \in d.data : ~(Path[b] \subseteq d.data)}

(* Mutant: only the tip is made a candidate. *)
LoadedCandidates_Tip(d, addr) == {d.tip}

(* ... and the ones to choose from; the order in which they came is lost.  *)
LoadedCandidates(d, addr) ==
    {b \in d.data \ LoadedUnlinked(d) :
        /\ b \notin d.failedValid \cup d.failedChild
        /\ ~Worse([x \in Blocks |-> 0], addr, b, d.tip)}

(* LoadBlockIndexDB from what the disk holds, and squishy_init from the    *)
(* state file, which brings the checkpoints back (NotaryState!ReplayExact).*)
LoadBlockIndexDB(d) ==
    /\ restarts < MaxRestarts
    /\ restarts' = restarts + 1
    /\ disk' = d
    /\ index' = d.index /\ data' = d.data
    /\ failedValid' = d.failedValid /\ failedChild' = d.failedChild
    /\ chainTx' = d.data \ LoadedUnlinked(d)
    /\ unlinked' = LoadedUnlinked(d)
    /\ nSequenceId' = [b \in Blocks |-> 0] /\ nBlockSequenceId' = 1
    /\ address' \in Layouts
    /\ tip' = d.tip
    /\ candidates' = LoadedCandidates(d, address')
    /\ dirty' = {}
    /\ last' = IF NPOINTS = <<>> THEN NullCheckpoint ELSE NPOINTS[Len(NPOINTS)]
    /\ NPOINTS_last_index' = 0
    /\ ibd' = TRUE
    /\ act' = idle /\ abc' = {"init"} /\ stalled' = FALSE
    /\ mode' = IF candidates' = {} THEN "aborted" ELSE "run"
    /\ UNCHANGED <<NPOINTS, invalidates, reconsiders>>

(* What InvalidateBlock has marked when its DisconnectTip flushes.         *)
Marking ==
    IF act.op = "invalidate" /\ act.target \in Path[tip] /\ ~Refuses THEN {tip}
                                                                  ELSE {}

(* FlushStateToDisk writes the index before the coins.                     *)
IndexWritten == Flushed(dirty \cup Marking, failedChild \cup Marking, disk.tip)

(* The process dies, perhaps between the two.                              *)
Crash ==
    /\ mode = "run"
    /\ LoadBlockIndexDB(disk) \/ LoadBlockIndexDB(IndexWritten)

(* Shutdown() flushes everything; it waits for cs_main.                    *)
StopAndRestart ==
    /\ act = idle /\ mode \in {"run", "down"}
    /\ LoadBlockIndexDB(Flushed(dirty, failedChild, tip))

(* IsInitialBlockDownload() latches to false.                              *)
LeaveIBD ==
    /\ mode = "run" /\ ibd
    /\ ibd' = FALSE
    /\ UNCHANGED <<chain, notary, act, abc, stalled, mode, disk, counts>>

(* A node that is down, or whose process died, and has no restart left.    *)
Halted == mode # "run" /\ UNCHANGED vars

Network ==
    \E b \in Blocks \ {Genesis} :
        \/ ProcessNewHeader(b)
        \/ HeaderRefused(b)
        \/ \E fRequested \in BOOLEAN : ProcessNewBlock(b, fRequested)

Activation ==
    \/ \E kind \in {"dpow", "skip", "init"} :
           \/ ActivateBestChainDone(kind)
           \/ ActivateBestChainIgnores(kind)
           \/ ActivateBestChainShutdown(kind)
           \/ ActivateBestChainStep(kind)
    \/ Disconnect \/ DisconnectRefused \/ ConnectFails \/ Connect

RPC ==
    \/ \E b \in Blocks : InvalidateBlock(b) \/ ReconsiderBlock(b)
    \/ InvalidateDisconnect \/ InvalidateDone

Next == Network \/ Activation \/ RPC \/ Crash \/ StopAndRestart \/ LeaveIBD \/ Halted

Spec == Init /\ [][Next]_vars

(* The threads that activate chains are scheduled (weak fairness), and a   *)
(* block that the node lacks and would take is offered to it again and     *)
(* again until it is stored or marked as failed.  The latter is strong     *)
(* fairness of its delivery: where ASSETCHAINS_CC is off a delivery ends   *)
(* the want, and restarts and reconsiderations are bounded, so no block is *)
(* delivered infinitely often and what is left of the strong fairness is   *)
(* that from some point on the delivery is never enabled.                  *)
CanDeliver(b) == b \notin data /\ Serving /\ AcceptBlockHeader(b)

LiveSpec ==
    /\ Spec
    /\ WF_vars(Activation)
    /\ <>[](\A b \in Blocks \ {Genesis} : ~CanDeliver(b))

-----------------------------------------------------------------------------
Act ==
    [op : {"idle"}]
    \cup [op : {"step"}, target : Blocks, kind : {"dpow", "skip", "init"},
          oldTip : Blocks]
    \cup [op : {"invalidate"}, target : Blocks]

Disk == [index : SUBSET Blocks, data : SUBSET Blocks,
         failedValid : SUBSET Blocks, failedChild : SUBSET Blocks,
         tip : Blocks]

(* Every variable keeps its type; the cached search index of NotarizedData *)
(* stays within NPOINTS.                                                   *)
TypeOK ==
    /\ index \subseteq Blocks /\ data \subseteq Blocks /\ chainTx \subseteq Blocks
    /\ failedValid \subseteq Blocks /\ failedChild \subseteq Blocks
    /\ nSequenceId \in [Blocks -> Nat] /\ nBlockSequenceId \in Nat
    /\ unlinked \subseteq Blocks /\ candidates \subseteq Blocks
    /\ dirty \subseteq Blocks /\ tip \in Blocks /\ address \in Layouts
    /\ NPOINTS \in Seq(Checkpoint) /\ last \in Checkpoint
    /\ NPOINTS_last_index \in 0 .. Len(NPOINTS)
    /\ ibd \in BOOLEAN /\ stalled \in BOOLEAN
    /\ act \in Act /\ abc \subseteq {"dpow", "skip", "init"}
    /\ mode \in {"run", "down", "aborted"} /\ disk \in Disk
    /\ restarts \in Nat /\ invalidates \in Nat /\ reconsiders \in Nat

(* However reorganisations, refusals, invalidateblock calls and flushes    *)
(* interleave, the block that the last notarisation names, once it is on   *)
(* the active chain, never leaves it while the process lives.              *)
NotarizedBlockKept ==
    [][(restarts' = restarts /\ last.notarized_hash \in Path[tip])
           => last.notarized_hash \in Path[tip']]_vars

(* "stay on the same chain tip!" (ActivateBestChainStep): a reorganisation *)
(* that the notarisation stops has not disconnected anything.              *)
RefusedInPlace == [][DisconnectRefused => tip = act.oldTip]_vars

(* All activation calls have returned, the last one with success: where    *)
(* ActivateBestChain calls CheckBlockIndex.                                *)
Settled == act = idle /\ abc = {} /\ ~stalled /\ mode = "run"

Sound(b) == Path[b] \cap failedValid = {}

(* "If this block sorts at least as good as the current tip and is valid   *)
(* and we have all data for its parents, it must be in                     *)
(* setBlockIndexCandidates" (CheckBlockIndex), and a worse one is not.     *)
CandidatesExact ==
    Settled =>
        /\ \A b \in NotWorse(chainTx, tip) : Sound(b) => b \in candidates
        /\ candidates \subseteq NotWorse(chainTx, tip)

(* The point of it all: no chain that the node has in full, and none of    *)
(* whose blocks it found invalid, has more work than the active one.       *)
TipIsBest ==
    Settled => \A b \in chainTx :
                   Sound(b) => nChainWork[b] <= nChainWork[tip]

(* "If this block has block data available, some parent was never          *)
(* received, and has no invalid parents, it must be in mapBlocksUnlinked", *)
(* and nChainTx is set exactly where no data is missing (CheckBlockIndex). *)
UnlinkedExact ==
    act = idle => \A b \in data :
        /\ b \in chainTx <=> Path[b] \subseteq data
        /\ (b \notin chainTx /\ Sound(b)) => b \in unlinked
        /\ b \in unlinked => b \notin chainTx

(* The two sets that ReceivedBlockTransactions, PruneBlockIndexCandidates, *)
(* FindMostWorkChain and LoadBlockIndexDB keep: setBlockIndexCandidates    *)
(* and mapBlocksUnlinked hold what CheckBlockIndex says they hold.         *)
SetsExact == CandidatesExact /\ UnlinkedExact

(* "The failed mask cannot be set for blocks without invalid parents"      *)
(* (CheckBlockIndex).                                                      *)
FailedHaveCause == act = idle => \A b \in index : Sound(b) => b \notin Failed

(* The blocks that notarisations have named and everything below them.     *)
Protected ==
    UNION {Path[h] : h \in {NPOINTS[i].notarized_hash : i \in DOMAIN NPOINTS} \cap Blocks}

(* After invalidateblock the block and its descendants leave the active    *)
(* chain, except where DisconnectTip stopped at a notarised block above;   *)
(* this holds wherever the notarisations that followed point to.           *)
OnlyNotarizedSurvives ==
    act.op # "invalidate" => Path[tip] \cap failedValid \subseteq Protected

(* No assertion of PruneBlockIndexCandidates fails.                        *)
NeverAborts == mode # "aborted"

(* When it does fail, LoadBlockIndexDB has found the tip of the coins      *)
(* database flagged as failed; nothing else empties the candidates.        *)
AbortsOnlyFailed == mode = "aborted" => tip \in Failed

(* Wherever the process dies, LoadBlockIndexDB finds every block of the    *)
(* chain that the coins database stands for: FlushStateToDisk writes the   *)
(* index before the coins.                                                 *)
DiskConsistent == Path[disk.tip] \subseteq disk.data

(* ActivateBestChainStep gives up no more than MAX_REORG_LENGTH blocks of  *)
(* the chain it found, whatever it has disconnected and connected so far.  *)
ReorgBounded ==
    act.op = "step" =>
        Cardinality(Path[act.oldTip] \ Path[tip]) <= MAX_REORG_LENGTH

(* Unless a block below a notarised one was found invalid, which is when   *)
(* DisconnectTip refuses, what invalidateblock leaves behind is a best     *)
(* chain again (reconsiderblock may leave it short of candidates).         *)
BestUnlessRefused ==
    (reconsiders = 0 /\ Protected \cap failedValid = {}) => TipIsBest

(* A reorganisation that the notarisations stop is not one to a chain that *)
(* holds the notarised block (ActivateBestChainStep: "trying to invalidate *)
(* longest chain, which tried to reorg notarized chain").                  *)
IgnoresOnlyRivals ==
    [][\A b \in failedValid' \ failedValid :
           (act = idle /\ act' = idle /\ stalled' /\ b \notin BadContext)
               => last.notarized_hash \notin Path[b]]_vars

(* Whatever order the blocks arrive in and however often a chain turns out *)
(* to be invalid half way, the node ends on a chain with the most work     *)
(* among those whose blocks are all valid and, once a notarised block is   *)
(* on its chain, that hold this block; and it stays there.                 *)
Converges ==
    <>[](\A b \in Blocks :
             /\ Path[b] \cap (BadContext \cup BadConnect) = {}
             /\ last.notarized_hash \in Path[tip] => last.notarized_hash \in Path[b]
             => nChainWork[b] <= nChainWork[tip])

=============================================================================
