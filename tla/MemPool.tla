------------------------------- MODULE MemPool -------------------------------
(***************************************************************************)
(* The memory pool (src/src/txmempool.cpp) and the handlers of             *)
(* src/src/main.cpp that change it: AcceptToMemoryPool, and the            *)
(* ConnectTip, DisconnectTip and clean-up of a step of ActivateBestChain   *)
(* or InvalidateBlock.                                                     *)
(*                                                                         *)
(* Those run under cs_main, one after the other; a thread of its own,      *)
(* NotifyRecentlyAdded, holds only the lock of the pool and tells the      *)
(* wallet about new transactions between any two steps.  pcoinsTip is a    *)
(* function of the block it stands at, which ChainCoins shows; a           *)
(* transaction is a record of what the pool looks at.                      *)
(***************************************************************************)
EXTENDS Integers, SequencesExt, FiniteSetsExt, TLC

CONSTANTS
    Blocks, Genesis, Prev,   \* the block tree: block -> the block below
    Vtx,                     \* block -> its transactions, the coinbase first
    Staked,                  \* blocks whose last transaction is a stake
    Root, EmptyRoot,         \* block -> root of the commitment tree after it
    Txs,
    Vin, Outs,               \* outpoints <<tx, n>> spent; indexes of outputs
    Nf, Anchors,             \* nullifiers revealed, roots referred to
    LockHeight,              \* final in blocks above this height
    ExpiryHeight,            \* 0: never expires
    InterestUntil,           \* the last height of the tip with a valid nLockTime
    Standard,                \* transactions that pass IsStandardTx and the fee rules
    TxBranch, Branch(_),     \* epoch signed for; epoch of a height
    Maturity,                \* CoinbaseMaturity
    Unlock,                  \* coinbase -> squishy_block_unlocktime of its block
    Value,                   \* outpoint -> amount
    ASSETCHAINS_TIMELOCKGTE, \* the amount from which on coinbases are time-locked
    Ntz,                     \* block -> the blocks a notarisation in it may name
    Mine,                    \* transactions the wallet takes an interest in
    Unknown, NoBlock         \* not in the wallet; in the wallet without a block

VARIABLES
    mempool,                 \* a record, see EmptyPool
    tmpmempool,              \* the second pool, used on -ac_cc chains only
    tip, goal,               \* active tip; where the step in progress leads
    step,                    \* who holds cs_main: "none", "activate" (a step of
                             \*   ActivateBestChain) or "invalidate" (InvalidateBlock)
    fBlocksDisconnected,
    notarized,               \* the block of the last notarisation, or Genesis
    unswept,                 \* auxiliary: a block has been disconnected since
                             \*   removeForReorg ran for the last time
    txs,                     \* NotifyRecentlyAdded: its copy, not told yet
    hashBlock                \* CWalletTx::hashBlock

poolVars == <<mempool, tmpmempool>>
stepVars == <<tip, goal, step, fBlocksDisconnected, notarized, unswept>>
vars == <<poolVars, stepVars, txs, hashBlock>>

-----------------------------------------------------------------------------
RECURSIVE Path(_)
Path(b) == IF b = Genesis THEN <<b>> ELSE Append(Path(Prev[b]), b)

Chain == [b \in Blocks |-> Range(Path(b))]
Height == [b \in Blocks |-> Len(Path(b)) - 1]

Coinbases == {Head(Vtx[b]) : b \in {b \in Blocks : Vtx[b] # <<>>}}

(* The chain state at block b: what is confirmed, where, and unspent.      *)
Confirmed == [b \in Blocks |-> UNION {Range(Vtx[a]) : a \in Chain[b]}]
BlockOf(t, b) == CHOOSE a \in Chain[b] : t \in Range(Vtx[a])
Unspent ==
    [b \in Blocks |-> UNION {{t} \X Outs[t] : t \in Confirmed[b]}
                        \ UNION {Vin[t] : t \in Confirmed[b]}]
SpentNullifiers == [b \in Blocks |-> UNION {Nf[t] : t \in Confirmed[b]}]
AnchorsAt == [b \in Blocks |-> {EmptyRoot} \cup {Root[a] : a \in Chain[b]}]

HaveCoins(t, b) == \E n \in Outs[t] : <<t, n>> \in Unspent[b]

(* A spent output counts as -1; those after the last unspent one are gone. *)
TotalTxValue(t, b) ==
    LET left == {n \in Outs[t] : <<t, n>> \in Unspent[b]}
    IN  MapThenSumSet(LAMBDA n : IF n \in left THEN Value[<<t, n>>] ELSE -1,
                      {n \in Outs[t] : \E k \in left : n <= k})

-----------------------------------------------------------------------------
(* CTxMemPool.  A map from keys to transactions is a function on the keys  *)
(* it has.                                                                 *)
EmptyPool == [mapTx |-> <<>>, mapNextTx |-> <<>>, mapNullifiers |-> <<>>,
              mapRecentlyAddedTx |-> {}]

InPool(p) == DOMAIN p.mapTx

addUnchecked(p, t, entry) ==
    [mapTx              |-> p.mapTx @@ (t :> entry),
     mapNextTx          |-> [o \in Vin[t] |-> t] @@ p.mapNextTx,
     mapNullifiers      |-> [n \in Nf[t] |-> t] @@ p.mapNullifiers,
     mapRecentlyAddedTx |-> p.mapRecentlyAddedTx \cup {t}]

Without(f, S) == [x \in DOMAIN f \ S |-> f[x]]

(* One round of the loop of remove.                                        *)
Erase(p, t) ==
    [mapTx              |-> Without(p.mapTx, {t}),
     mapNextTx          |-> Without(p.mapNextTx, Vin[t]),
     mapNullifiers      |-> Without(p.mapNullifiers, Nf[t]),
     mapRecentlyAddedTx |-> p.mapRecentlyAddedTx \ {t}]

Spenders(p, t) == {p.mapNextTx[o] : o \in ({t} \X Outs[t]) \cap DOMAIN p.mapNextTx}

RECURSIVE RemoveQueued(_, _, _)
RemoveQueued(p, txToRemove, fRecursive) ==
    IF txToRemove = {} THEN p
    ELSE LET tx   == CHOOSE t \in txToRemove : TRUE
             rest == txToRemove \ {tx}
         IN  IF tx \notin InPool(p) THEN RemoveQueued(p, rest, fRecursive)
             ELSE RemoveQueued(Erase(p, tx),
                      rest \cup (IF fRecursive THEN Spenders(p, tx) ELSE {}), fRecursive)

remove(p, t, fRecursive) ==
    RemoveQueued(p, {t} \cup (IF fRecursive /\ t \notin InPool(p) THEN Spenders(p, t) ELSE {}),
                 fRecursive)

(* The scans collect transactionsToRemove, then remove each recursively.   *)
RemoveAll(p, S) == FoldSet(LAMBDA t, q : remove(q, t, TRUE), p, S)

removeConflicts(p, t) ==
    LET byInput == {p.mapNextTx[o] : o \in Vin[t] \cap DOMAIN p.mapNextTx} \ {t}
        left    == RemoveAll(p, byInput)
    IN  RemoveAll(left, {left.mapNullifiers[n] : n \in Nf[t] \cap DOMAIN left.mapNullifiers} \ {t})

removeForBlock(p, vtx) ==
    FoldLeft(LAMBDA q, t : removeConflicts(remove(q, t, FALSE), t), p, vtx)

removeWithAnchor(p, root) == RemoveAll(p, {t \in InPool(p) : root \in Anchors[t]})

removeWithoutBranchId(p, branch) ==
    RemoveAll(p, {t \in InPool(p) : p.mapTx[t].branch # branch})

IsExpiredTx(t, nBlockHeight) == ExpiryHeight[t] # 0 /\ nBlockHeight > ExpiryHeight[t]

InterestValid(t, active) == Height[active] <= InterestUntil[t]

(* Mutant: one block late.                                                 *)
removeExpiredLate(p, nBlockHeight, active) ==
    RemoveAll(p, {t \in InPool(p) : \/ IsExpiredTx(t, nBlockHeight - 1)
                                    \/ ~InterestValid(t, active)})

removeExpired(p, nBlockHeight, active) ==
    RemoveAll(p, {t \in InPool(p) : \/ IsExpiredTx(t, nBlockHeight)
                                    \/ ~InterestValid(t, active)})

(* CheckFinalTx asks about the block after the active tip.                 *)
CheckFinalTx(t, active) == LockHeight[t] < Height[active] + 1

CoinHeight(t, b) == Height[BlockOf(t, b)]

Immature(c, b, nSpendHeight) == c \in Coinbases /\ nSpendHeight - CoinHeight(c, b) < Maturity

(* A coinbase that removeForReorg takes for one that may not be spent.     *)
ReorgEvicts(c, b, nMemPoolHeight) ==
    /\ Immature(c, b, nMemPoolHeight)
    /\ nMemPoolHeight < Unlock[c]
    /\ <<c, 0>> \in Unspent[b] /\ Value[<<c, 0>>] >= ASSETCHAINS_TIMELOCKGTE

(* The transactions outside the pool whose coins are all spent.  pcoinsTip *)
(* answers NULL for them unless they are still in its cache.               *)
Pruned(p, b) == {o[1] : o \in UNION {Vin[t] : t \in InPool(p)}}
                    \ (InPool(p) \cup {t \in Txs : HaveCoins(t, b)})

removeForReorg(p, b, null) ==
    RemoveAll(p, {t \in InPool(p) :
        \/ ~CheckFinalTx(t, b)
        \/ /\ p.mapTx[t].spendsCoinbase
           /\ \E o \in Vin[t] : /\ o[1] \notin InPool(p)
                               /\ \/ o[1] \in null
                                  \/ HaveCoins(o[1], b) /\ ReorgEvicts(o[1], b, Height[b] + 1)})

-----------------------------------------------------------------------------
(* CCoinsViewMemPool over pcoinsTip at block b.                            *)
ViewHaveCoins(p, t, b) == t \in InPool(p) \/ HaveCoins(t, b)

Available(p, o, b) ==
    IF o[1] \in InPool(p) THEN o[2] \in Outs[o[1]] ELSE o \in Unspent[b]

(* CheckTxInputs on an available input.                                    *)
Spendable(o, b) ==
    o[1] \in Coinbases =>
        /\ TotalTxValue(o[1], b) >= ASSETCHAINS_TIMELOCKGTE => Height[b] + 1 >= Unlock[o[1]]
        /\ ~Immature(o[1], b, Height[b] + 1)

(* The checks of AcceptToMemoryPool that lead to an early return.  The     *)
(* coins stand at block b, chainActive at block active: DisconnectTip      *)
(* resurrects transactions before it moves the tip.                        *)
Acceptable(p, t, b, active) ==
    /\ InterestValid(t, active)
    /\ ~IsExpiredTx(t, Height[active] + 1)
    /\ t \notin Coinbases
    /\ t \in Standard
    /\ CheckFinalTx(t, active)
    /\ t \notin InPool(p)
    /\ Vin[t] \cap DOMAIN p.mapNextTx = {}
    /\ Nf[t] \cap DOMAIN p.mapNullifiers = {}
    /\ ~ViewHaveCoins(p, t, b)
    /\ \A o \in Vin[t] : Available(p, o, b) /\ Spendable(o, b)
    /\ Nf[t] \cap SpentNullifiers[b] = {}
    /\ Anchors[t] \subseteq AnchorsAt[b]
    /\ TxBranch[t] = Branch(Height[active] + 1)

Entry(t, active) ==
    [branch         |-> Branch(Height[active] + 1),
     spendsCoinbase |-> \E o \in Vin[t] : o[1] \in Coinbases]

-----------------------------------------------------------------------------
(* Mutant: what was said last is right.                                    *)
SyncTransactionAlways(w, t, block) == IF t \notin Mine THEN w ELSE [w EXCEPT ![t] = block]

(* CWallet::AddToWallet: a block replaces what is known, no block does not.*)
SyncTransaction(w, t, block) ==
    IF t \notin Mine THEN w
    ELSE IF block # NoBlock \/ w[t] = Unknown THEN [w EXCEPT ![t] = block]
    ELSE w

SyncWithWallets(w, S, block) == FoldSet(LAMBDA t, v : SyncTransaction(v, t, block), w, S)

Init ==
    /\ mempool = EmptyPool
    /\ tmpmempool = EmptyPool
    /\ tip = Genesis
    /\ goal = Genesis
    /\ step = "none"
    /\ fBlocksDisconnected = FALSE
    /\ notarized = Genesis
    /\ unswept = FALSE
    /\ txs = {}
    /\ hashBlock = [t \in Mine |-> Unknown]

(* A transaction arrives from a peer, an RPC or the wallet.                *)
AcceptToMemoryPool(t) ==
    /\ step = "none"
    /\ Acceptable(mempool, t, tip, tip)
    /\ mempool' = addUnchecked(mempool, t, Entry(t, tip))
    /\ UNCHANGED <<tmpmempool, stepVars, txs, hashBlock>>

(* Reorganising to b would take the chain below the notarised height.      *)
BelowNotarized(b) ==
    /\ Height[tip] > Height[notarized]
    /\ Cardinality(Chain[tip] \cap Chain[b]) - 1 < Height[notarized]

(* ActivateBestChainStep towards block b.  One that the notarisation stops *)
(* is InvalidateBlock(b) instead.                                          *)
ActivateBestChainStep(b, fSkipdpow) ==
    /\ step = "none"
    /\ b # tip
    /\ fSkipdpow \/ ~BelowNotarized(b)
    /\ goal' = b
    /\ step' = "activate"
    /\ UNCHANGED <<poolVars, tip, fBlocksDisconnected, notarized, unswept, txs, hashBlock>>

(* InvalidateBlock, called by an RPC or by ActivateBestChainStep, takes    *)
(* the chain down to the block below b, if b is part of it.                *)
InvalidateBlock(b) ==
    /\ step = "none"
    /\ b # Genesis
    /\ goal' = IF b \in Chain[tip] THEN Prev[b] ELSE tip
    /\ step' = "invalidate"
    /\ UNCHANGED <<poolVars, tip, fBlocksDisconnected, notarized, unswept, txs, hashBlock>>

IsStake(t, b) == b \in Staked /\ t = Last(Vtx[b])

(* Mutant: the children of what does not come back stay.                   *)
ResurrectShallow(p, t, b) ==
    IF t \in Coinbases \/ IsStake(t, b) \/ ~Acceptable(p, t, Prev[b], b)
    THEN remove(p, t, FALSE)
    ELSE addUnchecked(p, t, Entry(t, b))

(* What DisconnectTip does with a transaction of the block.                *)
Resurrect(p, t, b) ==
    IF t \in Coinbases \/ IsStake(t, b) \/ ~Acceptable(p, t, Prev[b], b)
    THEN remove(p, t, TRUE)
    ELSE addUnchecked(p, t, Entry(t, b))

(* Mutant: the root after the disconnection instead of the one before.     *)
EvictAnchorAfter(p, b) == removeWithAnchor(p, Root[Prev[b]])

(* The root of block b is withdrawn, unless the block left it alone.       *)
EvictAnchor(p, b) == IF Root[b] # Root[Prev[b]] THEN removeWithAnchor(p, Root[b]) ELSE p

DisconnectTip ==
    LET b          == tip
        resurrected == FoldLeft(LAMBDA p, t : Resurrect(p, t, b), mempool, Vtx[b])
        stakes     == {t \in Range(Vtx[b]) : IsStake(t, b)}
    IN  /\ step # "none"
        /\ b \notin Chain[goal]
        /\ b # notarized
        /\ mempool' = EvictAnchor(resurrected, b)
        /\ tip' = Prev[b]
        /\ fBlocksDisconnected' = TRUE
        /\ unswept' = TRUE
        /\ hashBlock' = [t \in Mine |-> IF t \in stakes THEN Unknown
                          ELSE SyncWithWallets(hashBlock, Range(Vtx[b]), NoBlock)[t]]
        /\ UNCHANGED <<tmpmempool, goal, step, notarized, txs>>

EndStep ==
    /\ step' = "none"
    /\ goal' = tip
    /\ fBlocksDisconnected' = FALSE
    /\ UNCHANGED <<tmpmempool, tip, notarized, txs, hashBlock>>

(* DisconnectTip refuses the notarised block and ActivateBestChainStep     *)
(* returns at once.  The blocks above it, if there were any, have been     *)
(* disconnected: only a step with fSkipdpow gets that far.                 *)
DisconnectRefused ==
    /\ step = "activate"
    /\ tip \notin Chain[goal] /\ tip = notarized
    /\ EndStep
    /\ UNCHANGED <<mempool, unswept>>

(* ConnectTip of block b, from the pool p that ConnectBlock left.          *)
ConnectTipWith(p, b) ==
    LET cleared   == removeForBlock(p, Vtx[b])
        conflicts == InPool(p) \ (InPool(cleared) \cup Range(Vtx[b]))
    IN  /\ step = "activate"
        /\ b # Genesis
        /\ tip = Prev[b]
        /\ b \in Chain[goal]
        /\ mempool' = removeExpired(cleared, Height[b], tip)
        /\ tip' = b
        /\ hashBlock' = SyncWithWallets(SyncWithWallets(hashBlock, conflicts, NoBlock),
                                        Range(Vtx[b]), b)
        /\ \E n \in {notarized} \cup Ntz[b] :
               /\ n = notarized \/ Height[n] > Height[notarized]
               /\ notarized' = n
        /\ UNCHANGED <<goal, step, fBlocksDisconnected, unswept, txs>>

ConnectTip(b) == ConnectTipWith(mempool, b) /\ UNCHANGED tmpmempool

CleanUp(fReorg) ==
    \E null \in SUBSET Pruned(mempool, tip) :
        LET p == IF fReorg THEN removeForReorg(mempool, tip, null) ELSE mempool
        IN  /\ mempool' = removeWithoutBranchId(p, Branch(Height[tip] + 1))
            /\ unswept' = (unswept /\ ~fReorg)

(* The end of ActivateBestChainStep, which may lie below its goal: a block *)
(* turned out to be invalid, or the new tip is better than the old one     *)
(* already.                                                                *)
FinishStep ==
    /\ step = "activate"
    /\ tip \in Chain[goal]
    /\ CleanUp(fBlocksDisconnected)
    /\ EndStep

(* The end of InvalidateBlock, refused by DisconnectTip or not.            *)
FinishInvalidate ==
    /\ step = "invalidate"
    /\ tip = goal \/ tip = notarized
    /\ CleanUp(TRUE)
    /\ EndStep

(* Mutant: the map is cleared before it is copied.                         *)
TakeRecentlyAddedLate ==
    /\ txs = {}
    /\ mempool.mapRecentlyAddedTx # {}
    /\ mempool' = [mempool EXCEPT !.mapRecentlyAddedTx = {}]
    /\ UNCHANGED <<tmpmempool, stepVars, txs, hashBlock>>

(* NotifyRecentlyAdded: the copy under the lock, then one call per         *)
(* transaction without it.                                                 *)
TakeRecentlyAdded ==
    /\ txs = {}
    /\ mempool.mapRecentlyAddedTx # {}
    /\ txs' = mempool.mapRecentlyAddedTx \cap Mine
    /\ mempool' = [mempool EXCEPT !.mapRecentlyAddedTx = {}]
    /\ UNCHANGED <<tmpmempool, stepVars, hashBlock>>

NotifyWallet ==
    \E t \in txs :
        /\ hashBlock' = SyncTransaction(hashBlock, t, NoBlock)
        /\ txs' = txs \ {t}
        /\ UNCHANGED <<poolVars, stepVars>>

Stepping ==
    \/ \E b \in Blocks, f \in BOOLEAN : ActivateBestChainStep(b, f)
    \/ DisconnectTip \/ DisconnectRefused
    \/ FinishStep \/ FinishInvalidate

Next ==
    \/ \E t \in Txs : AcceptToMemoryPool(t)
    \/ \E b \in Blocks : InvalidateBlock(b) \/ ConnectTip(b)
    \/ Stepping
    \/ TakeRecentlyAdded
    \/ NotifyWallet

Spec == Init /\ [][Next]_vars

-----------------------------------------------------------------------------
(* On -ac_cc chains the CheckBlock of ConnectBlock first moves the         *)
(* transparent transactions of the pool to tmpmempool, puts those of the   *)
(* block in their place, unchecked, and takes them out of tmpmempool; if   *)
(* the checks of the block pass, it moves tmpmempool back, unchecked.      *)
Transparent(t) == Nf[t] = {} /\ Anchors[t] = {}

CCTxFixAcceptToMemPoolUnchecked(p, t) ==
    IF t \in InPool(p) THEN p
    ELSE addUnchecked(p, t, [branch |-> Branch(Height[tip] + 1), spendsCoinbase |-> FALSE])

clear(p) == [p EXCEPT !.mapTx = <<>>, !.mapNextTx = <<>>]

Refill(p, from, S) == FoldSet(LAMBDA t, q : addUnchecked(q, t, from.mapTx[t]), p, S)

CheckBlock(b, fChecked) ==
    LET moved == {t \in InPool(mempool) : Transparent(t)}
        own   == SelectSeq(Vtx[b], LAMBDA t : /\ t \notin Coinbases
                                              /\ Transparent(t)
                                              /\ ~IsStake(t, b))
        kept  == FoldSet(LAMBDA t, q : remove(q, t, FALSE), mempool, moved)
        main  == FoldLeft(CCTxFixAcceptToMemPoolUnchecked, kept, own)
        tmp   == FoldLeft(LAMBDA q, t : remove(q, t, FALSE),
                          Refill(tmpmempool, mempool, moved), own)
    IN  IF fChecked THEN [main |-> Refill(main, tmp, InPool(tmp)), tmp |-> clear(tmp)]
        ELSE [main |-> main, tmp |-> tmp]

ConnectTipCC(b) ==
    LET r == CheckBlock(b, TRUE) IN ConnectTipWith(r.main, b) /\ tmpmempool' = r.tmp

(* ConnectBlock fails, in CheckBlock or after it.                          *)
ConnectFailsCC(b, fChecked) ==
    LET r == CheckBlock(b, fChecked)
    IN  /\ step = "activate"
        /\ b # Genesis
        /\ tip = Prev[b]
        /\ b \in Chain[goal]
        /\ mempool' = r.main
        /\ tmpmempool' = r.tmp
        /\ goal' = tip
        /\ UNCHANGED <<tip, step, fBlocksDisconnected, notarized, unswept, txs, hashBlock>>

NextCC ==
    \/ \E t \in Txs : AcceptToMemoryPool(t)
    \/ \E b \in Blocks : InvalidateBlock(b) \/ ConnectTipCC(b)
    \/ \E b \in Blocks, f \in BOOLEAN : ConnectFailsCC(b, f)
    \/ Stepping
    \/ TakeRecentlyAdded
    \/ NotifyWallet

SpecCC == Init /\ [][NextCC]_vars

-----------------------------------------------------------------------------
Entries == [branch : {Branch(Height[b] + 1) : b \in Blocks}, spendsCoinbase : BOOLEAN]
Outpoints == UNION {{t} \X Outs[t] : t \in Txs}
Pools ==
    {p \in [mapTx : {mempool.mapTx}, mapNextTx : {mempool.mapNextTx},
            mapNullifiers : {mempool.mapNullifiers}, mapRecentlyAddedTx : SUBSET Txs] :
        /\ InPool(p) \subseteq Txs /\ Range(p.mapTx) \subseteq Entries
        /\ DOMAIN p.mapNextTx \subseteq Outpoints /\ Range(p.mapNextTx) \subseteq Txs
        /\ Range(p.mapNullifiers) \subseteq Txs}

(* Types; outside a step the goal is the tip, and the notifier's copy      *)
(* holds transactions of the wallet only.                                  *)
TypeOK ==
    /\ mempool \in Pools
    /\ tip \in Blocks /\ goal \in Blocks /\ notarized \in Blocks
    /\ step \in {"none", "activate", "invalidate"}
    /\ fBlocksDisconnected \in BOOLEAN /\ unswept \in BOOLEAN
    /\ step = "none" => goal = tip /\ ~fBlocksDisconnected
    /\ txs \subseteq Mine
    /\ hashBlock \in [Mine -> Blocks \cup {Unknown, NoBlock}]

(* check(): "assert(it3->second.ptx == &tx)", the loops over mapNextTx and *)
(* the nullifier maps, and the pointers NotifyRecentlyAdded follows: every *)
(* outpoint and nullifier of the pool has its one transaction in the maps, *)
(* and no map points to a transaction that is gone, whatever order of      *)
(* additions, evictions and resurrections led here.                        *)
MapsExact ==
    LET pairs(S) == UNION {S[t] \X {t} : t \in InPool(mempool)}
    IN  /\ {<<o, mempool.mapNextTx[o]>> : o \in DOMAIN mempool.mapNextTx} = pairs(Vin)
        /\ {<<n, mempool.mapNullifiers[n]>> : n \in DOMAIN mempool.mapNullifiers} = pairs(Nf)
        /\ mempool.mapRecentlyAddedTx \subseteq InPool(mempool)

(* check(): "Check that every mempool transaction's inputs refer to        *)
(* available coins, or other mempool tx's."  It runs when a step or an     *)
(* acceptance is over, after any number of reorganisations.                *)
InputsAvailable ==
    step = "none" =>
        \A t \in InPool(mempool) : \A o \in Vin[t] : Available(mempool, o, tip)

(* The assertions of CTxMemPool::check about its maps and about coins that *)
(* must exist, with the types of the variables.  ShieldedValid has the     *)
(* ones about nullifiers and anchors; the one about CheckTxInputs is       *)
(* InputsSpendable, and it does not hold.                                  *)
PoolConsistent == TypeOK /\ MapsExact /\ InputsAvailable

(* check(): no nullifier of the pool is spent on the chain and every       *)
(* anchor is known to it, although blocks that made them known have been   *)
(* disconnected.                                                           *)
ShieldedValid ==
    step = "none" =>
        \A t \in InPool(mempool) :
            /\ Nf[t] \cap SpentNullifiers[tip] = {}
            /\ Anchors[t] \subseteq AnchorsAt[tip]

(* No transaction is both in the pool and on the active chain:             *)
(* removeForBlock and the resurrection of DisconnectTip keep them apart.   *)
NotConfirmed == step = "none" => InPool(mempool) \cap Confirmed[tip] = {}

(* What the clean-ups of ConnectTip and of the end of the step leave: no   *)
(* transaction of the pool is expired at the tip, locked for the next      *)
(* block or of another epoch, and the interest rule held at the last tip   *)
(* but one.                                                                *)
UpToDate ==
    step = "none" =>
        \A t \in InPool(mempool) :
            /\ ~IsExpiredTx(t, Height[tip])
            /\ CheckFinalTx(t, tip)
            /\ mempool.mapTx[t].branch = Branch(Height[tip] + 1)
            /\ TxBranch[t] = mempool.mapTx[t].branch
            /\ Height[tip] <= InterestUntil[t] + 1

(* removeForReorg: a spend of a coinbase that is both immature and         *)
(* time-locked by its first output does not survive the reorganisation     *)
(* that made it so.                                                        *)
TimelockedOut ==
    step = "none" =>
        \A t \in InPool(mempool) : \A o \in Vin[t] :
            o[1] \in Coinbases => ~ReorgEvicts(o[1], tip, Height[tip] + 1)

(* What the pool holds when no step runs is new to the chain and, unless   *)
(* a refused reorganisation has left without its clean-up, passes the      *)
(* rules of height and epoch that removeExpired, removeForReorg and        *)
(* removeWithoutBranchId are there to maintain.                            *)
Minable == NotConfirmed /\ (~unswept => UpToDate /\ TimelockedOut)

(* NotifyRecentlyAdded: "A race condition can occur here [...] It is       *)
(* harmless": a late notice never hides the block of a transaction that    *)
(* has been confirmed in the meantime.                                     *)
WalletKnowsBlock ==
    \A t \in Mine \cap Confirmed[tip] : hashBlock[t] = BlockOf(t, tip)

(* check(): "assert(fCheckResult)" of Consensus::CheckTxInputs, which      *)
(* refuses immature and time-locked coinbases.  (removeForReorg: "Remove   *)
(* transactions spending a coinbase which are now immature".)              *)
InputsSpendable ==
    step = "none" =>
        \A t \in InPool(mempool) : \A o \in Vin[t] :
            o[1] \notin InPool(mempool) => Spendable(o, tip)

(* The thread runs NotifyRecentlyAdded every second, so a transaction of   *)
(* the wallet that enters the pool is told to the wallet or leaves again.  *)
WalletTold ==
    \A t \in Mine : t \in InPool(mempool) /\ hashBlock[t] = Unknown
                        ~> t \notin InPool(mempool) \/ hashBlock[t] # Unknown

NotifySpec == Spec /\ WF_vars(TakeRecentlyAdded) /\ WF_vars(NotifyWallet)

=============================================================================
