----------------------------- MODULE CoinsCache -----------------------------
(***************************************************************************)
(* The stack of coin views (src/src/coins.cpp, coins.h, txdb.cpp): the     *)
(* database CCoinsViewDB, the write-back cache pcoinsTip over it, and the  *)
(* temporary CCoinsViewCache that ConnectTip, DisconnectTip and            *)
(* TestBlockValidity put over pcoinsTip and flush or throw away.           *)
(*                                                                         *)
(* Every access to the stack is made under cs_main, so an action is one    *)
(* call on a view.  A map is a function from every key to its entry; an    *)
(* entry that is not `cached' stands for a key the map does not hold.  A   *)
(* CCoins is an opaque value, Pruned when it has no unspent output: the    *)
(* destructor of CCoinsModifier cleans it up, so a stored value has an     *)
(* empty vout exactly when it is pruned.  Sprout and Sapling run the same  *)
(* templates over their own maps; the model has one pool.                  *)
(***************************************************************************)
CONSTANTS
    Txids, CCoins, Pruned, Nullifiers, Roots, EmptyRoot, Blocks, Null

ASSUME CoinsAssumption ==
    /\ Pruned \in CCoins
    /\ EmptyRoot \in Roots
    /\ Null \notin Blocks
    /\ Null \notin Roots

VARIABLES
    db,      \* CCoinsViewDB: what the last batch left in LevelDB
    tip,     \* pcoinsTip, the CCoinsViewCache over the database
    view,    \* the temporary CCoinsViewCache over pcoinsTip
    open     \* the temporary view exists

vars == <<db, tip, view, open>>

NoCoins == [cached |-> FALSE, coins |-> Pruned, dirty |-> FALSE, fresh |-> FALSE]
NoFlag  == [cached |-> FALSE, entered |-> FALSE, dirty |-> FALSE]

(* A cache with empty maps and the given hashes.                           *)
Cleared(block, anchor) ==
    [coins |-> [t \in Txids |-> NoCoins],
     nulls |-> [n \in Nullifiers |-> NoFlag],
     roots |-> [r \in Roots |-> NoFlag],
     hashBlock |-> block, hashAnchor |-> anchor]

(* CCoinsViewCache(base)                                                   *)
NewCache == Cleared(Null, Null)

(* A wiped database: no key is written, the empty root included.           *)
Init ==
    /\ db = [coins |-> [t \in Txids |-> Pruned],
             nulls |-> [n \in Nullifiers |-> FALSE],
             roots |-> [r \in Roots |-> FALSE],
             hashBlock |-> Null, hashAnchor |-> Null]
    /\ tip = NewCache
    /\ view = NewCache
    /\ open = FALSE

-----------------------------------------------------------------------------
(* The readers of CCoinsViewDB.  The database never holds a pruned CCoins. *)
DbAnchorAt(r) == r = EmptyRoot \/ db.roots[r]
DbBestAnchor == IF db.hashAnchor = Null THEN EmptyRoot ELSE db.hashAnchor

(* What each layer answers, whether or not it has the entry at hand: its   *)
(* own entry, or else what the layer below says.                           *)
Coins(e, below) == IF e.cached THEN e.coins ELSE below
Flag(e, below) == IF e.cached THEN e.entered ELSE below

TipCoins(t) == Coins(tip.coins[t], db.coins[t])
ViewCoins(t) == Coins(view.coins[t], TipCoins(t))
TipNullifier(n) == Flag(tip.nulls[n], db.nulls[n])
ViewNullifier(n) == Flag(view.nulls[n], TipNullifier(n))
TipAnchorAt(r) == Flag(tip.roots[r], DbAnchorAt(r))
ViewAnchorAt(r) == Flag(view.roots[r], TipAnchorAt(r))

TipBestAnchor == IF tip.hashAnchor = Null THEN DbBestAnchor ELSE tip.hashAnchor
ViewBestAnchor == IF view.hashAnchor = Null THEN TipBestAnchor ELSE view.hashAnchor
TipBestBlock == IF tip.hashBlock = Null THEN db.hashBlock ELSE tip.hashBlock
ViewBestBlock == IF view.hashBlock = Null THEN TipBestBlock ELSE view.hashBlock

-----------------------------------------------------------------------------
(* FetchCoins: the entry a cache has for t once it has been asked for it.  *)
(* An entry copied from below is clean, and fresh when it is pruned.       *)
Copied(c) == [cached |-> TRUE, coins |-> c, dirty |-> FALSE, fresh |-> c = Pruned]

TipFetched(t) ==
    IF tip.coins[t].cached \/ db.coins[t] = Pruned THEN tip.coins[t]
    ELSE Copied(db.coins[t])

ViewFetched(t) ==
    IF view.coins[t].cached \/ ~TipFetched(t).cached THEN view.coins[t]
    ELSE Copied(TipCoins(t))

(* What the view's question leaves in pcoinsTip: nothing new when the view *)
(* could answer by itself.                                                 *)
TipAsked(t) == IF view.coins[t].cached THEN tip.coins[t] ELSE TipFetched(t)

(* GetCoins, AccessCoins and HaveCoins, on pcoinsTip or on the view.       *)
FetchTip(t) ==
    /\ tip' = [tip EXCEPT !.coins[t] = TipFetched(t)]
    /\ UNCHANGED <<db, view, open>>

FetchView(t) ==
    /\ open
    /\ tip' = [tip EXCEPT !.coins[t] = TipAsked(t)]
    /\ view' = [view EXCEPT !.coins[t] = ViewFetched(t)]
    /\ UNCHANGED <<db, open>>

(* Mutant: an entry the view did not have is taken to be new.              *)
ModifiedAsNew(t, c) ==
    [cached |-> TRUE, coins |-> c, dirty |-> TRUE,
     fresh |-> ~view.coins[t].cached \/ view.coins[t].fresh]

(* ModifyCoins, the change the caller makes through the CCoinsModifier and *)
(* its destructor: the coins of t become c in the view.                    *)
Modified(t, c) ==
    LET fresh == IF view.coins[t].cached THEN view.coins[t].fresh
                 ELSE TipCoins(t) = Pruned
    IN  IF fresh /\ c = Pruned THEN NoCoins
        ELSE [cached |-> TRUE, coins |-> c, dirty |-> TRUE, fresh |-> fresh]

ModifyCoins(t, c) ==
    /\ open
    /\ tip' = [tip EXCEPT !.coins[t] = TipAsked(t)]
    /\ view' = [view EXCEPT !.coins[t] = Modified(t, c)]
    /\ UNCHANGED <<db, open>>

-----------------------------------------------------------------------------
(* GetNullifier keeps the answer from below, whatever it is.               *)
Remembered(e, below) ==
    IF e.cached THEN e ELSE [cached |-> TRUE, entered |-> below, dirty |-> FALSE]

TipNullFetched(n) == Remembered(tip.nulls[n], db.nulls[n])
ViewNullFetched(n) == Remembered(view.nulls[n], TipNullifier(n))

GetTipNullifier(n) ==
    /\ tip' = [tip EXCEPT !.nulls[n] = TipNullFetched(n)]
    /\ UNCHANGED <<db, view, open>>

GetViewNullifier(n) ==
    /\ open
    /\ tip' = [tip EXCEPT !.nulls[n] =
                   IF view.nulls[n].cached THEN tip.nulls[n] ELSE TipNullFetched(n)]
    /\ view' = [view EXCEPT !.nulls[n] = ViewNullFetched(n)]
    /\ UNCHANGED <<db, open>>

(* SetNullifiers, for one nullifier: it does not look below.               *)
SetNullifier(n, spent) ==
    /\ open
    /\ view' = [view EXCEPT !.nulls[n] =
                    [cached |-> TRUE, entered |-> spent, dirty |-> TRUE]]
    /\ UNCHANGED <<db, tip, open>>

-----------------------------------------------------------------------------
(* GetSproutAnchorAt, GetSaplingAnchorAt: only a tree that exists is kept. *)
Kept(e, below) ==
    IF e.cached \/ ~below THEN e ELSE [cached |-> TRUE, entered |-> TRUE, dirty |-> FALSE]

TipRootFetched(r) == Kept(tip.roots[r], DbAnchorAt(r))
ViewRootFetched(r) == Kept(view.roots[r], TipAnchorAt(r))
TipRootAsked(r) == IF view.roots[r].cached THEN tip.roots[r] ELSE TipRootFetched(r)

GetTipAnchorAt(r) ==
    /\ tip' = [tip EXCEPT !.roots[r] = TipRootFetched(r)]
    /\ UNCHANGED <<db, view, open>>

GetViewAnchorAt(r) ==
    /\ open
    /\ tip' = [tip EXCEPT !.roots[r] = TipRootAsked(r)]
    /\ view' = [view EXCEPT !.roots[r] = ViewRootFetched(r)]
    /\ UNCHANGED <<db, open>>

(* GetBestAnchor and GetBestBlock remember the hash they got from below.   *)
TipAnchorAsked == IF view.hashAnchor = Null THEN TipBestAnchor ELSE tip.hashAnchor

GetTipBest ==
    /\ tip' = [tip EXCEPT !.hashBlock = TipBestBlock, !.hashAnchor = TipBestAnchor]
    /\ UNCHANGED <<db, view, open>>

GetViewBest ==
    /\ open
    /\ tip' = [tip EXCEPT !.hashBlock = IF view.hashBlock = Null
                                        THEN TipBestBlock ELSE tip.hashBlock,
                          !.hashAnchor = TipAnchorAsked]
    /\ view' = [view EXCEPT !.hashBlock = ViewBestBlock, !.hashAnchor = ViewBestAnchor]
    /\ UNCHANGED <<db, open>>

(* AbstractPushAnchor: the tree of root r becomes the best one.            *)
PushAnchor(r) ==
    /\ open
    /\ tip' = [tip EXCEPT !.hashAnchor = TipAnchorAsked]
    /\ view' = [view EXCEPT
                   !.roots[r] = IF r = ViewBestAnchor THEN view.roots[r]
                                ELSE [cached |-> TRUE, entered |-> TRUE, dirty |-> TRUE],
                   !.hashAnchor = r]
    /\ UNCHANGED <<db, open>>

(* AbstractPopAnchor: the best tree is withdrawn and r takes its place.    *)
(* BringBestAnchorIntoCache asserts that the best tree can be read.        *)
PopAnchor(r) ==
    LET best == ViewBestAnchor
    IN  /\ open
        /\ tip' = [tip EXCEPT
                      !.hashAnchor = TipAnchorAsked,
                      !.roots[best] = IF r = best THEN tip.roots[best]
                                      ELSE TipRootAsked(best)]
        /\ view' = [view EXCEPT
                       !.hashAnchor = r,
                       !.roots[best] = IF r = best THEN view.roots[best]
                                       ELSE [cached |-> TRUE, entered |-> FALSE,
                                             dirty |-> TRUE]]
        /\ UNCHANGED <<db, open>>

SetBestBlock(b) ==
    /\ open
    /\ view' = [view EXCEPT !.hashBlock = b]
    /\ UNCHANGED <<db, tip, open>>

-----------------------------------------------------------------------------
(* CCoinsViewCache view(pcoinsTip)                                         *)
OpenView ==
    /\ ~open
    /\ view' = NewCache
    /\ open' = TRUE
    /\ UNCHANGED <<db, tip>>

(* BatchWrite into a cache: what entry p of the parent becomes when the    *)
(* child's entry is c.                                                     *)
MergedCoins(p, c) ==
    IF ~c.dirty THEN p
    ELSE IF ~p.cached
         THEN IF c.coins = Pruned THEN p
              ELSE [cached |-> TRUE, coins |-> c.coins, dirty |-> TRUE, fresh |-> TRUE]
         ELSE IF p.fresh /\ c.coins = Pruned THEN NoCoins
              ELSE [p EXCEPT !.coins = c.coins, !.dirty = TRUE]

(* BatchWriteAnchors, BatchWriteNullifiers                                 *)
MergedFlag(p, c) ==
    IF ~c.dirty \/ (p.cached /\ p.entered = c.entered) THEN p
    ELSE [cached |-> TRUE, entered |-> c.entered, dirty |-> TRUE]

(* view.Flush() and the end of the view.  The hashes are assigned as they  *)
(* are, null ones too.                                                     *)
FlushView ==
    /\ open
    /\ tip' = [coins |-> [t \in Txids |-> MergedCoins(tip.coins[t], view.coins[t])],
               nulls |-> [n \in Nullifiers |-> MergedFlag(tip.nulls[n], view.nulls[n])],
               roots |-> [r \in Roots |-> MergedFlag(tip.roots[r], view.roots[r])],
               hashBlock |-> view.hashBlock, hashAnchor |-> view.hashAnchor]
    /\ view' = NewCache
    /\ open' = FALSE
    /\ UNCHANGED db

(* Mutant: the view is flushed although its block failed.                  *)
DiscardViewFlushed == FlushView

(* The view goes out of scope without a flush.                             *)
DiscardView ==
    /\ open
    /\ view' = NewCache
    /\ open' = FALSE
    /\ UNCHANGED <<db, tip>>

(* ConnectTip of the genesis block: a new view gets the best block, asks   *)
(* for no anchor, and is flushed.                                          *)
ConnectGenesis(b) ==
    /\ ~open
    /\ TipBestBlock = Null
    /\ tip' = [tip EXCEPT !.hashBlock = b, !.hashAnchor = Null]
    /\ UNCHANGED <<db, view, open>>

(* Mutant: a nullifier is written but never erased.                        *)
FlushTipNoErase ==
    /\ ~open
    /\ db' = [coins |-> [t \in Txids |-> IF tip.coins[t].dirty THEN tip.coins[t].coins
                                         ELSE db.coins[t]],
              nulls |-> [n \in Nullifiers |-> tip.nulls[n].entered \/ db.nulls[n]],
              roots |-> [r \in Roots |-> IF /\ tip.roots[r].dirty
                                            /\ ~(tip.roots[r].entered /\ r = EmptyRoot)
                                         THEN tip.roots[r].entered ELSE db.roots[r]],
              hashBlock |-> IF tip.hashBlock = Null THEN db.hashBlock ELSE tip.hashBlock,
              hashAnchor |-> IF tip.hashAnchor = Null THEN db.hashAnchor ELSE tip.hashAnchor]
    /\ tip' = Cleared(tip.hashBlock, tip.hashAnchor)
    /\ UNCHANGED <<view, open>>

(* pcoinsTip->Flush() in FlushStateToDisk: CCoinsViewDB::BatchWrite makes  *)
(* one atomic LevelDB batch; the empty root is never written, nor a null   *)
(* hash.  The cache keeps its hashes.                                      *)
FlushTip ==
    /\ ~open
    /\ db' = [coins |-> [t \in Txids |-> IF tip.coins[t].dirty THEN tip.coins[t].coins
                                         ELSE db.coins[t]],
              nulls |-> [n \in Nullifiers |-> IF tip.nulls[n].dirty THEN tip.nulls[n].entered
                                              ELSE db.nulls[n]],
              roots |-> [r \in Roots |-> IF /\ tip.roots[r].dirty
                                            /\ ~(tip.roots[r].entered /\ r = EmptyRoot)
                                         THEN tip.roots[r].entered ELSE db.roots[r]],
              hashBlock |-> IF tip.hashBlock = Null THEN db.hashBlock ELSE tip.hashBlock,
              hashAnchor |-> IF tip.hashAnchor = Null THEN db.hashAnchor ELSE tip.hashAnchor]
    /\ tip' = Cleared(tip.hashBlock, tip.hashAnchor)
    /\ UNCHANGED <<view, open>>

(* The process dies and starts again: the caches are rebuilt empty.        *)
Crash ==
    /\ tip' = NewCache
    /\ view' = NewCache
    /\ open' = FALSE
    /\ UNCHANGED db

-----------------------------------------------------------------------------
(* How ConnectBlock and DisconnectBlock use a view: they pop back to an    *)
(* anchor that is still readable (never from the empty root, which has     *)
(* nothing below it), and a view that is flushed has both its hashes set.  *)
MayPop(r) == \/ r = ViewBestAnchor
             \/ ViewAnchorAt(r) /\ ViewBestAnchor # EmptyRoot

MayFlush == view.hashBlock # Null /\ view.hashAnchor # Null

Read ==
    \/ \E t \in Txids : FetchTip(t) \/ FetchView(t)
    \/ \E n \in Nullifiers : GetTipNullifier(n) \/ GetViewNullifier(n)
    \/ \E r \in Roots : GetTipAnchorAt(r) \/ GetViewAnchorAt(r)
    \/ GetTipBest
    \/ GetViewBest

Write ==
    \/ \E t \in Txids, c \in CCoins : ModifyCoins(t, c)
    \/ \E n \in Nullifiers, spent \in BOOLEAN : SetNullifier(n, spent)
    \/ \E r \in Roots : PushAnchor(r)
    \/ \E r \in Roots : MayPop(r) /\ PopAnchor(r)
    \/ \E b \in Blocks : SetBestBlock(b)

Next ==
    \/ Read
    \/ Write
    \/ OpenView
    \/ MayFlush /\ FlushView
    \/ DiscardView
    \/ \E b \in Blocks : ConnectGenesis(b)
    \/ FlushTip
    \/ Crash

Spec == Init /\ [][Next]_vars

-----------------------------------------------------------------------------
Entries == [cached : BOOLEAN, coins : CCoins, dirty : BOOLEAN, fresh : BOOLEAN]
Flags == [cached : BOOLEAN, entered : BOOLEAN, dirty : BOOLEAN]

Caches ==
    [coins : [Txids -> Entries],
     nulls : [Nullifiers -> Flags],
     roots : [Roots -> Flags],
     hashBlock : Blocks \cup {Null}, hashAnchor : Roots \cup {Null}]

TypeOK ==
    /\ db \in [coins : [Txids -> CCoins], nulls : [Nullifiers -> BOOLEAN],
               roots : [Roots -> BOOLEAN],
               hashBlock : Blocks \cup {Null}, hashAnchor : Roots \cup {Null}]
    /\ tip \in Caches
    /\ view \in Caches
    /\ open \in BOOLEAN
    /\ ~open => view = NewCache

(* A coins entry e over a layer that answers `below': an entry that is not *)
(* dirty repeats it, and one marked FRESH has nothing unspent under it.    *)
CoinsAgree(e, below) ==
    /\ ~e.cached => e = NoCoins
    /\ e.cached /\ ~e.dirty => e.coins = below
    /\ e.fresh => below = Pruned

FlagAgrees(e, below) ==
    /\ ~e.cached => e = NoFlag
    /\ e.cached /\ ~e.dirty => e.entered = below

CoherentCoins ==
    \A t \in Txids :
        /\ CoinsAgree(tip.coins[t], db.coins[t])
        /\ CoinsAgree(view.coins[t], TipCoins(t))
        /\ view.coins[t].cached /\ ~view.coins[t].fresh => tip.coins[t].cached

CoherentNulls ==
    \A n \in Nullifiers :
        /\ FlagAgrees(tip.nulls[n], db.nulls[n])
        /\ FlagAgrees(view.nulls[n], TipNullifier(n))

CoherentRoots ==
    \A r \in Roots :
        /\ FlagAgrees(tip.roots[r], DbAnchorAt(r))
        /\ FlagAgrees(view.roots[r], TipAnchorAt(r))

(* Cache coherence, as DIRTY and FRESH are meant: whatever a cache would   *)
(* drop at a flush because it is not dirty, or erase because it is fresh,  *)
(* is what the layer below says anyway; and what the view took from        *)
(* pcoinsTip is still cached there.                                        *)
Coherent == CoherentCoins /\ CoherentNulls /\ CoherentRoots

(* BatchWrite's assertion on a child entry its parent does not hold: it is *)
(* FRESH ("if the grandparent did have it, we would have pulled it in at   *)
(* first GetCoins").                                                       *)
FreshAssertion ==
    \A t \in Txids :
        LET c == view.coins[t]
        IN  c.dirty /\ c.coins # Pruned /\ ~tip.coins[t].cached => c.fresh

(* "We should always be able to get the root that is on the tip of our     *)
(* chain" (ConnectBlock, and the assertions of ConnectTip, DisconnectTip   *)
(* and BringBestAnchorIntoCache): the best anchor of every layer can be    *)
(* read in that layer, and so can the empty root.                          *)
BestAnchorReadable ==
    /\ DbAnchorAt(DbBestAnchor)
    /\ TipAnchorAt(TipBestAnchor) /\ TipAnchorAt(EmptyRoot)
    /\ ViewAnchorAt(ViewBestAnchor) /\ ViewAnchorAt(EmptyRoot)

(* Before the genesis block there is no anchor but the empty root.         *)
NoAnchorYet == TipBestBlock = Null => tip.hashAnchor \in {Null, DbBestAnchor}

IInv == TypeOK /\ Coherent /\ BestAnchorReadable /\ NoAnchorYet

-----------------------------------------------------------------------------
(* What each layer shows of the chain state.                               *)
DiskShown ==
    [coins |-> db.coins, spent |-> db.nulls,
     anchors |-> [r \in Roots |-> DbAnchorAt(r)],
     anchor |-> DbBestAnchor, block |-> db.hashBlock]

TipShown ==
    [coins |-> [t \in Txids |-> TipCoins(t)],
     spent |-> [n \in Nullifiers |-> TipNullifier(n)],
     anchors |-> [r \in Roots |-> TipAnchorAt(r)],
     anchor |-> TipBestAnchor, block |-> TipBestBlock]

ViewShown ==
    [coins |-> [t \in Txids |-> ViewCoins(t)],
     spent |-> [n \in Nullifiers |-> ViewNullifier(n)],
     anchors |-> [r \in Roots |-> ViewAnchorAt(r)],
     anchor |-> ViewBestAnchor, block |-> ViewBestBlock]

(* What the layers show is what CoinsView promises: reading never changes  *)
(* an answer, a flush moves exactly the view's answers down one layer, and *)
(* a crash loses exactly what was not flushed to the database.             *)
Promise == INSTANCE CoinsView WITH disk <- DiskShown, tip <- TipShown, view <- ViewShown

Refines == Promise!Spec

=============================================================================
