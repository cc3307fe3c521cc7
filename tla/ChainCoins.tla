----------------------------- MODULE ChainCoins -----------------------------
(***************************************************************************)
(* How blocks move the chain state through the stack of coin views:        *)
(* ConnectBlock with UpdateCoins, DisconnectBlock with ApplyTxInUndo, and  *)
(* the ConnectTip and DisconnectTip that open, flush or throw away the     *)
(* temporary view (src/src/main.cpp).                                      *)
(*                                                                         *)
(* The calls a block makes on its view form a program, `todo'; a step      *)
(* executes the next call.  Everything runs under cs_main, so the steps of *)
(* one block are not interleaved with other users of pcoinsTip; the        *)
(* process may die between any two.  A CCoins is the set of its unspent    *)
(* outputs with the height it was included at.                             *)
(***************************************************************************)
EXTENDS CoinsCache, Integers, FiniteSets, SequencesExt

CONSTANTS
    Genesis,
    Prev,      \* block -> the block below it
    Vtx,       \* block -> its transactions, the coinbase first
    Vin,       \* transaction -> the outpoints <<txid, n>> it spends
    Outs,      \* transaction -> the indexes of its outputs
    Nf,        \* transaction -> the nullifiers it reveals
    Anchor,    \* transaction -> the anchors its proofs refer to
    Root       \* block -> the root of the commitment tree after it

VARIABLES
    job,       \* the block in hand and whether it is connected or disconnected
    todo,      \* the calls still to be made for it
    blockundo, \* the undo data collected so far: outpoint -> CTxInUndo
    undo,      \* block -> <<>>, or <<its undo data on disk>>
    fClean     \* no inconsistency was met while disconnecting

jobVars == <<job, todo, blockundo, undo, fClean>>
allVars == <<vars, jobVars>>

Idle == [kind |-> "idle", block |-> Null]

RECURSIVE Path(_)
Path(b) == IF b = Genesis THEN <<b>> ELSE Append(Path(Prev[b]), b)

nHeight(b) == Len(Path(b)) - 1

-----------------------------------------------------------------------------
(* The calls of ConnectBlock: that no transaction overwrites another, the  *)
(* tree of the best anchor, for every transaction the questions of         *)
(* HaveInputs and HaveJoinSplitRequirements, then UpdateCoins; then        *)
(* PushAnchor, the undo data and SetBestBlock.                             *)
Call(op, x) == [op |-> op, arg |-> x]

Calls(op, xs) == [i \in 1..Len(xs) |-> Call(op, xs[i])]

ConnectTx(t) ==
    Calls("haveInput", Vin[t]) \o Calls("haveNullifier", Nf[t])
        \o Calls("haveAnchor", Anchor[t]) \o Calls("spend", Vin[t])
        \o Calls("nullify", Nf[t]) \o <<Call("create", t)>>

ConnectCalls(b) ==
    <<Call("best", Prev[b])>> \o Calls("absent", Vtx[b]) \o <<Call("haveAnchor", Root[Prev[b]])>>
        \o FlattenSeq([i \in 1..Len(Vtx[b]) |-> ConnectTx(Vtx[b][i])])
        \o <<Call("push", Root[b]), Call("undo", b), Call("setBest", b)>>

(* The calls of DisconnectBlock, the transactions in reverse order.        *)
DisconnectTx(t) ==
    <<Call("erase", t)>> \o Calls("reveal", Nf[t]) \o Calls("restore", Reverse(Vin[t]))

DisconnectCalls(b) ==
    <<Call("best", b)>>
        \o FlattenSeq([i \in 1..Len(Vtx[b]) |-> DisconnectTx(Reverse(Vtx[b])[i])])
        \o <<Call("pop", Root[Prev[b]]), Call("setBest", Prev[b])>>

-----------------------------------------------------------------------------
ChainInit ==
    /\ Init
    /\ job = Idle
    /\ todo = <<>>
    /\ blockundo = <<>>
    /\ undo = [b \in Blocks |-> <<>>]
    /\ fClean = TRUE

(* ConnectTip and DisconnectTip start.                                     *)
Start(kind, b, calls) ==
    /\ job = Idle
    /\ OpenView
    /\ job' = [kind |-> kind, block |-> b]
    /\ todo' = calls
    /\ blockundo' = <<>>
    /\ fClean' = TRUE
    /\ UNCHANGED undo

StartConnect(b) ==
    /\ b # Genesis
    /\ Prev[b] = TipBestBlock
    /\ Start("connect", b, ConnectCalls(b))

StartDisconnect ==
    /\ TipBestBlock \notin {Null, Genesis}
    /\ undo[TipBestBlock] # <<>>
    /\ Start("disconnect", TipBestBlock, DisconnectCalls(TipBestBlock))

StartGenesis ==
    /\ job = Idle
    /\ ConnectGenesis(Genesis)
    /\ UNCHANGED jobVars

-----------------------------------------------------------------------------
(* One call each.  They leave the job, the undo data and fClean alone but  *)
(* where they say otherwise.                                               *)
At(op) == todo # <<>> /\ Head(todo).op = op
Arg == Head(todo).arg
Done == todo' = Tail(todo) /\ UNCHANGED <<job, undo>>
Plain == Done /\ UNCHANGED <<blockundo, fClean>>

AskBest == At("best") /\ GetViewBest /\ Plain

(* Mutant: the input is asked for, but the answer is not looked at.        *)
HaveInputUnchecked == At("haveInput") /\ FetchView(Arg[1]) /\ Plain

(* A transaction with unspent outputs that would be overwritten, a missing *)
(* or spent input, or a nullifier already spent, ends the block.           *)
NotThere == At("absent") /\ ViewCoins(Arg) = Pruned /\ FetchView(Arg) /\ Plain

HaveInput ==
    /\ At("haveInput")
    /\ Arg[2] \in ViewCoins(Arg[1]).outs
    /\ FetchView(Arg[1])
    /\ Plain

HaveNullifier == At("haveNullifier") /\ ~ViewNullifier(Arg) /\ GetViewNullifier(Arg) /\ Plain
HaveAnchor == At("haveAnchor") /\ ViewAnchorAt(Arg) /\ GetViewAnchorAt(Arg) /\ Plain

(* CCoins::Spend, and Cleanup by the modifier: no height without outputs.  *)
Without(c, n) == IF c.outs = {n} THEN Pruned ELSE [c EXCEPT !.outs = @ \ {n}]

(* Mutant: the undo entry never carries the height.                        *)
SpendInputNoHeight ==
    /\ At("spend")
    /\ ModifyCoins(Arg[1], Without(ViewCoins(Arg[1]), Arg[2]))
    /\ blockundo' = Append(blockundo, [out |-> Arg, nHeight |-> 0])
    /\ Done
    /\ UNCHANGED fClean

(* The undo entry carries the height when it is the last output to go.     *)
SpendInput ==
    LET c == ViewCoins(Arg[1])
    IN  /\ At("spend")
        /\ ModifyCoins(Arg[1], Without(c, Arg[2]))
        /\ blockundo' = Append(blockundo,
                          [out |-> Arg, nHeight |-> IF c.outs = {Arg[2]} THEN c.nHeight ELSE 0])
        /\ Done
        /\ UNCHANGED fClean

Nullify == At("nullify") /\ SetNullifier(Arg, TRUE) /\ Plain

CoinsOf(t, b) == [outs |-> Outs[t], nHeight |-> nHeight(b)]

CreateOutputs == At("create") /\ ModifyCoins(Arg, CoinsOf(Arg, job.block)) /\ Plain

EraseOutputs ==
    /\ At("erase")
    /\ ModifyCoins(Arg, Pruned)
    /\ fClean' = (fClean /\ ViewCoins(Arg) = CoinsOf(Arg, job.block))
    /\ Done
    /\ UNCHANGED blockundo

Reveal == At("reveal") /\ SetNullifier(Arg, FALSE) /\ Plain

(* ApplyTxInUndo                                                           *)
RestoreInput ==
    LET c == ViewCoins(Arg[1])
        u == CHOOSE e \in Range(undo[job.block][1]) : e.out = Arg
    IN  /\ At("restore")
        /\ ModifyCoins(Arg[1], IF u.nHeight # 0 THEN [outs |-> {Arg[2]}, nHeight |-> u.nHeight]
                               ELSE [c EXCEPT !.outs = @ \cup {Arg[2]}])
        /\ fClean' = /\ fClean
                     /\ (u.nHeight # 0) = (c = Pruned)
                     /\ Arg[2] \notin c.outs
        /\ Done
        /\ UNCHANGED blockundo

Push == At("push") /\ PushAnchor(Arg) /\ Plain
Pop == At("pop") /\ PopAnchor(Arg) /\ Plain

(* UndoWriteToDisk, unless the block has undo data already.                *)
WriteUndo ==
    /\ At("undo")
    /\ undo' = IF undo[Arg] = <<>> THEN [undo EXCEPT ![Arg] = <<blockundo>>] ELSE undo
    /\ todo' = Tail(todo)
    /\ UNCHANGED <<vars, job, blockundo, fClean>>

SetBest == At("setBest") /\ SetBestBlock(Arg) /\ Plain

Finish ==
    /\ job' = Idle
    /\ todo' = <<>>
    /\ blockundo' = <<>>
    /\ fClean' = TRUE

(* The block went through: view.Flush().                                   *)
Flush ==
    /\ job # Idle
    /\ todo = <<>>
    /\ fClean
    /\ FlushView
    /\ Finish
    /\ UNCHANGED undo

(* ConnectBlock or DisconnectBlock returns early, or reports an unclean    *)
(* undo: the view is dropped.                                              *)
Fail ==
    /\ job # Idle
    /\ todo # <<>> \/ ~fClean
    /\ DiscardView
    /\ Finish
    /\ UNCHANGED undo

-----------------------------------------------------------------------------
(* The mempool, the miner and RPC ask pcoinsTip between blocks.            *)
Lookup ==
    /\ job = Idle
    /\ \/ \E t \in Txids : FetchTip(t)
       \/ \E n \in Nullifiers : GetTipNullifier(n)
       \/ \E r \in Roots : GetTipAnchorAt(r)
       \/ GetTipBest
    /\ UNCHANGED jobVars

(* LevelDB refuses the batch: CCoinsViewDB::BatchWrite has already erased  *)
(* the entries of the maps it was given, WriteBatch throws, and            *)
(* FlushStateToDisk turns the exception into AbortNode.  pcoinsTip is left *)
(* with empty maps and the hash of its best block.  (As a mutant of        *)
(* FlushStateToDisk: the maps are emptied without being written.)          *)
FlushFails ==
    /\ job = Idle
    /\ tip' = Cleared(tip.hashBlock, tip.hashAnchor)
    /\ UNCHANGED <<db, view, open, jobVars>>

FlushStateToDisk ==
    /\ job = Idle
    /\ FlushTip
    /\ UNCHANGED jobVars

(* After a crash the undo data of the blocks the database has not reached  *)
(* may be there or not; FlushStateToDisk writes that of the others first.  *)
Die ==
    /\ Crash
    /\ Finish
    /\ undo' \in {undo, [b \in Blocks |->
                            IF db.hashBlock # Null /\ b \in Range(Path(db.hashBlock))
                            THEN undo[b] ELSE <<>>]}

ChainNext ==
    \/ StartGenesis
    \/ \E b \in Blocks : StartConnect(b)
    \/ StartDisconnect
    \/ AskBest \/ NotThere \/ HaveInput \/ HaveNullifier \/ HaveAnchor
    \/ SpendInput \/ Nullify \/ CreateOutputs
    \/ EraseOutputs \/ Reveal \/ RestoreInput
    \/ Push \/ Pop \/ WriteUndo \/ SetBest
    \/ Flush
    \/ Fail
    \/ Lookup
    \/ FlushStateToDisk
    \/ Die

ChainSpec == ChainInit /\ [][ChainNext]_allVars

(* The same with a database that may refuse a write.                       *)
FaultSpec == ChainInit /\ [][ChainNext \/ FlushFails]_allVars

-----------------------------------------------------------------------------
(* The reference: the chain state after block b, from the blocks up to b   *)
(* alone.  No block after the null hash means no state at all.             *)
ChainTo(b) == IF b = Null THEN <<>> ELSE Path(b)
TxsTo(b) == UNION {Range(Vtx[x]) : x \in Range(ChainTo(b))}
SpentTo(b) == UNION {Range(Vin[t]) : t \in TxsTo(b)}
BlockOf(t, b) == CHOOSE x \in Range(ChainTo(b)) : t \in Range(Vtx[x])

CoinsAt(b, t) ==
    LET left == {n \in Outs[t] : <<t, n>> \notin SpentTo(b)}
    IN  IF t \notin TxsTo(b) \/ left = {} THEN Pruned
        ELSE [outs |-> left, nHeight |-> nHeight(BlockOf(t, b))]

NullifierAt(b, n) == \E t \in TxsTo(b) : n \in Range(Nf[t])
AnchorsAt(b) == {EmptyRoot} \cup {Root[x] : x \in Range(ChainTo(b))}
BestAnchorAt(b) == IF b = Null THEN EmptyRoot ELSE Root[b]

(* pcoinsTip shows exactly the chain state after the block it calls best:  *)
(* every coin with its height, every nullifier, every anchor of the chain  *)
(* and no other, whatever was connected, undone, cached, flushed or lost   *)
(* on the way.                                                             *)
TipExact ==
    LET b == TipBestBlock
    IN  /\ \A t \in Txids : TipCoins(t) = CoinsAt(b, t)
        /\ \A n \in Nullifiers : TipNullifier(n) = NullifierAt(b, n)
        /\ \A r \in Roots : TipAnchorAt(r) = (r \in AnchorsAt(b))
        /\ TipBestAnchor = BestAnchorAt(b)

(* "Retrieve the block hash whose state this CCoinsView currently          *)
(* represents" (CCoinsView::GetBestBlock), for the database: what LevelDB  *)
(* holds is the chain state after the best block it names, so a node that  *)
(* dies at any moment starts again from a state some block really had.     *)
DiskExact ==
    LET b == db.hashBlock
    IN  /\ \A t \in Txids : db.coins[t] = CoinsAt(b, t)
        /\ \A n \in Nullifiers : db.nulls[n] = NullifierAt(b, n)
        /\ \A r \in Roots : DbAnchorAt(r) = (r \in AnchorsAt(b))
        /\ DbBestAnchor = BestAnchorAt(b)

(* Both layers show exactly the chain state of the block they call best.   *)
LayersExact == TipExact /\ DiskExact

(* Undo data always fits: DisconnectBlock finds the outputs the block      *)
(* created exactly as it created them, no undo entry meets an output that  *)
(* is there, and the entry that revives a pruned transaction is exactly    *)
(* the one that carries its height.                                        *)
UndoClean == fClean

(* UpdateCoins' assertion: the output a transaction spends is there when   *)
(* ModifyCoins reaches it, also when it was created earlier in the block.  *)
SpendAssertion == At("spend") => Arg[2] \in ViewCoins(Arg[1]).outs

(* No assertion fires: that of BatchWrite on FRESH, those on the best      *)
(* anchor, and that of UpdateCoins.                                        *)
AssertionsHold == FreshAssertion /\ BestAnchorReadable /\ SpendAssertion

(* Blocks use the stack as CoinsCache allows: PopAnchor pops the best      *)
(* anchor to one that can be read, a view that is flushed has its hashes,  *)
(* pcoinsTip is not flushed under an open view.  So what is proved of      *)
(* CoinsCache holds of ChainSpec.                                          *)
Discipline == Spec

=============================================================================
