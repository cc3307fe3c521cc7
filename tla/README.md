# A TLA+ model of the SquishyCoin node

This directory specifies the parts of SquishyCoin whose correctness depends on
the order in which things happen: the script-verification thread pool, the
delayed-proof-of-work (dPoW) state with its state file, the block index with the
choice of the active chain, the stack of coin caches below it, the memory pool
with its wallet notifications, and the download of blocks from peers. The
specifications are translated from the C++ under `src/src/`. TLC checks them on
small instances. TLAPS proves central invariants, and one refinement, for every
value of the constants.

`PROJECT.json` is the index: components, runs, mutants, the map from definitions
to source lines, hazards, findings and theorems.

## 1. The system

SquishyCoin is a full node of the Bitcoin / Zcash / Komodo family. A node keeps a
tree of block headers, picks the chain with the most work among those it has in
full and believes valid, and keeps a database of unspent outputs for the tip of
that chain. dPoW adds a second rule. Notaries write transactions that name a
block of this chain (a *notarisation*), and a notarised block must not be
reorganised away. A Merkle root over recent blocks (a *MoM*) may come with it.

| Part | State | Operations | Interacts with |
|---|---|---|---|
| Script check queue (`checkqueue.h`) | `queue`, `nIdle`, `nTotal`, `nTodo`, `fAllOk`, two condition variables | `Loop` of every thread, `Add`, `Wait`, the control object | `ConnectBlock`; the thread group interrupted at shutdown |
| Notarised checkpoints (`squishy_structs.cpp`) | `NPOINTS`, cached index, `last` | `AddCheckpoint`, `NotarizedData`, `NotarizedHeight`, `PrevMoMHeight` | header check, reorganisation guard, RPC |
| dPoW state (`squishy.cpp`, `squishy_events.cpp`) | events, `SAVEDHEIGHT`, `CURRENT_HEIGHT`, `hwmheight`, the state file | `squishy_connectblock`, `squishy_stateupdate`, replay in `squishy_init` | `ConnectTip`, `ConnectBlock` on notary-pay chains |
| Block index and active chain (`main.cpp`) | `mapBlockIndex` and its flags, `mapBlocksUnlinked`, `setBlockIndexCandidates`, `setDirtyBlockIndex`, `chainActive`, sequence numbers | headers, blocks, `ActivateBestChain`, `InvalidateBlock`, `ReconsiderBlock`, `FlushStateToDisk`, `LoadBlockIndexDB` | all of the above, the network, RPC, the databases |
| Coins cache (`coins.cpp`, `txdb.cpp`) | maps of coins, nullifiers and anchors with flags FRESH and DIRTY, over LevelDB | fetch, modify, push and pop anchor, `BatchWrite`, `Flush` | `ConnectBlock`, `DisconnectBlock`, `FlushStateToDisk` |
| Memory pool (`txmempool.cpp`) | `mapTx`, `mapNextTx`, nullifier maps, `mapRecentlyAddedTx` | accept, remove for block, for reorganisation, by anchor, by expiry, by epoch | `ConnectTip`, `DisconnectTip`, wallet notifications |
| Block download (`main.cpp`) | `CNodeState` per peer, `mapBlocksInFlight`, three global counters | `inv`, `headers`, `block` handlers, `SendMessages`, `FinalizeNode` | peers, block index |
| RPC operations, HTTP work queue, scheduler | queues served by threads | add, pop, cancel, interrupt, close | RPC clients, shutdown |
| Notary registry, key-value store, cross-chain data | tables indexed by height | update from events, look-up | `squishy_connectblock`, RPC |

What makes the code hard is the following. Several threads share a queue under one
mutex and run its work outside it. `ActivateBestChain` drops `cs_main` between
rounds, so headers, blocks and RPC calls come in between. Blocks arrive before their
parents. A chain turns out to be invalid after some of its blocks were connected.
Block index, coins and state file are three separate stores that a crash leaves at
different ages. A restart loses the order of arrival. The notarised height is
cached, re-read and given up at several places. A coin is cached twice over a
database, with flags that decide what a flush writes. Pool transactions outlive the
blocks and anchors they depend on. Peers answer late, never, twice or unasked, and
leave while they owe blocks. The `hazards` of `PROJECT.json` list these at the lines
where they bite.

## 2. Modules

| Module | Models | Extends |
|---|---|---|
| `CheckQueue` | `CCheckQueue`, `CCheckQueueControl` | |
| `CheckQueueProofs` | its theorems | `CheckQueue` |
| `Checkpoints` | the vector of checkpoints and its searches, as operators | |
| `NotaryState` | class `squishy_state`, `squishy_connectblock`, the state file | `Checkpoints` |
| `NotaryStateProofs` | its theorems, and the one on the cached search | `NotaryState` |
| `BlockTree` | the immutable part of `CBlockIndex`, its comparator, `FindFork` | |
| `ChainState` | block index, candidates, active chain, disk; composes `BlockTree` with `Checkpoints` | `BlockTree`, `Checkpoints` |
| `ChainStateProofs` | types, data and disk: its first inductive invariant; the order of the candidates | `ChainState` |
| `ChainFlags` | the course of a step and the dPoW promises; failure flags and links, in memory and on disk | `ChainStateProofs` |
| `ChainBest` | why the node settles on a best chain | `ChainFlags` |
| `ChainTheorems` | the theorems on the best chain, and those that count blocks | `ChainBest` |
| `CoinsView` | what a stack of coin views promises: three plain snapshots | |
| `CoinsCache` | `CCoinsViewCache` twice over `CCoinsViewDB`; instantiates `CoinsView` | |
| `CoinsCacheProofs` | its invariant and the refinement | `CoinsCache` |
| `ChainCoins` | the calls of `ConnectBlock`, `DisconnectBlock`, `UpdateCoins`, `ApplyTxInUndo` on the stack, the undo files | `CoinsCache` |
| `MemPool` | the pool, its use by a step of `ActivateBestChain` and by `InvalidateBlock`, the notifier thread | |
| `BlockDownload` | requests, timeouts and peers | `BlockTree` |
| `BlockDownloadProofs` | its invariant and theorems | `BlockDownload` |
| `MCCheckQueue`, `MCNotaryState`, `MCChainState`, `MCChainCoins`, `MCMemPool`, `MCBlockDownload` | instances for TLC | |

The modules meet at these places. `ChainState` takes from `NotaryState` that a
restart brings the checkpoints back (`ReplayExact`). `MemPool` takes from
`ChainCoins` that `pcoinsTip` is a function of the tip (`TipExact`), and from
`ChainState` the order of disconnections and connections in a step.
`BlockDownload` contains `ActivateBestChain` as the single step that `ChainState`
shows it to be (`TipIsBest`, `Converges`). `ChainCoins` is built on the actions of
`CoinsCache`, and `Discipline` shows that its behaviours are behaviours of
`CoinsCache`, so the theorems on the latter apply.

Operators whose comment starts with "Mutant" are deliberately wrong variants of
the definition that follows them. They show that the properties would notice
such a mistake, and no specification uses them.

### 2.1 `CheckQueue`

One action is one critical section of `boost::mutex mutex`. The batch is executed
in a separate step outside the mutex. `pc[t]` says where thread `t` is in `Loop`.
`LoopBody` is the code from "logically, the do loop starts here" to the end of
the critical section. It is entered from three places: the first iteration (the
thread counts itself), the clean-up after a batch, and the return of `cond.wait`.
A condition variable is the set of threads whose `pc` is `"wait"`. `notify_one`
picks any waiter, wake-ups may be spurious, and a wait throws
`thread_interrupted` after `InterruptAll`. In that case `nIdle` and `nTotal` keep
counting the thread and the master's destructor enters `Loop` again.

Abstractions: the queue is a set, since the order of the checks is said not to
matter. A check is a constant verdict (`Good`). Every control object may reuse
the same checks.

### 2.2 `Checkpoints` and `NotaryState`

`NotarizedData` is the linear search with the cached start, and
`NotarizedDataIndex` the value it leaves in the mutable member. A loop "from `i`
up to the first entry not below `h`" is the set `Breaks` of indices at which it
can break. That set has at most one element; if it has none the loop runs to the
end, so no recursion is needed.

`NotaryState` splits `squishy_connectblock` into `ConnectStart` (high-water mark
and rewind), any number of `Vout` steps, and `ConnectEnd` (height event). A crash
may come between any two of them. `stateupdate` appends a record, applies it and
flushes, so a record and its effect are one step. `NotaryPay` is chosen at the
start and never changes. On such a chain `ConnectBlock` first calls
`squishy_connectblock` with `fJustCheck` (`JustCheck`), and a block has at most
one notarisation. `Replay` reads the file back record by record. The height that
a notarisation claims for its block is compared with the block only after the
initial download; during it, `Vout` takes any height. Regtest is the one network
where `squishy_connectblock` simulates notarisations (`squishy.cpp:798-803`). That
branch is not modelled.

`squishy_event_rewind` pops events without undoing them. The call
`squishy_event_undo(sp, *ev)` goes through a pointer to the base class, which
selects the template with the empty body and not the specialisation that would
lower `SAVEDHEIGHT`. The model has what is executed.

### 2.3 `BlockTree` and `ChainState`

`BlockTree` holds all blocks of the network with parent, height, work and the
verdicts that validation would reach (`BadContext`, `BadConnect`). `Path[b]` is
`b` with its ancestors. It is a constant with its defining equation as an
assumption, and `TreeAssumption` also says that every block descends from the
genesis block, in the form of an induction rule over sets of blocks (section 4).

`ChainState` has one variable per data structure of `main.cpp`. `act` is the
holder of `cs_main`: idle, inside one `ActivateBestChainStep`, or inside
`InvalidateBlock`. `abc` is the set of `ActivateBestChain` calls that have not
returned. Calls of a kind are interchangeable, so a set is enough: `"dpow"` from
the network, `"skip"` from an RPC, `"init"` from start-up.

| Action | Code |
|---|---|
| `ProcessNewHeader`, `HeaderRefused` | `AcceptBlockHeader` with `ContextualCheckBlockHeader` and `squishy_checkpoint` |
| `ProcessNewBlock` | `AcceptBlock`, `ReceivedBlockTransactions`, the call of `ActivateBestChain` |
| `ActivateBestChainDone`, `...Ignores`, `...Shutdown`, `...Step` | `FindMostWorkChain` and the decisions at the head of `ActivateBestChainStep` |
| `Disconnect`, `DisconnectRefused` | the disconnect loop with `DisconnectTip` |
| `Connect`, `ConnectFails` | the connect loop with `ConnectTip`, `InvalidBlockFound`, `PruneBlockIndexCandidates` |
| `InvalidateBlock`, `InvalidateDisconnect`, `InvalidateDone` | `InvalidateBlock`, one step per block |
| `ReconsiderBlock` | `ReconsiderBlock` and the call that follows it |
| `Crash`, `StopAndRestart` | `LoadBlockIndexDB` after a crash, or after the flush in `Shutdown` |
| `LeaveIBD` | the latch of `IsInitialBlockDownload` |
| `Halted` | a node that shut down or failed an assertion does nothing more |

`FlushStateToDisk` decides by cache sizes and timers, so in the model it may or
may not write, in the order the code writes: index first, coins second. A crash
finds what the last flush left, or the index of a flush that had not come to the
coins yet (`IndexWritten`).

`address` is the order of index entries in memory, the last criterion of
`CBlockIndexWorkComparator`. It changes at a restart. After a restart the
checkpoints are those of the last moment before it. That is what
`NotaryState!ReplayExact` establishes for the state file.

### 2.4 `CoinsView`, `CoinsCache`, `ChainCoins`

`CoinsView` is the abstract specification. It has the snapshots `disk`, `tip`,
`view`. A commit replaces the tip by the view, a sync the disk by the tip, and a
crash falls back to the disk. In `CoinsCache` a map is a function from all keys to
entries, and a key the map does not hold has an entry that is not `cached`. An
action is one call on a view: `FetchCoins` with the copies it leaves in both
caches, `ModifyCoins` with the destructor of the modifier, the nullifier and
anchor calls, `Flush` of the view (`BatchWrite` into `pcoinsTip` with its rules on
FRESH and DIRTY), `Flush` of the tip (one LevelDB batch), and a crash. The
refinement mapping takes each layer to what its readers are answered.

In `ChainCoins` a block is a program of calls (`ConnectCalls`, `DisconnectCalls`),
and a step executes one. A call that fails ends the block and throws the view
away. The process may die between two calls. A coin is its set of unspent outputs
with its height. Undo data carries the height only with the last output, as
`UpdateCoins` writes it. `FaultSpec` adds flushes that fail.

Abstractions: the Sprout and the Sapling tree run the same templates and are one
pool. A tree is its root. Values, scripts and the coinbase flag of a coin are left
out, since they travel with the height. After a crash the undo data of blocks the
database has not reached may be there or not.

### 2.5 `MemPool`

`ActivateBestChainStep` and `InvalidateBlock` start a piece of work under
`cs_main`. `DisconnectTip` takes blocks off down to the fork, or down to the block
below the invalidated one, and `ConnectTip` adds others. The target of a step is
free, which covers whatever `FindMostWorkChain` may choose. `FinishStep` and
`FinishInvalidate` are the ends of the two functions with their clean-ups
(`CleanUp`): a step calls `removeForReorg` if it has disconnected something,
`InvalidateBlock` always, and both call `removeWithoutBranchId`.

`notarized` is the block of the last notarisation, which `DisconnectTip` refuses. A
step from the network is stopped before its first disconnection
(`BelowNotarized`); one with `fSkipdpow`, from an RPC or from start-up, may be
refused after several. `ActivateBestChainStep` then returns at once
(`DisconnectRefused`): the blocks are gone and no clean-up has run. `unswept` is
TRUE from a disconnection to the next `removeForReorg`. A refused
`InvalidateBlock` does clean up.

The notifier thread has two actions, because it
drops the pool's lock between copying `mapRecentlyAddedTx` and telling the wallet.
`SpecCC` has the `CheckBlock` of `-ac_cc` chains, which swaps pool and block
transactions.

Abstractions: a transaction is what the pool looks at (outpoints, nullifiers,
anchors, lock and expiry height, epoch, standard or not). Fees, sizes and
priorities are left out, so acceptance depends on `Standard` and on the state. An
output has a value where the time lock of coinbases asks for it: `TotalTxValue`
and `ReorgEvicts` look at it in the two different ways the code does. `pcoinsTip`
may answer "none" for a transaction whose coins are all spent (`Pruned`).

### 2.6 `BlockDownload`

A handler or a `SendMessages` is one step of the message thread under `cs_main`.
Nodes are created and finalised by other threads in between, and `fDisconnect`
may be raised at any moment. Time is abstract: a timeout may expire whenever one
is running. A reliable peer stays, keeps its chain, announces its best block and
answers what it is asked. Any other peer may reorganise: `Has[p]` holds the blocks
of all the chains it has been on, and it may announce any of them at any time. It
may send headers and blocks late, twice or unasked, send blocks that do not pass
`CheckBlock`, or go away.

Abstractions: `mapBlockSource`, and with it the ban for a block that turns out
invalid when it is connected, is part of the free disconnection. Whitelisted,
one-shot and light clients, import and reindex, pruning, and the second look of
`-ac_cc` chains at failed headers are left out. `futureblock` is read without
having been set in one path of the `headers` handler; the model takes either
outcome. `BanScore` bounds misbehaviour. `vBlocksInFlight` is a set: the order of
the list only decides which request has its timeout tested next, and a timeout may
expire whenever one is running. The three variables that `MarkBlockAsReceived` and
`MarkBlockAsInFlight` change together are one value, `Queue`, that operators map to
the next one; the blocks of one `SendMessages` are marked in one application.

## 3. What the runs check

All runs use breadth-first TLC. Eight pass. Deadlock is checked in all of them but
`block_download`, where everything may be downloaded and every peer quiet.

| Run | Question | Instance |
|---|---|---|
| `check_queue` | Is the verdict of `Wait` the conjunction of all checks, is none left behind, and does `Wait` return? | 2 workers and a master, 4 checks (1 bad), `nBatchSize` 2 |
| `notary_state` | Do `last`, `NPOINTS`, events and the file agree through reorganisations, orphaned notarisations, crashes and replay? | 3 notarisable blocks (2 rivals), height 3, 4 calls of `squishy_connectblock`, 1 crash, with and without notary pay |
| `chain_network` | Are candidates and unlinked blocks exact, is the tip best, does the node end on the best valid chain? | 9 blocks on 3 branches, 1 that does not connect, 1 notarisation |
| `chain_restart` | Does what is on disk always load, and is the best chain found again? | 6 blocks, 2 memory layouts, 1 crash or stop |
| `chain_rpc` | What do `invalidateblock` and `reconsiderblock` do in any order with the rest, and does `MAX_REORG_LENGTH` hold at its limit? | 7 blocks, 1 of them refused by its contextual checks, 1 call of each, limit 1 |
| `chain_coins` | Do two caches and a database show the chain state of the block they call best, through failures, flushes and crashes? | 7 blocks on 3 branches, 7 transactions, 2 nullifiers, 3 roots |
| `mem_pool` | Is the pool consistent with the chain after every reorganisation, and is the wallet told? | 7 blocks on 2 branches, 13 transactions next to 6 coinbases, 2 epochs |
| `block_download` | Are requests, lists and counters exact, does every request end, does the node catch up? | 1 reliable peer, 1 arbitrary peer that reorganises, 5 blocks, window 1, 2 requests per peer |

The properties, and what they are for:

- `WaitVerdict`, `TodoExact`, `NoStragglers`, `WaitReturns`: the verdict merged
  from batches that ran at the same time is right, `nTodo` counts batches in
  threads' hands too, no check outlives its control object, and nobody sleeps for
  ever, also when all workers are interrupted.
- `LastIsNewest`, `CheckpointsRise`: `last`, which the reorganisation guard
  trusts, and `NPOINTS`, which the header check trusts, part only when
  `NotarizedHeight` has given `last` up.
- `ReplayExact`: the file brings back checkpoints, events and `SAVEDHEIGHT`
  wherever the process died. `EventsFollowChain`: no event is added on top of
  events of blocks that are gone.
- `SearchExact`: the cached search answers like the plain one.
- `SetsExact` (`CandidatesExact` and `UnlinkedExact`), `FailedHaveCause`: what
  `CheckBlockIndex` asserts (by default it runs on regtest only). `TipIsBest`:
  what they are for.
- `NeverAborts`: the assertion of `PruneBlockIndexCandidates`. `chain_restart` has
  no block that `ConnectBlock` refuses; with one, or with an `invalidateblock`, a
  restart can abort (`chain_abort`, section 4).
- `NotarizedBlockKept`, `RefusedInPlace`, `OnlyNotarizedSurvives`: the dPoW
  promises, for reorganisations and for `invalidateblock`. What `invalidateblock`
  may leave on the chain lies at or below a block that some notarisation has named.
  `RefusedInPlace` is about blocks from the network, whose guard compares heights
  before anything is disconnected; RPC calls and start-up skip the guard
  (`MCChainStartup`).
- `BestUnlessRefused`: `invalidateblock` leaves a best chain behind, unless a block
  at or below a notarised one is invalid.
- `ReorgBounded`: no step gives up more than `MAX_REORG_LENGTH` blocks.
- `DiskConsistent`: the index on disk has every block the coins stand for.
- `Converges`: the node ends on a chain with the most work among those whose
  blocks are all valid and which, once a notarised block is on the active chain,
  hold that block.
- `Coherent`: an entry that a flush would drop as clean, or erase as fresh, says
  what the layer below says anyway. `Refines`: the stack implements `CoinsView`.
  `Discipline`: blocks use the stack as `CoinsCache` allows.
- `LayersExact`: `pcoinsTip` and the database show exactly the coins, nullifiers
  and anchors of the chain up to their best block, against a reference computed
  from the blocks alone. `UndoClean`: undo data always fits. `AssertionsHold`: the
  assertions of `BatchWrite`, on the best anchor, and of `UpdateCoins`. In this run
  a flush happens or does not; one that fails is the subject of `MCChainCoinsFault`.
- `PoolConsistent`, `ShieldedValid`: what `CTxMemPool::check` asserts of its maps,
  of coins that must exist, of nullifiers and of anchors (by default it runs on
  regtest only). Its assertion that `CheckTxInputs` accepts every entry is
  `InputsSpendable`, and does not hold (`MCMemPoolReorg`).
- `Minable`: nothing in the pool is confirmed. Unless a refused reorganisation has
  left without its clean-up, nothing is expired, locked by its own `nLockTime` or
  of another epoch, and nothing spends a coinbase that is immature *and* time-locked
  by its first output, which is what `removeForReorg` tests. A coinbase that is only
  one of the two may be spent in the pool.
- `WalletKnowsBlock`, `WalletTold`: the race that the comment in
  `NotifyRecentlyAdded` calls harmless is, and no transaction goes untold.
- `QueueExact`: `mapBlocksInFlight`, the lists of the nodes and the counters agree,
  however nodes come and go. `StallerOwes`: nobody is accused of stalling without
  owing a block. `CommonShared`: `pindexLastCommonBlock` is a block both have, also
  when the peer has reorganised since. `nQueuedValidatedHeaders` is only bounded
  from below here (`block_download_queued`).
- `RequestsNew`: no pending request is taken over. `RequestsEnd`: none stays for
  ever. `Synced`: the node reaches the work of a reliable preferred peer, whatever
  the other peers do.

Four more runs end in a counterexample, each against a sentence of the source:

| Run | Sentence | What happens |
|---|---|---|
| `chain_abort` | "Either the current tip or a successor of it ... is left in setBlockIndexCandidates" | an `InvalidateBlock` refused or flushed half-way leaves no candidate after a restart |
| `chain_stuck` | "The result is either failure or an activated best chain." | an invalid chain over the notarised block is tried, the tip falls back to the notarised block, where the guard `pindexOldTip->nHeight > notarizedht` is silent; a rival fork is refused at every call and the valid block above is never connected again |
| `mem_pool_cc` | "Check that every mempool transaction's inputs refer to available coins, or other mempool tx's." | `CheckBlock` of an `-ac_cc` chain puts a conflicting transaction back over the block's entry in `mapNextTx`; it stays in the pool with a spent input |
| `block_download_queued` | "Number of blocks in flight with validated headers." | `FinalizeNode` never lowers `nQueuedValidatedHeaders` |

### Further configurations

These configurations end in a counterexample too. Each checks one property against
a sentence of the source and can be run with `tlc -config X.cfg M`.

| Configuration, module | Property | Sentence | What happens |
|---|---|---|---|
| `MCNotaryStateMoM`, `MCNotaryState` | `PrevMoMHasMoM` | "the last notarized height that has a MoM" (`squishy_structs.cpp:446`) | a notarisation without a MoM inherits the previous one's |
| `MCNotaryStateSearch`, `MCNotaryState` | `HighestBelow` | "Get the notarization data below a particular height" (`squishy_structs.cpp:359`) | after a reorganisation the search stops at a checkpoint of a higher block and answers "none" |
| `MCChainStartup`, `MCChainState` | `RefusedInPlace` | "stay on the same chain tip!" (`main.cpp:4386`) | activation at start-up skips the guard, disconnects, is refused at the notarised block and shuts down on another tip |
| `MCChainRivals`, `MCChainState` | `IgnoresOnlyRivals` | "trying to invalidate longest chain, which tried to reorg notarized chain" (`main.cpp:4418`) | the guard compares heights only and refuses the chain that does hold the notarised block |
| `MCChainReconsider`, `MCChainState` | `CandidatesExact` | "it must be in setBlockIndexCandidates" (`main.cpp:6878`) | the ancestors `ReconsiderBlock` clears do not become candidates again |
| `MCChainCoinsFault`, `MCChainCoins` | `DiskExact` | "Retrieve the block hash whose state this CCoinsView currently represents" (`coins.h:390`) | a flush fails after the maps were emptied; the flush in `Shutdown` writes the best block without its coins |
| `MCMemPoolReorg`, `MCMemPool` | `InputsSpendable` | "assert(fCheckResult)" (`txmempool.cpp:671`), and "Remove transactions spending a coinbase which are now immature" (`txmempool.cpp:397`) | the condition of `removeForReorg` also asks for a time lock, so a plain immature spend stays and `CheckTxInputs` refuses it |
| `MCMemPoolRefused`, `MCMemPool` | `UpToDate` | "You probably want to call mempool.removeForReorg and mempool.removeWithoutBranchId after this" (`main.cpp:4019`) | a step with `fSkipdpow` disconnects, is refused at the notarised block and returns without them |
| `MCBlockDownloadBest`, `MCBlockDownload` | `BestAnnouncedKept` | "The best known block we know this peer has announced." (`main.cpp:300`) | a later announcement overwrites an unknown better one |

`MCChainAborted` with `MCChainState` passes: with crashes, `invalidateblock` and
blocks that do not connect, the assertion of `PruneBlockIndexCandidates` fails only
where the tip of the coins database is marked as failed (`AbortsOnlyFailed`, which
is also proved).

Four related observations follow from the same modules and are kept in the models,
without a configuration of their own:

- On an `-ac_cc` chain a header that is sent again clears the failure flags of a
  block without making it a candidate (`main.cpp:5476`). Setting
  `ASSETCHAINS_CC = TRUE` shows it.
- A block that arrives while its parent is marked failed and not linked yet is
  not entered in `mapBlocksUnlinked` (`main.cpp:4839`). It stays unlinked when
  the parent is linked.
- `ReconsiderBlock` of a header-only child leaves a sibling marked
  `BLOCK_FAILED_CHILD` without an invalid ancestor (`main.cpp:4695`).
- `SAVEDHEIGHT` is never lowered (section 2.2).

### Bounds

- Check queue: with 4 checks and 3 threads, batches of more than one check
  occur, a thread finds the queue empty while another still holds a batch, and
  the control object is constructed again after an interruption.
- Notary state: height 3 with 4 calls allows a reorganisation over two blocks
  that carry notarisations, and a crash anywhere in it. The rivals at height 1
  make the notarised block differ from the one on the chain.
- Chain: the trees have a fork below and a fork above the notarised block, ties
  in work, and a branch that fails above a valid part. A reorganisation of two
  blocks is the longest they allow, hence `MAX_REORG_LENGTH` 2 where the limit is
  not the subject and 1 where it is. Work equals height, because ties are the
  interesting case. In `chain_rpc` one notarisation names an ancestor and one a
  block of the other branch.
- Coins: one transaction is on two branches at different heights, one is spent in
  part by one block and in whole by another, one is created and spent in one block,
  one root is the same before and after a block, and one block spends twice.
- Memory pool: chained, conflicting, non-standard, shielded, expiring and
  time-locked transactions, one of them of the old epoch, over two
  branches of two blocks. A reorganisation may go either way any number of times,
  a block may be invalidated at any moment, and a notarisation may refuse either.
- Block download: the two chains fork at the genesis block. The one of the
  arbitrary peer has more work, a block that does not connect and one that fails
  its contextual checks; the peer has also been on the first block of the other
  chain. With a window of 1 the limits are reached and a peer stalls another one.
- `MaxRestarts`, `MaxInvalidate`, `MaxReconsider`, `MaxConnects`, `MaxHeight`
  appear in guards only. The theorems hold for every value of them, except
  `ChainRefusedInPlace`, which is about the value 0.

### Fairness

`CheckQueue!FairSpec` has weak fairness for the steps of each thread in `Loop`.
The mutex is held for a bounded piece of code and the threads are scheduled by the
operating system. Nothing is assumed of `InterruptAll`, of spurious wake-ups, or
of the master adding checks or calling `Wait`.

`ChainState!LiveSpec` has weak fairness for `Activation`, since the calling thread
runs `ActivateBestChain` to its end, and strong fairness for the delivery of every
block that is not stored. Peers announce blocks again and requests that time out
are repeated. `cs_main` may be taken at the moment of an attempt, so the delivery
is not continuously enabled and weak fairness would not do. A delivery
stores the block or marks it as failed, so (without `-ac_cc`, and with restarts and
reconsiderations bounded) no block is delivered infinitely often, and the strong
fairness says that from some point on no delivery is enabled: that is how it is
written (`CanDeliver`).

`MemPool!NotifySpec` has weak fairness for the two halves of the notifier thread,
which runs once a second. Nothing is assumed of blocks or of new transactions.

`BlockDownload!FairSpec` assumes that the message thread and the socket thread keep
running and that time passes: a timeout that goes on running expires. A reliable
peer connects, announces its best block and answers. Of the other peer nothing is
assumed. There is no timeout for a `getheaders` that is not answered, so `Synced`
rests on the announcement by the reliable peer. Weak fairness of a step that
disables itself says that the step is not enabled for ever, and is written so
(`CanFinalize`, `CanSend`, `CanExpire`, `CanGreet`, `CanAnswer`). `CanSend` qualifies
because a call of `SendMessages` that leaves the next one something to do has moved
`pindexLastCommonBlock` up the chain, which ends.

## 4. What is proved

| Theorem | Statement | Assumptions |
|---|---|---|
| `CheckQueueTypeOK`, `...Verdict`, `...Todo`, `...NoStragglers` | the safety properties of section 3 | any finite sets of workers and checks, any batch size |
| `CachedSearchExact` | on ascending checkpoints the search from any cached index answers like the search from the start | none on length or heights |
| `NotaryTypeOK`, `...LastIsNewest`, `...CheckpointsRise`, `...SearchExact`, `...ReplayExact`, `...EventsFollowChain` | the properties of section 3 | any hashes, heights, depths and bounds |
| `ChainTypeOK`, `...DiskConsistent`, `...NotarizedBlockKept`, `...ReorgBounded` | the properties of section 3 | any finite block tree (`TreeAssumption`, `ChainAssumption`), any notarisations, any limit |
| `ChainRefusedInPlace` | `RefusedInPlace` | the same, no RPC call and no restart |
| `ChainOnlyNotarizedSurvives` | `OnlyNotarizedSurvives` | the same, within one life of the process, any RPC calls |
| `ChainAbortsOnlyFailed` | `AbortsOnlyFailed` | the same, any restarts, crashes and RPC calls, any invalid blocks |
| `ChainFailedHaveCause` | `FailedHaveCause` | the same, not `-ac_cc`, no `reconsiderblock` |
| `ChainUnlinkedExact` | `UnlinkedExact` | the same, not `-ac_cc`, no RPC call (`Untouched`) |
| `ChainTipIsBest`, `...SetsExact` | the properties of section 3 | the same, `Untouched`, and no restart or no block that `ConnectBlock` refuses (`Undisturbed`) |
| `ChainAliveUntilRestart` | `NeverAborts` | the same, within one life of the process, any RPC calls |
| `ChainBestUnlessRefused` | `BestUnlessRefused` | the same, not `-ac_cc`, within one life of the process |
| `DownloadQueueExact`, `...StallerOwes`, `...CommonShared`, `...RequestsNew` | the safety properties of section 3 | any finite block tree (`TreeAssumption`), any finite set of peers, any choice of their chains (`Has`), of outbound and of reliable ones, any limits (`DownloadAssumption`) |
| `CoherentTheorem`, `FreshTheorem`, `AnchorTheorem` | `Coherent`, `FreshAssertion`, `BestAnchorReadable` of `CoinsCache` | any sets of transactions, coins, nullifiers, roots and blocks (`CoinsAssumption`: the null hash is no block and no root) |
| `Refinement` | `CoinsCache!Spec` implements `CoinsView!Spec` | the same |

Each rests on an inductive invariant (`IInv`, `DInv`) that has one lemma per action.
The type invariants of `CheckQueue`, `NotaryState`, `ChainState`, `CoinsCache` and
`BlockDownload` are part of it or follow from it. That of `MemPool` is part of
`PoolConsistent` and model-checked.

*Check queue.* `WaitVerdict` alone is not inductive, because it says nothing while
results are scattered over threads. `PartialVerdicts` follows them: `fAllOk`
speaks for the checks added and no longer pending, and `fOk[t]` for the batch of
`t` once it ran. `Batches` says a check is in one place only, so the clean-up of
`t` subtracts exactly its own share from `nTodo`. `Counters` only bounds `nIdle`
and `nTotal` from below. They are not exact after an interruption, and do not need
to be. `LoopBodyStep` proves the common part of the three entries once.

*Notary state.* `CheckpointsRise` must survive a crash that empties memory, so it
needs a statement about the file. `FileRises` says the notarisations in the file
rise, those already replayed are no higher than `last`, and those still to be
replayed are above it. `Records` gives each record the two conditions that
`squishy_notarized_update` checks, so replay refuses none. All are conditional on
no notarisation having been given up as an orphan. After that lower heights may be
notarised again. `ReplayExact` compares the state after a replay with the one before
the crash. Its invariant `Replayed` says that the snapshots after each record of the
file form a history: memory is the last of them, or during a replay the one at the
record reached. For `EventsFollowChain` the invariant `Follows` ties the events to
`hwmheight`: disconnecting blocks leaves their events in the list, but the next block
then starts at `hwmheight` or below, and that is what triggers the rewind.

*Chain state.* The argument has four layers, each an invariant on top of the last.

1. `IInv` (`ChainStateProofs`). `Downloaded` says what is linked, a candidate or on
the active chain has its data with that of all ancestors. `OnDisk` says the disk
lags behind memory only by dirty entries. A flush that writes the dirty entries
before the coins therefore leaves an index that covers the chain of the coins.
`NotarizedBlockKept` follows because `last` and the hash `DisconnectTip` refuses are
read in the same critical section.
2. `GInv` (`ChainStateProofs`, `ChainFlags`). `Ordered`: no candidate is worse than
the tip, and blocks with `nChainTx` are closed under parents. `Heights`: a
notarisation holds the height of the block it names. `Stepping`: a step goes from
the tip it found down to a fork it has measured, then up to a better target over
blocks that have not failed. So the fork never leaves the chain (`ReorgBounded`),
the set that `PruneBlockIndexCandidates` cuts keeps the target
(`ChainAliveUntilRestart`), and a refusal comes before the first disconnection
(`RefusedInPlace`). `OnlyNotarizedSurvives` needs `Survives`: an invalid block of
the active chain is at or below a block that a notarisation has named (`Protected`),
or the loop of `InvalidateBlock` has not reached it. The last notarised block alone
would not do: a later notarisation may name another branch, and the blocks that the
former one kept stay. `Recorded` says that the hash `DisconnectTip` refuses is among
those named. `ChainAbortsOnlyFailed` joins the two places of the assertion: inside a
step the target keeps the set from being empty, and at a start the tip itself does,
unless it is marked as failed.
3. `FInv` and `LInv` (`ChainFlags`). A failed block has an invalid ancestor, and on
disk the flag of a descendant never precedes the one of its cause, although
`FindMostWorkChain` sets flags without marking the entries dirty. A stored block
whose ancestors are all stored has `nChainTx`; one that waits in no list waits for
the data of a block found invalid.
4. `Calm` and `BestInv` (`ChainBest`). `Clean`: no block of the active chain is
marked. Across restarts this takes `Behind`: the chain of the coins on disk is not
better than the active one between two steps, or is a part of it. `Mark`: some
block `R` that the tip has been is such that every sound block no worse than `R` is
a candidate. The tip itself would not do, since a step that meets an invalid block
falls back to the fork, below the blocks pruned before. `BestAimed`: a step aims
at the best sound candidate. `TipOnly`: when nothing is pending, the tip is the only
sound candidate. `TipIsBest` and `SetsExact` follow from `Mark` and `TipOnly`.

The hypotheses of these theorems are where the code stops keeping the promise:

- An `-ac_cc` chain clears the flags of a block whose header comes again, and
  `reconsiderblock` those of some relatives only. Descendants are then failed
  without a reason, and cleared blocks are no candidates (section 3).
- `invalidateblock` may mark a block that waits for its parent. It leaves the list
  of waiting blocks, and is not linked when the parent comes.
- Calls of `ActivateBestChain` by an RPC or by `AppInit2` skip the comparison of the
  fork with the notarised height, so the refusal comes in the middle of a step.
- `squishy_connectblock` does not check that a notarised block is an ancestor. With a
  notarisation of another branch `last` moves off the blocks it protected, so an
  invalid block may stay below a block that an earlier notarisation named.
- After a step that met an invalid block the tip can lie below the tip on disk.
  The guard at the notarised height may then mark a block of the chain on disk,
  and a flush of the index alone writes the mark. The next start begins on a chain
  with an invalid block. Without blocks that `ConnectBlock` refuses this does not
  happen, which is the second half of `Undisturbed`.

*Induction.* The provers cannot instantiate an induction rule over a formula. They can
instantiate one over a set. `TreeAssumption` therefore has the induction over
descendants as "a set with the genesis block and closed under children is the set of
all blocks", which holds of every tree in which each block descends from the genesis
block, and which TLC evaluates on the instances. From the library's facts on finite
sets `ChainTheorems` derives in the same form that a non-empty finite set of blocks
has a best element (`FiniteInduction`, `BestExists`), which is why
`FindMostWorkChain` finds something to aim at. That takes an order without ties: no
two entries lie at one address (`Layouts`).

*Coins cache.* The assertion of `BatchWrite` is about the moment of a flush.
`Coherent` says of every moment what makes it hold: a clean entry repeats the layer
below, a fresh one has nothing below it, and what the view copied is still cached
in the tip. `NoAnchorYet` is needed for the genesis block, which sets a best block
without touching the anchors. For the refinement each action is matched with a step
of `CoinsView` or a stutter: a fetch changes flags and copies, and no answer; a
flush moves all answers down one layer because what it drops is what the layer
below says. Since `Discipline` holds of `ChainCoins` (model-checked), the theorems
apply to what blocks do.

*Block download.* `QueueExact` speaks of the states between two handlers, while a
handler marks blocks as received and in flight several times. `Books` says the same
of the value `Queue` that these operators map, so that one lemma for each of them
(`Received`, `Requested`) serves every handler. The entry of a block is in the list
of exactly the node that `mapBlocksInFlight` names, so the `State()` of that node
exists and an entry is counted once. No two entries of a list are for one block. A
node said to stall has a list that is not empty, which is `StallerOwes`:
`FindNextBlocksToDownload` names a node that a missing block was asked of, and a
`MarkBlockAsReceived` that takes an entry also calls the stall off.
`nQueuedValidatedHeaders` is only bounded from below, because `FinalizeNode` drops
entries without subtracting them (`QueuedExact` is violated). `CommonShared` takes
`Shares`: everything that is noted of a peer, announced or common, is a block the
peer has on one of its chains, and the common block is complete here. The guess that
`FindNextBlocksToDownload` takes from `chainActive` is complete because the active
chain is (`ChainSound`), and the peer has it once `LastCommonAncestor` has moved it
to the fork, because what a peer has is closed under ancestors. `ChainSound` also
keeps data and failure marks within `mapBlockIndex`, from which follows that a block
the `inv` handler asks for, one that is not in the index, has no data
(`RequestsNew`).

Proofs use SMT (Z3), Zenon and, for the temporal step, LS4.

### Model-checked only

Liveness (`WaitReturns`, `Converges`, `WalletTold`, `RequestsEnd`, `Synced`) is not
in reach of the prover, nor is reasoning about `ENABLED`. What a recursive
definition computes for every input needs induction over data, which the installed
provers cannot instantiate. For this reason `Path` is given by its equation and the
searches are sets, and `ChainCoins` and `MemPool`, whose chains are recursive, are
checked with TLC only: `LayersExact`, `UndoClean`, `AssertionsHold`, `Discipline`,
`PoolConsistent`, `ShieldedValid`, `Minable`, `WalletKnowsBlock`. The violated
configurations show how far the properties may be strengthened.

## 5. What is not modelled

Within the modelled parts:

- *Check queue*: scripts and caches behind a check.
- *Notary state*: ratification, opreturn and price-feed events. The verification of
  a notarisation against the other chain (`IS_SQUISHY_NOTARY`). Staked eras, ccdata,
  the number of signatures, and the simulation on regtest. Reads of `last` and
  `NPOINTS` are single steps, although RPC threads perform them without a lock.
- *Chain state*: pruning and missing data, `SQUISHY_REWIND`, hard-coded checkpoints,
  `CorruptionPossible` and future-block results, block files, `pindexBestInvalid`,
  invalidating the genesis block, system errors in `ConnectTip`. After
  `StartShutdown` the node serves nothing. The order among siblings in
  `mapBlocksUnlinked` is arbitrary. A notarisation names a block together with its
  height; `NotaryState` has the ones that claim another height during the initial
  download, `ChainState` and `MemPool` do not.
- *Coins*: statistics, memory accounting, and when the cache is
  large enough to be flushed (it may be flushed between any two blocks). Coin
  imports, and the tombstones that `UpdateCoins` writes and `DisconnectBlock` takes
  back for them (`main.cpp:2726`, `main.cpp:3199`).
- *Memory pool*: fee estimation, priorities, limits by size, the address and spent
  indexes, coin imports, `SQUISHY_REWIND`.
- *Block download*: see section 2.6. A reliable peer does not reorganise.
  Transaction relay and serving blocks to others.

Whole parts, with the reasons, are the components with status `not_modelled` in
`PROJECT.json`. Scripts, proofs and cryptography are computation on data, and the
verdicts they reach are inputs of the models. Sockets and the user interface are
I/O. The queues of RPC operations and of the HTTP server have the shape of the
check queue and no data that the other parts depend on. The notary tables, the
key-value store and the cross-chain data are read by RPCs or are inputs here. The
unlocked reads of `last` and `NPOINTS` by RPC threads are a data race, whose
outcomes the source does not determine.
