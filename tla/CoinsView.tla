------------------------------ MODULE CoinsView ------------------------------
(***************************************************************************)
(* What the stack of coin views promises (the CCoinsView interface of      *)
(* src/src/coins.h): three snapshots of the chain state.  `disk' is what   *)
(* the database holds, `tip' what pcoinsTip shows, `view' what the         *)
(* temporary view of the block being processed shows.  Caching is          *)
(* invisible: a commit replaces the tip by the view as a whole, a sync     *)
(* replaces the disk by the tip as a whole, a crash falls back to the disk.*)
(***************************************************************************)
CONSTANTS
    Txids, CCoins, Pruned,     \* coins by transaction; Pruned is "no output left"
    Nullifiers,
    Roots, EmptyRoot,          \* commitment tree roots (anchors)
    Blocks, Null               \* block hashes and the null hash

VARIABLES
    disk, tip, view,           \* snapshots
    open                       \* a temporary view exists

vars == <<disk, tip, view, open>>

Snapshots ==
    [coins   : [Txids -> CCoins],
     spent   : [Nullifiers -> BOOLEAN],
     anchors : [Roots -> BOOLEAN],
     anchor  : Roots,
     block   : Blocks \cup {Null}]

EmptySnapshot ==
    [coins   |-> [t \in Txids |-> Pruned],
     spent   |-> [n \in Nullifiers |-> FALSE],
     anchors |-> [r \in Roots |-> r = EmptyRoot],
     anchor  |-> EmptyRoot,
     block   |-> Null]

TypeOK ==
    /\ disk \in Snapshots
    /\ tip \in Snapshots
    /\ view \in Snapshots
    /\ open \in BOOLEAN
    /\ ~open => view = tip

Init ==
    /\ disk = EmptySnapshot
    /\ tip = EmptySnapshot
    /\ view = EmptySnapshot
    /\ open = FALSE

-----------------------------------------------------------------------------
(* A block starts to be connected, disconnected or tested.                 *)
Begin ==
    /\ ~open
    /\ open' = TRUE
    /\ UNCHANGED <<disk, tip, view>>

(* The genesis block changes nothing but the best block.                   *)
ConnectGenesis ==
    /\ ~open
    /\ tip.block = Null
    /\ \E b \in Blocks : tip' = [tip EXCEPT !.block = b]
    /\ view' = tip'
    /\ UNCHANGED <<disk, open>>

(* Processing the block changes its view, one entry at a time, and nothing *)
(* below it.                                                               *)
WriteCoins ==
    \E t \in Txids, c \in CCoins : view' = [view EXCEPT !.coins[t] = c]

WriteNullifier ==
    \E n \in Nullifiers, b \in BOOLEAN : view' = [view EXCEPT !.spent[n] = b]

(* The view with other anchors.                                            *)
Anchored(readable, best) ==
    [coins |-> view.coins, spent |-> view.spent,
     anchors |-> readable, anchor |-> best, block |-> view.block]

PushAnchor ==
    \E r \in Roots : view' = Anchored([view.anchors EXCEPT ![r] = TRUE], r)

(* The best anchor is withdrawn; another one that is readable takes over.  *)
PopAnchor ==
    \E r \in Roots :
        /\ view.anchors[r]
        /\ r # view.anchor
        /\ view' = Anchored([view.anchors EXCEPT ![view.anchor] = FALSE], r)

WriteBlock == \E b \in Blocks : view' = [view EXCEPT !.block = b]

Write ==
    /\ open
    /\ \/ WriteCoins
       \/ WriteNullifier
       \/ PushAnchor
       \/ PopAnchor
       \/ WriteBlock
    /\ UNCHANGED <<disk, tip, open>>

Commit ==
    /\ open
    /\ tip' = view
    /\ open' = FALSE
    /\ UNCHANGED <<disk, view>>

Abort ==
    /\ open
    /\ view' = tip
    /\ open' = FALSE
    /\ UNCHANGED <<disk, tip>>

Sync ==
    /\ ~open
    /\ disk' = tip
    /\ UNCHANGED <<tip, view, open>>

Crash ==
    /\ tip' = disk
    /\ view' = disk
    /\ open' = FALSE
    /\ UNCHANGED disk

Next == Begin \/ ConnectGenesis \/ Write \/ Commit \/ Abort \/ Sync \/ Crash

Spec == Init /\ [][Next]_vars

=============================================================================
