----------------------------- MODULE BlockTree -----------------------------
(***************************************************************************)
(* The blocks that exist in the network, whether or not the node has heard *)
(* of them: the immutable part of CBlockIndex (chain.h) and the verdicts   *)
(* that validation reaches on each of them.                                *)
(***************************************************************************)
EXTENDS Integers

CONSTANTS
    Blocks, Genesis,
    pprev,        \* the parent of every block but the genesis block
    nHeight,
    nChainWork,   \* work of the chain that ends in the block
    Path,         \* the block and all its ancestors
    BadContext,   \* blocks that ContextualCheckBlock refuses
    BadConnect,   \* blocks that ConnectBlock refuses
    Ntz,          \* the block that a notarisation in this block names
    Layouts       \* the orders in which block index entries can lie in memory

(* Path is given, with the equation that defines it, instead of computed.  *)
(* Every block descends from the genesis block: what holds of that block   *)
(* and passes from parent to child holds of all of them.  No two entries   *)
(* of the block index lie at the same address.                             *)
ASSUME TreeAssumption ==
    /\ Genesis \in Blocks
    /\ pprev \in [Blocks \ {Genesis} -> Blocks]
    /\ nHeight \in [Blocks -> Nat]
    /\ nChainWork \in [Blocks -> Nat]
    /\ Path \in [Blocks -> SUBSET Blocks]
    /\ nHeight[Genesis] = 0 /\ Path[Genesis] = {Genesis}
    /\ \A b \in Blocks \ {Genesis} :
           /\ nHeight[b] = nHeight[pprev[b]] + 1
           /\ nChainWork[b] > nChainWork[pprev[b]]
           /\ Path[b] = Path[pprev[b]] \cup {b}
           /\ b \notin Path[pprev[b]]
    /\ \A b \in Blocks : Genesis \in Path[b] /\ b \in Path[b]
    /\ \A S \in SUBSET Blocks :
           (/\ Genesis \in S
            /\ \A b \in Blocks \ {Genesis} : pprev[b] \in S => b \in S)
           => S = Blocks
    /\ BadContext \subseteq Blocks \ {Genesis}
    /\ BadConnect \subseteq Blocks \ {Genesis}
    /\ Layouts \subseteq [Blocks -> Nat] /\ Layouts # {}
    /\ \A address \in Layouts : \A a, b \in Blocks :
           address[a] = address[b] => a = b

(* CBlockIndexWorkComparator: less work, then received later, then at the  *)
(* higher address.                                                         *)
Worse(nSequenceId, address, a, b) ==
    \/ nChainWork[a] < nChainWork[b]
    \/ /\ nChainWork[a] = nChainWork[b]
       /\ \/ nSequenceId[a] > nSequenceId[b]
          \/ /\ nSequenceId[a] = nSequenceId[b]
             /\ address[a] > address[b]

(* chainActive.FindFork: the last block two chains have in common.         *)
FindFork(a, b) ==
    CHOOSE f \in Path[a] \cap Path[b] :
        \A g \in Path[a] \cap Path[b] : nHeight[g] <= nHeight[f]

=============================================================================
