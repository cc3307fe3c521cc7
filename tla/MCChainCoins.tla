---------------------------- MODULE MCChainCoins ----------------------------
(* Two branches over block a1.  Transaction t is in both, at heights 2 and *)
(* 3; in b3 it is created and spent in one block, where w also takes the   *)
(* last output of c1; in x over a2 w spends t across blocks, and the root  *)
(* stays; block y spends an output again and is invalid.                   *)
EXTENDS ChainCoins

CONSTANTS g, a1, a2, b2, b3, x, y, c1, c2, c3, c4, d, t, w, m, n, r0, r1, r2

MCBlocks == {g, a1, a2, b2, b3, x, y}
MCPrev == (a1 :> g) @@ (a2 :> a1) @@ (b2 :> a1) @@ (b3 :> b2) @@ (x :> a2) @@ (y :> a2)
MCVtx == (g :> <<>>) @@ (a1 :> <<c1>>) @@ (a2 :> <<c2, t>>) @@ (b2 :> <<c3>>)
            @@ (b3 :> <<c4, t, w>>) @@ (x :> <<c4, w>>) @@ (y :> <<c4, d>>)
MCTxids == {c1, c2, c3, c4, d, t, w}
MCVin == (t :> <<<<c1, 0>>>>) @@ (w :> <<<<c1, 1>>, <<t, 0>>>>) @@ (d :> <<<<c1, 0>>>>)
            @@ [c \in {c1, c2, c3, c4} |-> <<>>]
MCOuts == [c \in MCTxids |-> IF c = c1 THEN {0, 1} ELSE {0}]
MCNf == [c \in MCTxids |-> CASE c = t -> <<n>> [] c = w -> <<m>> [] OTHER -> <<>>]
MCAnchor == [c \in MCTxids |-> IF c = t THEN <<r0>> ELSE <<>>]
MCRoot == (g :> r0) @@ (a1 :> r0) @@ (a2 :> r1) @@ (b2 :> r0) @@ (b3 :> r2) @@ (x :> r1)
            @@ (y :> r2)
MCRoots == {r0, r1, r2}
MCNullifiers == {m, n}
MCPruned == [outs |-> {}, nHeight |-> 0]
MCCCoins == [outs : (SUBSET {0, 1}) \ {{}}, nHeight : 1..3] \cup {MCPruned}

=============================================================================
