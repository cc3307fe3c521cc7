----------------------------- MODULE MCMemPool -----------------------------
(* Blocks p1 and p2 with coinbases k and kp, and two branches over them,   *)
(* a3 a4 and b3 b4.  Coinbases mature two blocks later, kp is time-locked  *)
(* by its first output, k by its total; a4 may notarise a3; the epoch      *)
(* changes at height 3.                                                    *)
(*   t (in a3) and u (in b3) spend one outpoint; c is a child of t, final  *)
(*   from height 5 on; n (in a4) is not standard, m its child;                *)
(*   y (in b4) and z share a nullifier, z refers to the root of a3;        *)
(*   s spends kp, v the coinbase of a3; e expires at 3, q violates the     *)
(*   interest rule above height 2; w is of the old epoch; x is a stake.    *)
EXTENDS MemPool

CONSTANTS g, p1, p2, a3, a4, b3, b4, k, kp, ka, kb, kc, kd,
          t, u, c, n, m, y, z, s, v, e, q, w, x, nf, ng, r0, r1

MCBlocks == {g, p1, p2, a3, a4, b3, b4}
MCPrev == (p1 :> g) @@ (p2 :> p1) @@ (a3 :> p2) @@ (a4 :> a3) @@ (b3 :> p2) @@ (b4 :> b3)
MCVtx == (g :> <<>>) @@ (p1 :> <<k>>) @@ (p2 :> <<kp>>) @@ (a3 :> <<ka, t>>)
            @@ (a4 :> <<kb, n>>) @@ (b3 :> <<kc, u>>) @@ (b4 :> <<kd, y, x>>)
MCRoot == [b \in MCBlocks |-> IF b \in {a3, a4} THEN r1 ELSE r0]
MCTxs == {k, kp, ka, kb, kc, kd, t, u, c, n, m, y, z, s, v, e, q, w, x}
MCVin == [i \in MCTxs |-> CASE i \in {t, u} -> {<<k, 0>>}
                            [] i \in {e, q} -> {<<k, 1>>}
                            [] i = c -> {<<t, 0>>}
                            [] i = n -> {<<t, 1>>}
                            [] i = m -> {<<n, 0>>}
                            [] i = s -> {<<kp, 0>>}
                            [] i = x -> {<<kp, 1>>}
                            [] i = v -> {<<ka, 0>>}
                            [] OTHER -> {}]
MCOuts == [i \in MCTxs |-> IF i \in {z, y, w} THEN {} ELSE {0, 1}]
MCNf == [i \in MCTxs |-> CASE i \in {z, y} -> {nf} [] i = w -> {ng} [] OTHER -> {}]
MCAnchors == [i \in MCTxs |-> CASE i = z -> {r1} [] i \in {y, w} -> {r0} [] OTHER -> {}]
MCLock == [i \in MCTxs |-> IF i = c THEN 4 ELSE 0]
MCExpiry == [i \in MCTxs |-> IF i = e THEN 3 ELSE 0]
MCInterest == [i \in MCTxs |-> IF i = q THEN 2 ELSE 9]
MCStandard == MCTxs \ {n, x}
MCTxBranch == [i \in MCTxs |-> IF i = w THEN 0 ELSE 1]
MCBranch(h) == IF h >= 3 THEN 1 ELSE 0
MCUnlock == [i \in MCTxs |-> IF i = kp THEN 4 ELSE 3]
MCValue == [o \in MCTxs \X {0, 1} |-> IF o = <<kp, 0>> THEN 3 ELSE IF o[1] = k THEN 2 ELSE 1]
MCNtz == [b \in MCBlocks |-> IF b = a4 THEN {a3} ELSE {}]

=============================================================================
