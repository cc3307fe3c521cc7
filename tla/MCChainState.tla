---------------------------- MODULE MCChainState ----------------------------
(* ChainState over small block trees.  In all of them the work of a chain  *)
(* is its length, so rivals of the same height tie.                        *)
EXTENDS ChainState, TLC

CONSTANTS g, a1, a2, a3, a4, b2, b3, b4, c3, c4, d3, d4

(* g - a1 - a2 - a3 - a4                                                   *)
(*       |    `- c3 - c4                                                   *)
(*       `- b2 - b3 - b4                                                   *)
(*            `- d3 - d4                                                   *)
MCpprev == a1 :> g @@ a2 :> a1 @@ a3 :> a2 @@ a4 :> a3
           @@ b2 :> a1 @@ b3 :> b2 @@ b4 :> b3 @@ c3 :> a2 @@ c4 :> c3
           @@ d3 :> b2 @@ d4 :> d3

PrefixOf(S) == [b \in S \ {g} |-> MCpprev[b]]

RECURSIVE PathTo(_)
PathTo(b) == IF b = g THEN {g} ELSE {b} \cup PathTo(MCpprev[b])

Height(b) == Cardinality(PathTo(b)) - 1

MCpprevOf == PrefixOf(Blocks)
MCnHeight == [b \in Blocks |-> Height(b)]
MCPath == [b \in Blocks |-> PathTo(b)]

(* Two memory layouts that order any two blocks differently.               *)
Rank == g :> 0 @@ a1 :> 1 @@ a2 :> 2 @@ a3 :> 3 @@ a4 :> 4
        @@ b2 :> 5 @@ b3 :> 6 @@ b4 :> 7 @@ c3 :> 8 @@ c4 :> 9 @@ d3 :> 10 @@ d4 :> 11
MCLayouts == {[b \in Blocks |-> Rank[b]], [b \in Blocks |-> 11 - Rank[b]]}
OneLayout == {[b \in Blocks |-> Rank[b]]}

NoNtz == [b \in Blocks |-> NoHash]

(* a3 carries a notarisation of a2.                                        *)
NtzA == [b \in Blocks |-> IF b = a3 THEN a2 ELSE NoHash]

(* ... and so does b3, on a branch without a2: the notaries' transaction   *)
(* is valid on every branch.                                               *)
NtzAB == [b \in Blocks |-> IF b \in {a3, b3} THEN a2 ELSE NoHash]

(* a2 notarises a1, and b3 a block of the other branch.                    *)
NtzCross == [b \in Blocks |-> IF b = a2 THEN a1 ELSE IF b = b3 THEN a2 ELSE NoHash]

=============================================================================
