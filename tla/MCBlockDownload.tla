--------------------------- MODULE MCBlockDownload ---------------------------
(* BlockDownload with one reliable peer and one that may do anything.      *)
EXTENDS BlockDownload

CONSTANTS g, a1, a2, b1, b2, steady, other

(* g - a1 - a2      the chain of steady; other has a1                      *)
(*  `- b1 - b2      other's too, with more work: b1 does not connect, b2   *)
(*                  is refused by ContextualCheckBlock                     *)
MCpprev == [b \in Blocks \ {g} |->
    CASE b = a1 -> g [] b = a2 -> a1 [] b = b1 -> g [] b = b2 -> b1]

RECURSIVE PathTo(_)
PathTo(b) == IF b = g THEN {g} ELSE {b} \cup PathTo(MCpprev[b])

MCPath == [b \in Blocks |-> PathTo(b)]
MCnHeight == [b \in Blocks |-> Cardinality(PathTo(b)) - 1]
MCnChainWork == [b \in Blocks |->
    CASE b = g -> 0 [] b = a1 -> 1 [] b \in {a2, b1} -> 2 [] b = b2 -> 3]

MCBest == [p \in NodeIds |-> IF p = steady THEN a2 ELSE b2]
MCHas == [p \in NodeIds |-> IF p = steady THEN PathTo(a2) ELSE {g, a1, b1, b2}]
MCNtz == [b \in Blocks |-> None]
MCLayouts == {[b \in Blocks |->
    CASE b = g -> 0 [] b = a1 -> 1 [] b = a2 -> 2 [] b = b1 -> 3 [] b = b2 -> 4]}

=============================================================================
