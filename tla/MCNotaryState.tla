--------------------------- MODULE MCNotaryState ---------------------------
(* NotaryState over three notarisable blocks, two of them rivals.          *)
EXTENDS NotaryState, TLC

CONSTANTS h1, g1, h2

MCHashes == {h1, g1, h2}
MCnHeightOf == h1 :> 1 @@ g1 :> 1 @@ h2 :> 2
=============================================================================
