SPECIFICATION FaultSpec
CONSTANTS
  g = g a1 = a1 a2 = a2 b2 = b2 b3 = b3 x = x y = y c1 = c1 c2 = c2 c3 = c3 c4 = c4 d = d
  t = t w = w m = m n = n
  r0 = r0 r1 = r1 r2 = r2 Null = Null
  Genesis = g EmptyRoot = r0 Nullifiers <- MCNullifiers
  Blocks <- MCBlocks Prev <- MCPrev Vtx <- MCVtx Txids <- MCTxids Vin <- MCVin
  Outs <- MCOuts Nf <- MCNf Anchor <- MCAnchor Root <- MCRoot Roots <- MCRoots
  Pruned <- MCPruned CCoins <- MCCCoins
INVARIANT DiskExact
