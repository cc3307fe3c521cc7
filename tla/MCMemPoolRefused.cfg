SPECIFICATION Spec
CONSTANTS
  g = g p1 = p1 p2 = p2 a3 = a3 a4 = a4 b3 = b3 b4 = b4
  k = k kp = kp ka = ka kb = kb kc = kc kd = kd
  t = t u = u c = c n = n m = m y = y z = z s = s v = v e = e q = q w = w x = x
  nf = nf ng = ng r0 = r0 r1 = r1 Unknown = Unknown NoBlock = NoBlock
  Blocks <- MCBlocks Genesis = g Prev <- MCPrev Vtx <- MCVtx Staked = {b4}
  Root <- MCRoot EmptyRoot = r0 Txs <- MCTxs Vin <- MCVin Outs <- MCOuts
  Nf <- MCNf Anchors <- MCAnchors LockHeight <- MCLock ExpiryHeight <- MCExpiry
  InterestUntil <- MCInterest Standard <- MCStandard TxBranch <- MCTxBranch Branch <- MCBranch
  Maturity = 2 Unlock <- MCUnlock Value <- MCValue ASSETCHAINS_TIMELOCKGTE = 3
  Ntz <- MCNtz Mine = {t, c, y, x}
INVARIANT UpToDate
