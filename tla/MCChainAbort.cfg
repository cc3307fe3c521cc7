SPECIFICATION Spec
CONSTANTS
    g = g
    a1 = a1
    a2 = a2
    a3 = a3
    a4 = a4
    b2 = b2
    b3 = b3
    b4 = b4
    c3 = c3
    c4 = c4
    d3 = d3
    d4 = d4
    NoHash = NoHash
    Genesis = g
    Blocks = {g, a1, a2, a3}
    Hashes = {g, a1, a2, a3}
    BadContext = {}
    BadConnect = {}
    Ntz <- NtzA
    pprev <- MCpprevOf
    nHeight <- MCnHeight
    nChainWork <- MCnHeight
    Path <- MCPath
    Layouts <- OneLayout
    ASSETCHAINS_CC = FALSE
    MAX_REORG_LENGTH = 2
    MaxRestarts = 1
    MaxInvalidate = 1
    MaxReconsider = 0
INVARIANT NeverAborts
