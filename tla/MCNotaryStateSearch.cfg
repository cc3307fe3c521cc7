SPECIFICATION Spec
CONSTANTS
    h1 = h1
    g1 = g1
    h2 = h2
    NoHash = NoHash
    Hashes <- MCHashes
    nHeightOf <- MCnHeightOf
    Depths = {0}
    MaxHeight = 4
    MaxConnects = 6
    MaxRestarts = 0
INVARIANTS
    HighestBelow
