SPECIFICATION Spec
CONSTANTS
    h1 = h1
    g1 = g1
    h2 = h2
    NoHash = NoHash
    Hashes <- MCHashes
    nHeightOf <- MCnHeightOf
    Depths = {0, 1}
    MaxHeight = 3
    MaxConnects = 3
    MaxRestarts = 0
INVARIANTS
    PrevMoMHasMoM
