SPECIFICATION Spec
CONSTANTS
    h1 = h1
    g1 = g1
    h2 = h2
    NoHash = NoHash
    Hashes <- MCHashes
    nHeightOf <- MCnHeightOf
    Depths = {1}
    MaxHeight = 3
    MaxConnects = 4
    MaxRestarts = 1
INVARIANTS
    LastIsNewest
    CheckpointsRise
    ReplayExact
    EventsFollowChain
    SearchExact
