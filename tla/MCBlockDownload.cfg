SPECIFICATION FairSpec
CONSTANTS
    g = g
    a1 = a1
    a2 = a2
    b1 = b1
    b2 = b2
    steady = steady
    other = other
    None = None
    Genesis = g
    Blocks = {g, a1, a2, b1, b2}
    BadContext = {b2}
    BadConnect = {b1}
    Ntz <- MCNtz
    pprev <- MCpprev
    nHeight <- MCnHeight
    nChainWork <- MCnChainWork
    Path <- MCPath
    Layouts <- MCLayouts
    NodeIds = {steady, other}
    Best <- MCBest
    Has <- MCHas
    Outbound = {steady, other}
    Reliable = {steady}
    TodayHeight = 2
    NearHeight = 1
    MAX_BLOCKS_IN_TRANSIT_PER_PEER = 2
    BLOCK_DOWNLOAD_WINDOW = 1
    BanScore = 1
INVARIANTS
    QueueExact
    StallerOwes
    CommonShared
PROPERTIES
    RequestsNew
    RequestsEnd
    Synced
CHECK_DEADLOCK FALSE
