SPECIFICATION FairSpec
CONSTANTS
    w1 = w1
    w2 = w2
    c1 = c1
    c2 = c2
    c3 = c3
    c4 = c4
    Workers <- MCWorkers
    Master = master
    Checks <- MCChecks
    Good <- MCGood
    nBatchSize = 2
INVARIANTS
    TodoExact
    WaitVerdict
    NoStragglers
PROPERTIES
    WaitReturns
