CONSTANTS
    p1 = p1
    p2 = p2
    MaxSource = 2
    Paths <- MCPaths
    Rank <- MCRank
    MaxId = 2
    Batch = 1
    MaxFailures = 2
    MaxStops = 1
    Scenarios <- MCRecovery
SPECIFICATION Spec
INVARIANTS TypeOK NoLostWork DrainIsHonest
CHECK_DEADLOCK FALSE
