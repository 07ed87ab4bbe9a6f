CONSTANTS
    p1 = p1
    p2 = p2
    MaxSource = 1
    Paths <- MCPaths
    Rank <- MCRank
    MaxId = 2
    Batch = 2
    MaxFailures = 2
    MaxStops = 1
    Scenarios <- MCLive
SPECIFICATION FairSpec
PROPERTIES Delivery DrainEnds
CHECK_DEADLOCK FALSE
