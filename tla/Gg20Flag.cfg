\* Databases that are never down, and a gateway that waits.
CONSTANTS
    n1 = n1
    n2 = n2
    k1 = k1
    s1 = s1
    s2 = s2
    Nodes <- MCNodes
    Keygens <- MCKeygens
    Signs <- MCSigns
    MaxParties = 2
    PoolSize = 1
    Workers <- MCWorkers
    MaxTimeouts = 0
    MaxFaults = 0
SPECIFICATION StaggeredSpec
INVARIANT FlagTellsDatabase
CHECK_DEADLOCK FALSE
