\* A key for two of two nodes, or twice for one, and two signatures with it.
CONSTANTS
    n1 = n1
    n2 = n2
    k1 = k1
    s1 = s1
    s2 = s2
    Nodes <- MCNodes
    Keygens <- MCKeygens
    Signs <- MCSigns
    MaxParties = 2
    PoolSize = 1
    Workers <- MCWorkers
    MaxTimeouts = 1
    MaxFaults = 1
SPECIFICATION StaggeredSpec
INVARIANTS TypeOK ReportedIsStored PlacesAgree
PROPERTIES TimeoutOnlyIfBusy NodesFinish HoldersGoOn
CHECK_DEADLOCK FALSE
