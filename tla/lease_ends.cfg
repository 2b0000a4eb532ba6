CONSTANTS
    k1 = k1
    k2 = k2
    k3 = k3
    Cycles = {a, b}
    Keys = {k1, k2, k3}
    Sessions <- MCSessions
    Priority <- MCPriority
    MaxTasks = 2
    MaxCrashes = 1
SPECIFICATION FairSpec
PROPERTIES
    LeaseEnds
