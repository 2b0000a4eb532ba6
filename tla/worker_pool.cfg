CONSTANTS
    Calls = {c1, c2, c3, c4}
    Drains = {d1}
    None = None
    MaxWorkers = 2
    MaxQueue = 1
SPECIFICATION FairSpec
INVARIANTS
    TypeOK
    WorkConserving
    Accounted
    NoThreadLeaks
PROPERTIES
    Implements
    DrainEnds
CHECK_DEADLOCK FALSE
