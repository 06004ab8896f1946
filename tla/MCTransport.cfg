SPECIFICATION TSpec
CONSTANTS
    Conns = {c1, c2}
    Requests = {r1, r2}
    Keys = {k1, k2}
    MaxIdle = 1
    MaxGeneration = 1
    NoConn = NoConn
    NoKey = NoKey
    TimeoutChoices <- AllTimeouts
SYMMETRY Symmetry
CHECK_DEADLOCK FALSE
INVARIANTS PoolPromises LeasesAreSettled
PROPERTIES NoOverlap LifecycleKept
