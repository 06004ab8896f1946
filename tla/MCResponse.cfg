SPECIFICATION MCSpec
CONSTANTS
    MaxBody = 4
    Amounts <- ReadSizes
    Conns = {c1, c2}
    Requests = {r1, r2}
    Keys = {k1}
    MaxIdle = 1
    MaxGeneration = 0
    NoConn = NoConn
    NoKey = NoKey
    TimeoutChoices <- LiveTimeouts
CHECK_DEADLOCK FALSE
INVARIANTS AdapterPromises BytesInOrder EndIsEarned PermitFollowsLease DecodedHonestly
PROPERTIES StaleNeverCarries DeadlinesHold EveryoneGetsAPermit DecodingEnds
