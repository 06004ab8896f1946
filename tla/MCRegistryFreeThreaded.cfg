SPECIFICATION RegistrySpec
CONSTANTS
    Threads = {t1, t2}
    Keys = {1, 2}
    Realms = {"direct"}
    Direct = "direct"
    PoolConnections = 1
    Operations = {"send"}
    MaxOps = 3
    ProofAttempts = 2
    FreeThreaded = TRUE
CHECK_DEADLOCK FALSE
INVARIANT CandidateIsThere
