SPECIFICATION MCSpec
CONSTANTS
    o1 = o1
    o2 = o2
    o3 = o3
    Objects = {o1, o2, o3}
    Root = o1
    Unsupported = Unsupported
    Heaps <- AllHeaps
    Inputs <- SomeInputs
    Retries <- SomeRetries
    Answers <- SomeAnswers
    ErrorKinds = {"Connect", "ConnectTimeout", "ReadTimeout", "Send", "Tls", "InvalidHeader"}
    MaxAttempts = 3
    Threads = {"t1", "t2"}
    Keys = {1, 2}
    Realms = {"direct", "proxy"}
    Direct = "direct"
    PoolConnections = 1
    Operations = {"send", "close", "setstate", "nativeClose", "elsewhere", "tamper"}
    MaxOps = 3
    ProofAttempts = 2
    FreeThreaded = FALSE
CHECK_DEADLOCK FALSE
INVARIANTS CommitIsFresh RetriesAreLegal RaisedIsHonest TableIsSound ContentIsWhole LinesAreWhole OwnMethodsRun
PROPERTIES OneTransport ProofIsCurrent LiveEntryKept
