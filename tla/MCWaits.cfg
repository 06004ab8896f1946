SPECIFICATION MCSpec
CONSTANTS
    Submissions = {s1}
    MaxSerial = 2
    Bodies <- SmallBodies
    Limits = {0, 2, 4}
    Threads = {"t1", "t2"}
    Requests = {"upload", "query"}
    BodyOf <- Uploads
    Answers <- ServerAnswers
    Connections = 1
    CountLimit = 16
    MaxNonce = 2
    MaxHooks = 2
    MaxHops = 1
    MaxCalls = 3
CHECK_DEADLOCK FALSE
INVARIANTS ResultsStayHome UploadIsWhole CountNeverRepeats ResendIsSound
PROPERTIES WaitReturns CallsReturn UploadEnds SendEnds
