SPECIFICATION LiveSpec
CONSTANTS
    t1 = t1
    r1 = r1
    r2 = r2
    c1 = c1
    c2 = c2
    k1 = k1
    k2 = k2
    Tasks <- OneTask
    NumFiles = 2
    Requests <- TwoRequests
    Ops <- BatchOps
    CanCrash = FALSE
    SseCallers <- TwoCallers
    MaxSseCalls = 3
    w1 = w1
    Workers <- OneWorker
    MaxFiles = 2
    MaxLines = 1
    BatchSize = 1
    MaxFaults = 1
INVARIANTS
    CompleteMeansAllHandled
    TransferringIsOwned
PROPERTIES
    RunningEnds
    ChatsEnd
    SseKeepsPromise
    SseCallEnds
    FilesArrive
CHECK_DEADLOCK FALSE
