SPECIFICATION JobsSpec
CONSTANTS
    t1 = t1
    r1 = r1
    r2 = r2
    w1 = w1
    w2 = w2
    a1 = a1
    q1 = q1
    Tasks <- OneTask
    NumFiles = 2
    Requests <- TwoRequests
    Ops <- AllOps
    CanCrash = TRUE
    Workers <- TwoWorkers
    MaxFiles = 2
    MaxLines = 3
    BatchSize = 1
    MaxFaults = 1
    AlertTasks <- OneAlertTask
    AlertRequests <- OneRequest
    NumChannels = 2
    Silence = 2
    PushCount = 2
    DailyLimit = 2
    DayLength = 3
    MaxTime = 4
SYMMETRY JobSymmetry
CONSTRAINT FewEvents
INVARIANTS
    JobsTypeOK
    CompleteMeansNoFailure
    CancelStopsNewFiles
    ReadIsStored
    StoredOnce
    AlertsStayOpen
PROPERTIES
    DeletedForever
    SilenceKept
CHECK_DEADLOCK FALSE
