SPECIFICATION ServicesSpec
CONSTANTS
    w1 = w1
    w2 = w2
    r1 = r1
    e1 = e1
    e2 = e2
    NumRows = 2
    Workers <- TwoWorkers
    Callers <- OneCaller
    MaxQueue = 1
    CanDie = TRUE
    Edits <- TwoEdits
    MaxSaves = 3
    MaxMishaps = 1
SYMMETRY ServiceSymmetry
CONSTRAINT FewSaves
INVARIANTS
    ServicesTypeOK
    DoneHasArchive
    RunningIsOwned
    WaitingIsOwned
    ConfFollowsRows
CHECK_DEADLOCK FALSE
