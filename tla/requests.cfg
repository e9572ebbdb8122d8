SPECIFICATION RequestsSpec
CONSTANTS
    r1 = r1
    nginx = nginx
    redis = redis
    j1 = j1
    j2 = j2
    o1 = o1
    o2 = o2
    s1 = s1
    NumTasks = 2
    Apps <- TwoApps
    Requests <- OneRequest
    Ops <- AllOps
    CanCrash = TRUE
    NoOrder = NoOrder
    Jobs <- TwoJobs
    Orders <- TwoOrders
    Sites <- OneSite
    SiteOf <- SameSite
    MaxAsks = 3
CONSTRAINT Bounds
INVARIANTS
    RequestsTypeOK
    QueueNotAbandoned
    JobsSettle
PROPERTIES
    OldestFirst
CHECK_DEADLOCK FALSE
