SPECIFICATION CertSpec
CONSTANTS
    j1 = j1
    o1 = o1
    s1 = s1
    NoOrder = NoOrder
    Jobs <- OneJob
    Orders <- OneOrder
    Sites <- OneSite
    SiteOf <- SameSite
    MaxAsks = 2
INVARIANTS
    DueIsSeen
CHECK_DEADLOCK FALSE
