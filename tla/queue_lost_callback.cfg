SPECIFICATION Spec
CONSTANTS
    r1 = r1
    nginx = nginx
    redis = redis
    NumTasks = 1
    Apps <- OneApp
    Requests <- OneRequest
    Ops <- InstallOnly
    CanCrash = FALSE
INVARIANTS
    RunningIsBacked
CHECK_DEADLOCK FALSE
