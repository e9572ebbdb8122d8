SPECIFICATION Spec
CONSTANTS
    c1 = c1
    c2 = c2
    Chats <- TwoChats
    MaxTurns = 2
    MaxCalls = 2
    MaxApiRetries = 1
    Modes <- AnyMode
    CanIdle = TRUE
SYMMETRY ChatSymmetry
INVARIANTS
    TypeOK
    NoUnapprovedTool
    StopHolds
    Answerable
CHECK_DEADLOCK FALSE
