SPECIFICATION PanelSpec
CONSTANTS
    j1 = j1
    j2 = j2
    q1 = q1
    q2 = q2
    s1 = s1
    s2 = s2
    u1 = u1
    u2 = u2
    f1 = f1
    f2 = f2
    k1 = k1
    k2 = k2
    k3 = k3
    JobIds <- TwoJobs
    CronRequests <- TwoRequests
    Sites <- TwoSites
    NoSite = NoSite
    Runs <- TwoRuns
    SaveNums = 1
    MaxArchives = 3
    MaxUpsets = 1
    Files <- TwoFiles
    MaxUpgrades = 2
    StdioCallers <- ThreeChats
    MaxStdioCalls = 3
    x1 = x1
    x2 = x2
    panel_site_list = panel_site_list
    mcp_tool = mcp_tool
    execute_command = execute_command
    a1 = a1
    a2 = a2
    Threads <- TwoThreads
    Tools <- ThreeTools
    Args <- TwoArgs
    Results = {"v1", "v2"}
    Mcp <- External
    Idempotent <- ReadOnly
    Redirected <- Redirects
    Forbidden <- Refused
    ExactBlock = 1
    SameHalt = 2
    NoProgBlock = 1
    MaxCount = 4
SYMMETRY Symmetric
CONSTRAINTS
    FewArchives
    FewTools
INVARIANTS
    PanelTypeOK
    JobHasRow
    PausedWasAsked
    RowsMatchArchives
    SuccessLeavesNoOld
    RollbackRestores
    ChangedIsBackedUp
    SameToolHalts
    McpRepeatsBlocked
    FailuresAreOpen
PROPERTIES
    DropsOldest
    StdioKeepsPromise
CHECK_DEADLOCK FALSE
