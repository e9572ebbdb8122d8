SPECIFICATION Spec
CONSTANTS
    x1 = x1
    x2 = x2
    panel_site_list = panel_site_list
    mcp_tool = mcp_tool
    execute_command = execute_command
    a1 = a1
    a2 = a2
    Threads <- OneThread
    Tools <- OneTool
    Args <- TwoArgs
    Results = {"ok"}
    Mcp <- NoTools
    Idempotent <- ReadOnly
    Redirected <- NoTools
    Forbidden <- NoTools
    ExactBlock = 4
    SameHalt = 6
    NoProgBlock = 4
    MaxCount = 7
INVARIANTS
    RepeatsBlocked
CHECK_DEADLOCK FALSE
