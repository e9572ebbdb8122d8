SPECIFICATION UpgSpec
CONSTANTS
    Files = {f1, f2}
    MaxUpgrades = 1
INVARIANT SuccessIsComplete
CHECK_DEADLOCK FALSE
