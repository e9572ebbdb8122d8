SPECIFICATION WafSpec
CONSTANTS
    Workers = {"w1"}
    MaxFiles = 1
    MaxLines = 2
    BatchSize = 1
    MaxFaults = 0
INVARIANTS
    NothingLost
