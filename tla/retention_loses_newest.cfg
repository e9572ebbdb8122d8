SPECIFICATION BakSpec
CONSTANTS
    Sites = {s1, s2}
    NoSite = NoSite
    Runs = {u1}
    SaveNums = 1
    MaxArchives = 2
    MaxUpsets = 0
INVARIANT SiteKeepsOne
CHECK_DEADLOCK FALSE
