CONSTANTS
    Callers = {g1}
    Keys = {"", "b"}
    Sizes = {2}
    TTLs = {0}
    maxSize = 1
    maxItems = 0
    MaxTime = 1
    MaxSets = 1
SPECIFICATION FairSpec
CHECK_DEADLOCK FALSE
PROPERTY OperationsReturn
