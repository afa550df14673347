\* One Set may have to evict two entries; either limit can be the one exceeded.
CONSTANTS
    Callers = {g1, g2}
    Keys = {"", "a", "b"}
    Sizes = {1, 4}
    TTLs = {1}
    maxSize = 3
    maxItems = 1
    MaxTime = 3
    MaxSets = 3
    TierUsers = {u1, u2}
    TierKeys = {"a"}
    TierTTLs = {0, 1}
    Hour = 3
    MaxWrites = 3
    MaxNow = 4
SPECIFICATION CacheSpec
CHECK_DEADLOCK FALSE
INVARIANTS
    Accounting
    TierCoherent
PROPERTIES
    OperationsReturnOrEmptyKey
    ImplementsLRU
