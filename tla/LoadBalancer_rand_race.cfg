CONSTANTS
    Callers = {c1, c2}
    Methods = {"random"}
    AddressLists <- PairList
    CounterMod = 16
    RngLen = 2
    MaxPicks = 2
SPECIFICATION Spec
CHECK_DEADLOCK FALSE
INVARIANT ConcurrentAccessSafe
