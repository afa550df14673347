CONSTANTS
    Kinds = {"token_bucket", "sliding_window", "fixed_window", "multi"}
    Callers = {c1, c2}
    capacity = 3
    refillRate = 1
    limit = 2
    window = 3
    TicksPerSecond = 2
    MaxN = 3
    MaxTime = 7
    MultiN = 2
    MultiTime = 4
SPECIFICATION MultiSpec
CHECK_DEADLOCK FALSE
INVARIANTS
    RateBound
    FillsAtHalfRate
    WindowBound
    SlidingExact
    MultiBound
