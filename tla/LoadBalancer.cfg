\* All three balancers, over lists of three and of two backends; and the rings
\* of both ketama balancers with three hash functions.
CONSTANTS
    Callers = {c1, c2, c3}
    Methods = {"round_robin", "random", "least_conn"}
    AddressLists <- DistinctLists
    CounterMod = 16
    RngLen = 2
    MaxPicks = 4
    RingBackends = {"a", "b", "c"}
    WeightedNames = {"a", "b"}
    Updaters = {u1}
    BackendLists <- SmallLists
    Weights = {0, 2}
    replicas = 2
    HashMod = 12
    HashFunctions <- SmallHashes
    MaxPoints = 8
SPECIFICATION BalancersSpec
CHECK_DEADLOCK FALSE
INVARIANTS
    RotationEven
    LeastConnEven
    ClockwiseOrder
    UpdateServes
    WeightedExact
PROPERTIES
    DownNotSelected
    MinimalDisruption
SYMMETRY CallerSymmetry
