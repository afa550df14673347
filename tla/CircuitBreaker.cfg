\* Three goroutines overlap around a circuit that trips after two failures; a
\* timer of its own and a group of two names; three retry configurations.
CONSTANTS
    Parts = {"circuit", "timer", "group", "retry"}
    Callers = {g1, g2, g3}
    MaxFailures = 2
    ResetTimeout = 1
    MaxTime = 5
    SoloTimers = {"s"}
    GroupTimers = {"t1", "t2"}
    Names = {"x", "y"}
    Resetters = {r1}
    MaxArms = 3
    RetryConfigs <- SmallConfigs
    AttemptLimit = 3
SPECIFICATION TimeoutSpec
CHECK_DEADLOCK FALSE
INVARIANTS
    TypeOK
    ClosedIffBelowThreshold
    QuietPeriod
    ActiveMatches
    GroupReaches
    NilMeansDone
    OneLiveAttempt
PROPERTIES
    FailedProbeReopens
    OpenCircuitProbes
    StopSilences
    TakenOutStaysQuiet
    RetryReturns
    NoLeak
