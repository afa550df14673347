CONSTANTS
    Services = {s1}
    Listeners = {l1}
    Configs <- GoodConfigs
    None = None
    MaxInFlight = 1
SPECIFICATION Spec
CHECK_DEADLOCK FALSE
INVARIANT GracefulReturnDrained
