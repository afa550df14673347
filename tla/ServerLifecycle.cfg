\* Two services that may have two listeners, one or none; a request whose body
\* may be empty and may end in any way.
CONSTANTS
    Services = {s1, s2}
    Listeners = {l1, l2}
    Configs <- AllConfigs
    None = None
    MaxInFlight = 2
    BodyLengths = {0, 2}
SPECIFICATION ServerSpec
CHECK_DEADLOCK FALSE
INVARIANTS
    NoAcceptAfterDone
PROPERTIES
    ShutdownReturns
    ServedListenersClose
    RequestEnds
