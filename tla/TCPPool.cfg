CONSTANTS
    Clients = {c1, c2, c3}
    TransportClients = {c3}
    Addresses = {a}
    MaxConnsPerHost = 2
    HostPools = {1, 2}
    Conns = {11, 12, 13}
    MaxCloses = 1
    Nil = Nil
SPECIFICATION FairSpec
INVARIANTS
    TypeOK
    CapacityBound
    NoSharing
    IdleIsOpen
    HostLimit
PROPERTY OperationsReturn
