CONSTANTS
    Clients = {c1}
    TransportClients = {c1}
    Addresses = {a}
    MaxConnsPerHost = 1
    HostPools = {1}
    Conns = {11}
    MaxCloses = 0
    Nil = Nil
SPECIFICATION Spec
PROPERTY ExhaustedMeansInUse
