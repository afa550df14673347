------------------------------- MODULE TCPPool -------------------------------
(***************************************************************************)
(* TCPConnectionPool of pkg/pool/pool.go.  p.mu guards the map from        *)
(* addresses to hostPools, pool.mu each hostPool; an operation takes them  *)
(* one after the other and uses the hostPool it looked up after p.mu is    *)
(* free again, so a Close in between leaves it with a hostPool that is no  *)
(* longer in the map.  GetConnection dials while it holds pool.mu.         *)
(* hostPools and connections are objects: model values, used once.         *)
(***************************************************************************)
EXTENDS Integers, Sequences, FiniteSets, Functions

CONSTANTS
    Clients,            \* goroutines that use the pool
    TransportClients,   \* the clients that come through GetClient()
    Addresses,
    MaxConnsPerHost,    \* config.MaxConnsPerHost
    HostPools,          \* bound of the model: the hostPools there can be
    Conns,              \* bound of the model: the connections there can be
    MaxCloses,          \* bound of the model: calls of Close
    Nil

ASSUME PoolAssumption ==
    /\ MaxConnsPerHost \in Nat
    /\ MaxCloses \in Nat
    /\ TransportClients \subseteq Clients
    /\ Nil \notin HostPools \cup Clients \cup Conns \cup Addresses

VARIABLES
    pools,          \* p.pools: address -> hostPool or Nil
    pmu,            \* the client that holds p.mu for writing, or Nil
    used,           \* hostPools allocated so far
    connections,    \* pool.connections, the idle connections
    capacity,       \* cap(pool.connections)
    activeConns,    \* pool.activeConns
    hmu,            \* the client that holds pool.mu over several steps, or Nil
    pc,             \* where each client is
    addr,           \* the address argument of the client's operation
    pool,           \* the hostPool the client looked up
    conn,           \* the connection the client is releasing, or Nil
    held,           \* held[c]: connections the client has got
    todo,           \* the hostPools Close has yet to drain
    dialed,         \* connections that were dialed
    open,           \* connections that are not closed
    peer,           \* peer[k]: the address connection k was dialed to
    closes,         \* history: calls of Close so far
    refused         \* history: the address last refused as exhausted, or Nil

mapVars == <<pools, pmu, used, todo, closes>>
hostVars == <<connections, capacity, activeConns, hmu>>
netVars == <<dialed, open, peer>>
clientVars == <<pc, addr, pool, conn, held>>
vars == <<mapVars, hostVars, netVars, clientVars, refused>>

\* A new object; which one it is makes no difference.
NewHostPool == CHOOSE h \in HostPools : h \notin used
NewConn == CHOOSE k \in Conns : k \notin dialed

-----------------------------------------------------------------------------
\* NewTCPConnectionPool
Init ==
    /\ pools = [a \in Addresses |-> Nil]
    /\ pmu = Nil /\ used = {} /\ todo = {} /\ closes = 0
    /\ connections = [h \in HostPools |-> <<>>]
    /\ capacity = [h \in HostPools |-> 0]
    /\ activeConns = [h \in HostPools |-> 0]
    /\ hmu = [h \in HostPools |-> Nil]
    /\ pc = [c \in Clients |-> "idle"]
    /\ addr = [c \in Clients |-> Nil]
    /\ pool = [c \in Clients |-> Nil]
    /\ conn = [c \in Clients |-> Nil]
    /\ held = [c \in Clients |-> {}]
    /\ dialed = {} /\ open = {} /\ peer = [k \in Conns |-> Nil]
    /\ refused = Nil

\* The client is done with its operation and drops its local variables.
Return(c) ==
    /\ pc' = [pc EXCEPT ![c] = "idle"]
    /\ addr' = [addr EXCEPT ![c] = Nil]
    /\ pool' = [pool EXCEPT ![c] = Nil]
    /\ conn' = [conn EXCEPT ![c] = Nil]

\* GetConnection: the first lookup, under p.mu.RLock.
GetLookup(c, a) ==
    /\ pc[c] = "idle"
    /\ pmu = Nil
    /\ addr' = [addr EXCEPT ![c] = a]
    /\ pool' = [pool EXCEPT ![c] = pools[a]]
    /\ pc' = [pc EXCEPT ![c] = IF pools[a] = Nil THEN "create" ELSE "get"]
    /\ UNCHANGED <<mapVars, hostVars, netVars, conn, held, refused>>

\* Mutant of GetCreate: the map is not read again under the write lock.
GetCreate_NoRecheck(c) ==
    /\ pc[c] = "create"
    /\ pmu = Nil
    /\ pc' = [pc EXCEPT ![c] = "get"]
    /\ used # HostPools
    /\ pools' = [pools EXCEPT ![addr[c]] = NewHostPool]
    /\ used' = used \cup {NewHostPool}
    /\ capacity' = [capacity EXCEPT ![NewHostPool] = MaxConnsPerHost]
    /\ pool' = [pool EXCEPT ![c] = NewHostPool]
    /\ UNCHANGED <<pmu, todo, closes, connections, activeConns, hmu, netVars,
                   addr, conn, held, refused>>

\* GetConnection: under p.mu.Lock, look again and create the hostPool only if
\* it is still missing.
GetCreate(c) ==
    /\ pc[c] = "create"
    /\ pmu = Nil
    /\ pc' = [pc EXCEPT ![c] = "get"]
    /\ \/ /\ pools[addr[c]] # Nil
          /\ pool' = [pool EXCEPT ![c] = pools[addr[c]]]
          /\ UNCHANGED <<pools, used, capacity>>
       \/ /\ pools[addr[c]] = Nil
          /\ used # HostPools
          /\ pools' = [pools EXCEPT ![addr[c]] = NewHostPool]
          /\ used' = used \cup {NewHostPool}
          /\ capacity' = [capacity EXCEPT ![NewHostPool] = MaxConnsPerHost]
          /\ pool' = [pool EXCEPT ![c] = NewHostPool]
    /\ UNCHANGED <<pmu, todo, closes, connections, activeConns, hmu, netVars,
                   addr, conn, held, refused>>

\* Mutant of GetIdle: the connection handed out stays in the slice.
GetIdle_KeepsConn(c) ==
    LET h == pool[c]
        n == Len(connections[pool[c]]) IN
    /\ pc[c] = "get"
    /\ hmu[h] = Nil
    /\ n > 0
    /\ held' = [held EXCEPT ![c] = @ \cup {connections[h][n]}]
    /\ activeConns' = [activeConns EXCEPT ![h] = @ + 1]
    /\ Return(c)
    /\ UNCHANGED <<mapVars, connections, capacity, hmu, netVars, refused>>

\* GetConnection: take the idle connection that was released last.
GetIdle(c) ==
    LET h == pool[c]
        n == Len(connections[pool[c]]) IN
    /\ pc[c] = "get"
    /\ hmu[h] = Nil
    /\ n > 0
    /\ held' = [held EXCEPT ![c] = @ \cup {connections[h][n]}]
    /\ connections' = [connections EXCEPT ![h] = SubSeq(@, 1, n - 1)]
    /\ activeConns' = [activeConns EXCEPT ![h] = @ + 1]
    /\ Return(c)
    /\ UNCHANGED <<mapVars, capacity, hmu, netVars, refused>>

\* GetConnection: "connection pool exhausted".
GetExhausted(c) ==
    /\ pc[c] = "get"
    /\ hmu[pool[c]] = Nil
    /\ connections[pool[c]] = <<>>
    /\ activeConns[pool[c]] >= MaxConnsPerHost
    /\ refused' = addr[c]
    /\ Return(c)
    /\ UNCHANGED <<mapVars, hostVars, netVars, held>>

\* Mutant of GetDial: pool.mu is not held over the dial.
GetDial_Unlocked(c) ==
    /\ pc[c] = "get"
    /\ hmu[pool[c]] = Nil
    /\ connections[pool[c]] = <<>>
    /\ activeConns[pool[c]] < MaxConnsPerHost
    /\ pc' = [pc EXCEPT ![c] = "dial"]
    /\ UNCHANGED <<mapVars, hostVars, netVars, addr, pool, conn, held, refused>>

\* GetConnection: begin to dial, with pool.mu held.
GetDial(c) ==
    /\ pc[c] = "get"
    /\ hmu[pool[c]] = Nil
    /\ connections[pool[c]] = <<>>
    /\ activeConns[pool[c]] < MaxConnsPerHost
    /\ hmu' = [hmu EXCEPT ![pool[c]] = c]
    /\ pc' = [pc EXCEPT ![c] = "dial"]
    /\ UNCHANGED <<mapVars, connections, capacity, activeConns, netVars,
                   addr, pool, conn, held, refused>>

\* The dial succeeds with a new connection.
DialOK(c) ==
    /\ pc[c] = "dial"
    /\ dialed # Conns
    /\ dialed' = dialed \cup {NewConn}
    /\ open' = open \cup {NewConn}
    /\ peer' = [peer EXCEPT ![NewConn] = addr[c]]
    /\ held' = [held EXCEPT ![c] = @ \cup {NewConn}]
    /\ activeConns' = [activeConns EXCEPT ![pool[c]] = @ + 1]
    /\ hmu' = [hmu EXCEPT ![pool[c]] = Nil]
    /\ Return(c)
    /\ UNCHANGED <<mapVars, connections, capacity, refused>>

\* Mutant of DialFailed: the error path returns with pool.mu held.
DialFailed_Locked(c) ==
    /\ pc[c] = "dial"
    /\ Return(c)
    /\ UNCHANGED <<mapVars, hostVars, netVars, held, refused>>

\* Mutant of DialFailed: the error is not looked at, and the caller gets nil.
DialFailed_Ignored(c) ==
    /\ pc[c] = "dial"
    /\ held' = [held EXCEPT ![c] = @ \cup {Nil}]
    /\ activeConns' = [activeConns EXCEPT ![pool[c]] = @ + 1]
    /\ hmu' = [hmu EXCEPT ![pool[c]] = Nil]
    /\ Return(c)
    /\ UNCHANGED <<mapVars, connections, capacity, netVars, refused>>

\* The dial fails or times out.
DialFailed(c) ==
    /\ pc[c] = "dial"
    /\ hmu' = [hmu EXCEPT ![pool[c]] = Nil]
    /\ Return(c)
    /\ UNCHANGED <<mapVars, connections, capacity, activeConns, netVars, held, refused>>

-----------------------------------------------------------------------------
\* ReleaseConnection: the lookup.  The caller has given the connection up.
\* Without a hostPool it is closed at once.
ReleaseLookup(c, k) ==
    /\ pc[c] = "idle"
    /\ c \notin TransportClients
    /\ k \in held[c]
    /\ pmu = Nil
    /\ held' = [held EXCEPT ![c] = @ \ {k}]
    /\ \/ /\ pools[peer[k]] = Nil
          /\ open' = open \ {k}
          /\ UNCHANGED <<pc, addr, pool, conn>>
       \/ /\ pools[peer[k]] # Nil
          /\ pool' = [pool EXCEPT ![c] = pools[peer[k]]]
          /\ addr' = [addr EXCEPT ![c] = peer[k]]
          /\ conn' = [conn EXCEPT ![c] = k]
          /\ pc' = [pc EXCEPT ![c] = "release"]
          /\ UNCHANGED open
    /\ UNCHANGED <<mapVars, hostVars, dialed, peer, refused>>

\* ReleaseConnection: under pool.mu, keep the connection if the slice has
\* room, close it otherwise.
ReleaseHost(c) ==
    LET h == pool[c] IN
    /\ pc[c] = "release"
    /\ hmu[h] = Nil
    /\ activeConns' = [activeConns EXCEPT ![h] = @ - 1]
    /\ \/ /\ Len(connections[h]) < capacity[h]
          /\ connections' = [connections EXCEPT ![h] = Append(@, conn[c])]
          /\ UNCHANGED open
       \/ /\ Len(connections[h]) >= capacity[h]
          /\ open' = open \ {conn[c]}
          /\ UNCHANGED connections
    /\ Return(c)
    /\ UNCHANGED <<mapVars, capacity, hmu, dialed, peer, held, refused>>

\* net/http's Transport, under the client of GetClient, closes a connection
\* it got from GetConnection itself; it knows nothing of ReleaseConnection.
TransportClose(c, k) ==
    /\ c \in TransportClients
    /\ k \in held[c]
    /\ held' = [held EXCEPT ![c] = @ \ {k}]
    /\ open' = open \ {k}
    /\ UNCHANGED <<mapVars, hostVars, dialed, peer, pc, addr, pool, conn, refused>>

-----------------------------------------------------------------------------
\* Close: p.mu.Lock
CloseBegin(c) ==
    /\ pc[c] = "idle"
    /\ closes < MaxCloses
    /\ pmu = Nil
    /\ pmu' = c
    /\ todo' = {pools[a] : a \in Addresses} \ {Nil}
    /\ closes' = closes + 1
    /\ pc' = [pc EXCEPT ![c] = "close"]
    /\ UNCHANGED <<pools, used, hostVars, netVars, addr, pool, conn, held, refused>>

\* Mutant of CloseHost: the slice is kept after its connections are closed.
CloseHost_KeepsSlice(c, h) ==
    /\ pc[c] = "close"
    /\ h \in todo
    /\ hmu[h] = Nil
    /\ open' = open \ Range(connections[h])
    /\ todo' = todo \ {h}
    /\ UNCHANGED <<pools, pmu, used, closes, hostVars, dialed, peer, clientVars, refused>>

\* One iteration of Close's loop, in the map's random order: a nil slice has
\* capacity 0.
CloseHost(c, h) ==
    /\ pc[c] = "close"
    /\ h \in todo
    /\ hmu[h] = Nil
    /\ open' = open \ Range(connections[h])
    /\ connections' = [connections EXCEPT ![h] = <<>>]
    /\ capacity' = [capacity EXCEPT ![h] = 0]
    /\ todo' = todo \ {h}
    /\ UNCHANGED <<pools, pmu, used, closes, activeConns, hmu, dialed, peer,
                   clientVars, refused>>

\* Close: a new map, and p.mu.Unlock
CloseEnd(c) ==
    /\ pc[c] = "close"
    /\ todo = {}
    /\ pools' = [a \in Addresses |-> Nil]
    /\ pmu' = Nil
    /\ Return(c)
    /\ UNCHANGED <<used, todo, closes, hostVars, netVars, held, refused>>

-----------------------------------------------------------------------------
\* The steps inside an operation that has begun.
Step(c) ==
    \/ GetCreate(c) \/ GetIdle(c) \/ GetExhausted(c) \/ GetDial(c)
    \/ DialOK(c) \/ DialFailed(c)
    \/ ReleaseHost(c)
    \/ \E h \in HostPools : CloseHost(c, h)
    \/ CloseEnd(c)

Next ==
    \E c \in Clients :
        \/ \E a \in Addresses : GetLookup(c, a)
        \/ \E k \in Conns : ReleaseLookup(c, k) \/ TransportClose(c, k)
        \/ CloseBegin(c)
        \/ Step(c)

Spec == Init /\ [][Next]_vars

\* A dial ends by ConnectTimeout, every other step by the scheduler, and a
\* mutex that is free again and again is got in the end: Go's mutexes hand
\* over to a waiter that has starved for a millisecond.
Fairness == \A c \in Clients : SF_vars(Step(c))

FairSpec == Spec /\ Fairness

-----------------------------------------------------------------------------
\* Types; the connections the pool and its clients have are dialed ones.
TypeOK ==
    /\ pools \in [Addresses -> HostPools \cup {Nil}]
    /\ pmu \in Clients \cup {Nil}
    /\ used \in SUBSET HostPools /\ todo \in SUBSET HostPools
    /\ closes \in Nat
    /\ connections \in [HostPools -> Seq(dialed)]
    /\ capacity \in [HostPools -> Nat]
    /\ activeConns \in [HostPools -> Int]
    /\ hmu \in [HostPools -> Clients \cup {Nil}]
    /\ pc \in [Clients -> {"idle", "create", "get", "dial", "release", "close"}]
    /\ addr \in [Clients -> Addresses \cup {Nil}]
    /\ pool \in [Clients -> HostPools \cup {Nil}]
    /\ conn \in [Clients -> dialed \cup {Nil}]
    /\ held \in [Clients -> SUBSET dialed]
    /\ dialed \in SUBSET Conns /\ open \in SUBSET dialed
    /\ peer \in [Conns -> Addresses \cup {Nil}]
    /\ \A k \in dialed : peer[k] # Nil
    /\ refused \in Addresses \cup {Nil}

\* A client that is past its lookup has a hostPool that was allocated, and one
\* that dials holds that hostPool's lock.
Locks ==
    \A c \in Clients :
        /\ pc[c] \in {"create", "get", "dial"} => addr[c] \in Addresses
        /\ pc[c] \in {"get", "dial", "release"} => pool[c] \in HostPools
        /\ pc[c] = "dial" => hmu[pool[c]] = c
        /\ pc[c] = "release" => conn[c] \in dialed

\* No hostPool ever counts more than maxConns connections, idle and active
\* together, with any number of clients, dials that fail and Closes.
CapacityBound ==
    \A h \in HostPools : Len(connections[h]) + activeConns[h] <= MaxConnsPerHost

\* A dial was begun on an empty hostPool below its limit, and still is on one
\* when it ends, because pool.mu is held throughout.
DialRoom ==
    \A c \in Clients : pc[c] = "dial" =>
        /\ connections[pool[c]] = <<>>
        /\ activeConns[pool[c]] < MaxConnsPerHost

\* The places a connection can be in.
Idle(h) == Range(connections[h])
Owned(c) == held[c] \cup ({conn[c]} \ {Nil})

\* A connection is in one place at a time: never idle twice, never idle and
\* in a client's hands, never in two clients' hands.  Two requests never share
\* a connection, whatever Close and late releases do to the hostPools.
NoSharing ==
    /\ \A h \in HostPools : \A i, j \in 1 .. Len(connections[h]) :
          connections[h][i] = connections[h][j] => i = j
    /\ \A h1, h2 \in HostPools : h1 # h2 => Idle(h1) \cap Idle(h2) = {}
    /\ \A h \in HostPools, c \in Clients : Idle(h) \cap Owned(c) = {}
    /\ \A c1, c2 \in Clients : c1 # c2 => Owned(c1) \cap Owned(c2) = {}

\* What the pool keeps idle it has not closed, so GetConnection never returns
\* a connection that was closed by Close or by ReleaseConnection, and some
\* GetConnection can find it: a hostPool dropped by Close keeps nothing, and a
\* connection released into it late is closed, because the capacity of a nil
\* slice is 0.
IdleIsOpen ==
    \A h \in HostPools :
        /\ Idle(h) \subseteq open
        /\ h \in used /\ Idle(h) # {} => \E a \in Addresses : pools[a] = h

\* MaxConnsPerHost: until Close is called, no more than that many connections
\* to a host are open, whatever the clients and the dials do.
HostLimit ==
    closes = 0 =>
        \A a \in Addresses :
            Cardinality({k \in open : peer[k] = a}) <= MaxConnsPerHost

\* Every operation that began returns: p.mu and pool.mu never end in a
\* deadlock, though Close waits for pool.mu while it holds p.mu.
OperationsReturn == \A c \in Clients : pc[c] # "idle" ~> pc[c] = "idle"

\* pool.go:181, "connection pool exhausted": while a host is refused for that
\* reason, some client has a connection to it.
ExhaustedMeansInUse ==
    [][\A a \in Addresses : refused' = a /\ refused # a /\ MaxConnsPerHost > 0 =>
          \E c \in Clients, k \in Conns : k \in Owned(c) /\ peer[k] = a]_vars

=============================================================================
