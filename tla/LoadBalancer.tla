---------------------------- MODULE LoadBalancer ----------------------------
(***************************************************************************)
(* The three balancers of pkg/loadbalancing/balancer.go and the requests   *)
(* of pkg/proxy/proxy.go that use them.  The balancers have the same list  *)
(* of backends and the same health operations and differ in SelectBackend. *)
(* A SelectBackend holds the read lock of r.mu from its first step to its  *)
(* last, so selections overlap each other while UpdateBackends,            *)
(* MarkHealthy and MarkUnhealthy exclude them.                             *)
(*                                                                         *)
(*   round_robin  one step: only the atomic counter is shared by readers.  *)
(*   least_conn   one step per backend scanned, then the increment.        *)
(*   random       the steps of math/rand's generator, which the balancers  *)
(*                share without a lock of its own.                         *)
(***************************************************************************)
EXTENDS Integers, Sequences, FiniteSets, Ordering

CONSTANTS
    Callers,         \* goroutines of handleRequest
    Methods,         \* the values of config.LoadBalancingMethod to look at
    AddressLists,    \* the lists given to the constructor and UpdateBackends
    CounterMod,      \* 2^64, the modulus of the uint64 counter, made small
    RngLen,          \* rngLen of math/rand, 607, made small
    MaxPicks         \* bound of the model: selections of one backend

ASSUME BalancerAssumption ==
    /\ Methods \subseteq {"round_robin", "random", "least_conn"}
    /\ CounterMod \in Nat \ {0} /\ RngLen \in Nat \ {0} /\ MaxPicks \in Nat
    /\ \A list \in AddressLists : list \in Seq(STRING)
    /\ IsFiniteSet(Callers)

VARIABLES
    method,          \* which of the three balancers this is; it never changes
    backends,        \* r.backends: address, healthy, connections
    current,         \* r.current of the round robin balancer
    tap,             \* the index into the generator's state vector
    pc,              \* where each caller is
    scan,            \* a caller's healthyBackends and its loop over them
    chosen,          \* the address SelectBackend returned to the caller
    panicked,        \* a run-time panic in a caller
    picks,           \* history: round robin selections since the last change
    wraps,           \* history: counter overflows since the last change
    down,            \* history: addresses whose last mark was unhealthy
    marked           \* history: a mark was made since the last UpdateBackends

reqVars == <<pc, scan, chosen, panicked>>
history == <<picks, wraps, down, marked>>
vars == <<method, backends, current, tap, reqVars, history>>

Addresses == UNION {{list[i] : i \in DOMAIN list} : list \in AddressLists}
Indices == DOMAIN backends

\* The positions of the healthy backends, in list order.
getHealthyBackends == InOrder({i \in Indices : backends[i].healthy})

\* The callers inside SelectBackend, which hold the read lock.
Readers == {c \in Callers : pc[c] \in {"scan", "tap", "fix", "use"}}

-----------------------------------------------------------------------------
NewBackends(list) ==
    [i \in DOMAIN list |-> [address |-> list[i], healthy |-> TRUE, connections |-> 0]]

\* The local variables of LeastConnectionBalancer.SelectBackend at its start;
\* RandomBalancer's has the first of them.
NewScan(list) == [healthy |-> list, next |-> 1, min |-> -1, selected |-> 0]

\* NewRoundRobin, NewRandom, NewLeastConnection
Init ==
    /\ method \in Methods
    /\ \E list \in AddressLists :
          /\ backends = NewBackends(list)
          /\ picks = [i \in DOMAIN list |-> 0]
    /\ current = 0
    /\ tap = 0
    /\ pc = [c \in Callers |-> "idle"]
    /\ scan = [c \in Callers |-> NewScan(<<>>)]
    /\ chosen = [c \in Callers |-> "none"]
    /\ panicked = FALSE
    /\ wraps = 0 /\ down = {} /\ marked = FALSE

\* SelectBackend returns the address of backends[i] and handleRequest goes on
\* to proxyRequest.
Selected(c, i) ==
    /\ pc' = [pc EXCEPT ![c] = "proxying"]
    /\ chosen' = [chosen EXCEPT ![c] = backends[i].address]
    /\ picks' = IF method = "round_robin" THEN [picks EXCEPT ![i] = @ + 1] ELSE picks
    /\ UNCHANGED <<down, marked, panicked>>

WithinBound ==
    \A i \in Indices : picks[i] < MaxPicks /\ backends[i].connections < MaxPicks

\* Mutant of SelectRoundRobin: the counter is read and kept, not advanced.
SelectRoundRobin_NoAdd(c) ==
    /\ method = "round_robin"
    /\ pc[c] = "idle" /\ WithinBound
    /\ LET healthy == getHealthyBackends IN
          /\ healthy # <<>>
          /\ Selected(c, healthy[(current % Len(healthy)) + 1])
    /\ UNCHANGED <<backends, current, tap, scan, wraps>>

\* RoundRobinBalancer.SelectBackend.  With no healthy backend it returns an
\* error, handleRequest answers 502 and no state changes.
SelectRoundRobin(c) ==
    /\ method = "round_robin"
    /\ pc[c] = "idle" /\ WithinBound
    /\ current' = (current + 1) % CounterMod
    /\ wraps' = IF current' = 0 THEN wraps + 1 ELSE wraps
    /\ LET healthy == getHealthyBackends IN
          /\ healthy # <<>>
          /\ Selected(c, healthy[(current' % Len(healthy)) + 1])
    /\ UNCHANGED <<backends, tap, scan>>

\* LeastConnectionBalancer.SelectBackend up to its loop.
BeginLeastConn(c) ==
    /\ method = "least_conn"
    /\ pc[c] = "idle" /\ WithinBound
    /\ getHealthyBackends # <<>>
    /\ scan' = [scan EXCEPT ![c] = NewScan(getHealthyBackends)]
    /\ pc' = [pc EXCEPT ![c] = "scan"]
    /\ UNCHANGED <<backends, current, tap, chosen, panicked, history>>

\* Mutant of ScanBackend: the comparison is the wrong way round.
ScanBackend_Greater(c) ==
    /\ pc[c] = "scan"
    /\ scan[c].next <= Len(scan[c].healthy)
    /\ LET i == scan[c].healthy[scan[c].next]
           connections == backends[i].connections IN
       scan' = [scan EXCEPT ![c] =
          IF scan[c].min = -1 \/ connections > scan[c].min
          THEN [scan[c] EXCEPT !.next = scan[c].next + 1, !.min = connections,
                               !.selected = i]
          ELSE [scan[c] EXCEPT !.next = scan[c].next + 1]]
    /\ UNCHANGED <<backends, current, tap, pc, chosen, panicked, history>>

\* One iteration of the loop: an atomic load of one backend's counter.
ScanBackend(c) ==
    /\ pc[c] = "scan"
    /\ scan[c].next <= Len(scan[c].healthy)
    /\ LET i == scan[c].healthy[scan[c].next]
           connections == backends[i].connections IN
       scan' = [scan EXCEPT ![c] =
          IF scan[c].min = -1 \/ connections < scan[c].min
          THEN [scan[c] EXCEPT !.next = scan[c].next + 1, !.min = connections,
                               !.selected = i]
          ELSE [scan[c] EXCEPT !.next = scan[c].next + 1]]
    /\ UNCHANGED <<backends, current, tap, pc, chosen, panicked, history>>

IncrementConnections(i) ==
    backends' = [backends EXCEPT ![i].connections = @ + 1]

\* After the loop.
EndLeastConn(c) ==
    /\ pc[c] = "scan"
    /\ scan[c].next > Len(scan[c].healthy)
    /\ IncrementConnections(scan[c].selected)
    /\ Selected(c, scan[c].selected)
    /\ scan' = [scan EXCEPT ![c] = NewScan(<<>>)]
    /\ UNCHANGED <<current, tap, wraps>>

\* RandomBalancer.SelectBackend up to r.rand.Intn.
BeginRandom(c) ==
    /\ method = "random"
    /\ pc[c] = "idle" /\ WithinBound
    /\ getHealthyBackends # <<>>
    /\ scan' = [scan EXCEPT ![c] = NewScan(getHealthyBackends)]
    /\ pc' = [pc EXCEPT ![c] = "tap"]
    /\ UNCHANGED <<backends, current, tap, chosen, panicked, history>>

\* math/rand (external): rng.tap--
DecrementTap(c) ==
    /\ pc[c] = "tap"
    /\ tap' = tap - 1
    /\ pc' = [pc EXCEPT ![c] = "fix"]
    /\ UNCHANGED <<backends, current, scan, chosen, panicked, history>>

\* math/rand (external): if rng.tap < 0 { rng.tap += rngLen }
FixTap(c) ==
    /\ pc[c] = "fix"
    /\ tap' = IF tap < 0 THEN tap + RngLen ELSE tap
    /\ pc' = [pc EXCEPT ![c] = "use"]
    /\ UNCHANGED <<backends, current, scan, chosen, panicked, history>>

\* math/rand (external): the vector is indexed with rng.tap, out of range if
\* another caller is between its decrement and its correction; then Intn
\* returns any index and SelectBackend the backend at it.
UseTap(c) ==
    /\ pc[c] = "use"
    /\ \/ /\ tap \in 0 .. RngLen - 1
          /\ \E n \in 1 .. Len(scan[c].healthy) : Selected(c, scan[c].healthy[n])
       \/ /\ tap \notin 0 .. RngLen - 1
          /\ panicked' = TRUE
          /\ pc' = [pc EXCEPT ![c] = "idle"]
          /\ UNCHANGED <<chosen, picks, down, marked>>
    /\ scan' = [scan EXCEPT ![c] = NewScan(<<>>)]
    /\ UNCHANGED <<backends, current, tap, wraps>>

SelectBackend(c) ==
    \/ SelectRoundRobin(c)
    \/ BeginLeastConn(c) \/ ScanBackend(c) \/ EndLeastConn(c)
    \/ BeginRandom(c) \/ DecrementTap(c) \/ FixTap(c) \/ UseTap(c)

\* proxyRequest and handleRequest return, with whatever result: the balancer
\* is not told, so no counter goes down.
FinishRequest(c) ==
    /\ pc[c] = "proxying"
    /\ pc' = [pc EXCEPT ![c] = "idle"]
    /\ chosen' = [chosen EXCEPT ![c] = "none"]
    /\ UNCHANGED <<backends, current, tap, scan, panicked, history>>

-----------------------------------------------------------------------------
\* UpdateBackends: new Backend objects, all healthy, and the counter at 0.
UpdateBackends(list) ==
    /\ Readers = {}
    /\ backends' = NewBackends(list)
    /\ current' = 0
    /\ picks' = [i \in DOMAIN list |-> 0]
    /\ wraps' = 0 /\ down' = {} /\ marked' = FALSE
    /\ UNCHANGED <<tap, reqVars>>

\* The loop of MarkHealthy and MarkUnhealthy stops at the first match.
SetFirst(address, healthy) ==
    LET matches == {i \in Indices : backends[i].address = address}
        first == {i \in matches : \A j \in matches : i <= j}
    IN  [i \in Indices |-> IF i \in first THEN [backends[i] EXCEPT !.healthy = healthy]
                                          ELSE backends[i]]

Known(address) == \E i \in Indices : backends[i].address = address

\* The history of the round robin starts again when the rotation changes.
MarkHistory ==
    /\ marked' = TRUE
    /\ picks' = IF backends' = backends THEN picks ELSE [i \in Indices |-> 0]
    /\ wraps' = IF backends' = backends THEN wraps ELSE 0

MarkHealthy(address) ==
    /\ Readers = {}
    /\ Known(address)
    /\ backends' = SetFirst(address, TRUE)
    /\ down' = down \ {address}
    /\ MarkHistory
    /\ UNCHANGED <<current, tap, reqVars>>

\* Mutant of MarkUnhealthy: it takes the read lock only.
MarkUnhealthy_ReadLock(address) ==
    /\ Known(address)
    /\ backends' = SetFirst(address, FALSE)
    /\ down' = down \cup {address}
    /\ MarkHistory
    /\ UNCHANGED <<current, tap, reqVars>>

MarkUnhealthy(address) ==
    /\ Readers = {}
    /\ Known(address)
    /\ backends' = SetFirst(address, FALSE)
    /\ down' = down \cup {address}
    /\ MarkHistory
    /\ UNCHANGED <<current, tap, reqVars>>

Next ==
    /\ \/ \E c \in Callers : SelectBackend(c) \/ FinishRequest(c)
       \/ \E list \in AddressLists : UpdateBackends(list)
       \/ \E address \in Addresses : MarkHealthy(address) \/ MarkUnhealthy(address)
    /\ UNCHANGED method

Spec == Init /\ [][Next]_vars

-----------------------------------------------------------------------------
TypeOK ==
    /\ \A i \in Indices : /\ backends[i].address \in Addresses
                          /\ backends[i].healthy \in BOOLEAN
                          /\ backends[i].connections \in Nat
    /\ DOMAIN picks = Indices /\ \A i \in Indices : picks[i] \in Nat
    /\ current \in 0 .. CounterMod - 1
    /\ tap \in -Cardinality(Callers) .. RngLen - 1
    /\ pc \in [Callers -> {"idle", "scan", "tap", "fix", "use", "proxying"}]
    /\ \A c \in Callers : scan[c].selected \in Nat /\ scan[c].min \in Int
    /\ chosen \in [Callers -> Addresses \cup {"none"}]
    /\ panicked \in BOOLEAN

\* balancer_test.go:49, "MarkUnhealthy removes backend from rotation": no
\* request is sent to an address while its last mark was unhealthy, even if
\* the mark and the selection overlap.
DownNotSelected ==
    [][\A c \in Callers :
          pc[c] # "proxying" /\ pc'[c] = "proxying" => chosen'[c] \notin down]_vars

\* balancer_test.go:12, "SelectBackend cycles through servers": between two
\* changes of the rotation, no healthy backend is more than one selection
\* ahead of another, whoever selects.  Each overflow of the uint64 counter may
\* add one, because 2^64 need not be a multiple of the number of backends.
RotationEven ==
    method = "round_robin" =>
        \A i, j \in Indices :
            backends[i].healthy /\ backends[j].healthy => picks[i] - picks[j] <= 1 + wraps

\* Until a health mark disturbs them, the counters of two backends differ by
\* at most the number of callers: a scan may be stale by one increment of each
\* other caller, and staleness does not add up.
LeastConnEven ==
    method = "least_conn" /\ ~marked =>
        \A i, j \in Indices :
            backends[i].connections - backends[j].connections <= Cardinality(Callers)

\* balancer_test.go:145, "Concurrent access is safe" of RandomBalancer: no
\* selection panics.
ConcurrentAccessSafe == ~panicked

=============================================================================
