# A TLA+ verification project for pinGo

pinGo is a proxy framework in Go. Its packages are small, but nearly every one
of them shares mutable state between goroutines, and most of the promises its
README makes ("Thread-safe operations across all components", "Graceful
Shutdown", "cache stampede protection") are about orders of events that unit
tests hardly produce. This directory models those packages in TLA+, checks the
models with TLC on small instances and proves the most important invariants
with TLAPS for all instances.

`PROJECT.json` lists the components, the runs, the lines of source each
definition stands for, a mutant for every property, the hazards and the
findings. To repeat a run: `tlc -config X.cfg M`; to check the proofs
of a component: `tlapm XProofs.tla`.

## 1. Inventory

| component | source | state | operations | what is hard |
|---|---|---|---|---|
| circuit breaker | `pkg/timeout` | state, failures, lastFailTime | Call, Reset | the protected function runs without the lock; its result meets another state |
| server lifecycle | `pkg/core`, `pkg/proxy` | services, shutdown channel, `p.server`, listeners | RunForever, Shutdown, Start, Stop | Start and Stop race; a deadline races the Stops |
| load balancers | `pkg/loadbalancing` | backends with health and counters, a counter, a generator | SelectBackend, UpdateBackends, Mark(Un)Healthy | selections overlap under a read lock |
| TCP pool | `pkg/pool` | map of hostPools, idle lists, counters | GetConnection, ReleaseConnection, Close | two levels of locks, a hostPool used after it left the map, a dial under a lock |
| memory cache | `pkg/cache` | map of entries, sizes, key locks | Get, Set, Delete, Clear | entries read under one lock and acted on under the next; an eviction loop |
| rate limiters | `pkg/limits` | tokens or counters and times | AllowN, WaitN | truncated time, window edges |
| concurrency limiter | `pkg/limits` | count, mutex, condition | Acquire, TryAcquire, Release | a condition variable waited for by a goroutine that does not hold its mutex |
| timers | `pkg/timeout` | active, the runtime's timer; a map of Timers | Start, Stop, Reset; AddTimer, RemoveTimer, ResetTimer, StopAll | functions that were fired but have not run; a Timer used after it left the map |
| timeouts, retry | `pkg/timeout` | a context, a goroutine and a channel per attempt | WithTimeout, WithDeadline, WithRetry | a result races the deadline; a wait races cancellation; work goes on after the return |
| ketama | `pkg/ketama` | ring of hashes, weights | AddNode, RemoveNode, GetNode(s), UpdateBackends | collisions, updates in several critical sections, selections in between |
| tiered cache | `pkg/cache` | two caches | Get with promotion, Set, Delete, Clear | two levels changed one after the other with nothing held |
| multi limiter | `pkg/limits` | several limiters | AllowN, WaitN | calls wait between limiters; nothing is given back |
| request path | `pkg/proxy` | one response being written | handleRequest | the upstream hangs or breaks off after the status was sent |
| TLS | `pkg/tls` | settings; certificates by name | constructors; AddCertificate, RemoveCertificate, GetCertificate | the files are read before the lock is taken |
| headers, HTTP pool, errors, commands | rest | configuration, strings | constructors, parsing, formatting | little: no state of their own that takes two steps |

How they interact. `core.Server` starts and stops `Service`s, of which
`ProxyService` is the one with behaviour; net/http calls `handleRequest` for
each request, which asks the load balancer for a backend and sends the request
with the client of an HTTP pool. Nobody tells the balancer that a request has
ended. The TCP pool offers an `http.Client` whose transport dials through
`GetConnection` and closes connections itself. Cache, limiters, circuit breaker
and timers are libraries that a program calls from many goroutines; they meet
no other component.

What makes each part correct:

- circuit breaker: the state follows the failure count; nothing is admitted in
  the quiet period; one failed probe reopens; an open circuit is probed again.
- lifecycle: after RunForever returned nil nothing is accepted and nothing is
  in flight; a requested shutdown ends; served listeners get closed.
- balancers: an even rotation; counters that are current; no request for a
  backend that is marked down; no panic.
- pool: limits per host; a connection has one owner; what is idle is open; no
  deadlock; "exhausted" means in use.
- cache: counters agree with the map; limits hold whenever the lock is free;
  operations return; a Get removes nothing fresh.
- limiters: never more than the rate allows, and not less either; a chain keeps
  to the bounds of all its limiters.
- timers: active means that something will still fire; a Stop that returned true
  prevents the callback; what a group has taken out is not armed again.
- retry: nil means the work was done; attempts do not run into each other;
  cancellation is noticed; nothing is left behind.
- ketama: lookups go clockwise; a change moves only the keys it must; an update
  leaves no gap.
- tiered cache: both levels hold the last value or nothing.
- request path: a request ends, whatever the upstream does. (That a truncated
  body is not passed off as a whole one would be worth having; the code does not
  ensure it, see section 3.)

## 2. Modules

Every component's module can be read on its own. A goroutine is a function from
goroutines to program counters; a critical section is one step unless something
another goroutine can see happens inside it, and then it is several with the
lock held explicitly. `MC...` modules add what a run needs (symmetry, lists of
inputs). Components of one package that share nothing are checked in one run:
its module is a sum, in which the variable `part` says what a behaviour is
about, the other parts stay in one of their initial states, and the fairness of
each part is stated for its own behaviours. Definitions whose names contain an underscore and a word
(`GetDial_Unlocked`) are mutants: plausible bugs that show each property can
fail. They are used by no specification.

- **CircuitBreaker**: `Call` is allowRequest, `Return` is recordResult, and any
  step may come between them. `admitted[g]` remembers when a call was let in.
- **ServerLifecycle**: `main` is the goroutine of RunForever, `start[s]`,
  `stop[s]` and `serve[l]` the ones it leads to. `server[s]` is the field
  `p.server` that Start writes and Stop reads without a lock. What net/http's
  Serve and Shutdown do is external: Serve on a server already shut down closes
  its listener and returns; Shutdown closes the listeners that are being served
  and waits for what is in flight. Listeners may be added at any time; the history
  `afterStop` has those that came when the Stop of their service was done.
- **LoadBalancer**: one list of backends, one SelectBackend for each `method`.
  Round robin is one step, because readers share only an atomic counter; the
  least-connection scan is a step for each backend; the random choice is the
  steps of math/rand's unprotected generator (external). The counter has a
  small modulus in place of 2^64, so that it overflows in a run.
- **TCPPool**: hostPools and connections are objects that are used once.
  `pool[c]` is the hostPool a client looked up, which Close may have dropped
  from `pools` since. Close makes a hostPool's slice nil, whose capacity is 0.
- **MemoryCache**: `entry[g]` is what a Get read, or what a Set is about to
  store. `Victims` is the set of keys evictLRU may end with over all orders of
  Go's map iteration, with the special meaning it gives to the key "".
- **ConcurrencyLimiter**: an explicit sync.Mutex, which has no owner and is
  fatal when unlocked twice, and an explicit sync.Cond with its line of waiters.
- **RateLimiters**: token bucket, sliding and fixed window, one of which a
  behaviour is about (`kind`); one step per operation over a clock of ticks,
  with a history of what was admitted when. The history is a running total:
  `admitted[t]` is what was admitted before time t, so that an interval is the
  difference of two totals.
- **MultiLimiter**: extends RateLimiters; a chain of its token bucket and its
  sliding window in either order. `at[c]` is the limiter a call has come to. The
  limiters' own actions are used, through INSTANCE with the history they write
  replaced by one of the bucket's own and one of the window's (`bucketGave`,
  `slidingGave`); `admitted` is what came through both.
- **Timers**: `timer[t]` is a Timer with what the runtime does for it: `armed`
  runtime timers, functions that were fired and wait for `t.mu` (`pending`), and
  functions past it that are about to call the callback (`due`). A Timer is
  `late` once it was armed again while such a function was unfinished; the
  properties say what holds without that.
- **Retry**: one WithRetry whose function runs its work under WithTimeout or
  WithDeadline. `try[k]` is the context, the goroutine and the channel of attempt
  k; goroutines of earlier attempts go on beside the later ones.
- **KetamaRing**: the ring's operations are operators on a record of `nodes` and
  `sortedKeys`; the balancers are steps around them. A constructor adds its list
  one node at a time (`Construct`), before anybody else has the balancer. GetNodes
  is the first places (`Unseen`) at which one round of the sorted keys (`Walk`)
  meets each node. The hash is a variable that
  never changes, so that one run covers several hash functions. UpdateBackends is
  a step for every ring operation, since selections and other changes come in
  between. The other changes are AddBackend and RemoveBackend of any backend at
  any time, of which the steps of another UpdateBackends are a special case, so
  one updater is enough.
- **LRUCache**: the abstract specification of a cache with limits; a Set stores
  an entry and evicts in one step. **MCCache** states that MemoryCache implements
  it: the abstract store is `visible`, the entries as of the last moment `c.mu`
  was free. What evictLRU does in the presence of the key "" is exempt from the
  order of eviction (see MemoryCache_empty_key).
- **TieredCache**: `op[u]` is where a goroutine is between two tiers. `latest`,
  `contested` and `lost` are histories for the properties.
- **ProxyRequest**: one request. A body is a length; `framing` says how the upstream
  marks its end, by a Content-Length, a last chunk or the end of the connection, on
  which depends whether io.Copy notices that it is short (`MeetsEnd`, `MayFail`).
  net/http's server and client are external.
- **Ordering**: what sort.Slice and the filtering loops compute, for the balancers,
  the limiters and the ring: a member comes n-th if n - 1 others come before it.
- **MCTimeout**, **MCServer**, **MCBalancers**, **MCCache**: the sums of
  `pkg/timeout`; of the life cycle and a request; of the balancers of both
  packages; of the caches.
- **TimeoutProofs** (circuit breaker, timers, retry), **TCPPoolProofs**,
  **ServerProofs** (the life cycle), **BalancerProofs**,
  **KetamaProofs**, **CacheProofs** (MemoryCache and TieredCache),
  **RateLimiterProofs** (RateLimiters and MultiLimiter),
  **ConcurrencyLimiterProofs**: the theorems of section 5.

## 3. Runs

Runs that pass, with the invariants, action properties and liveness properties of
their parts together:

| run (module) | part and bounds | why they are enough |
|---|---|---|
| CircuitBreaker (MCTimeout) | circuit: 3 callers, 2 failures, timeout 1, clock to 5 | two calls can overlap the one that trips the circuit, and the clock leaves room for two quiet periods |
| | timer: one Timer; group: two Timers, two names, one ResetTimer; each armed 3 times | a Timer can be stopped, started and reset around an unfinished function, and a ResetTimer act on a Timer that was replaced |
| | retry: 3 attempts; a delay that grows to its cap, one that starts above it, MaxAttempts 0 | two attempts may still run beside the last one, and two waits follow each other |
| ServerLifecycle (MCServer) | 2 services, 2 listeners, 2 requests each, every kind of configuration | a service may have both listeners, one or none; one Stop may succeed and the other fail; a Serve goroutine may be later than everything else |
| | request: bodies of 0 and 2 units, in each framing | the upstream may hang or break off before, inside and after the body |
| LoadBalancer (MCBalancers) | 3 callers, lists of 3 and of 2 backends, counter modulo 16, 4 picks each | 12 round robin selections since a change, across an overflow (16 is no multiple of 3); the bound of LeastConnEven is sharp: with 3 callers a difference of 3 is reached |
| | ketama: 3 backends, 2 replicas, 3 hash functions into 12 points, weights 0 and 2, 8 keys | a backend may be in the ring twice, a list may name one twice; one hash function is injective, one lets points of different nodes collide, one the points of a node |
| TCPPool | 3 clients, 1 address, limit 2, 3 connections, 2 hostPools, 1 Close | enough to exceed the limit by one, to fill the idle list, and for a Close inside any operation, with the hostPool before it and the one after |
| MemoryCache (MCCache) | memory: 2 goroutines, 3 keys, sizes 1 and 4, limits 3 bytes and 1 item, 3 Sets, clock to 3 | one Set may have to evict two entries, each limit is exceeded alone, an entry expires while it is looked at |
| | tiered: 2 goroutines, 1 key, 3 Sets, no ttl or 1, an hour of 3, clock to 4; each tier may be a NoOpCache | keys do not meet in a TieredCache except in Clear; a promotion can overlap every write and outlive its ttl |
| ConcurrencyLimiter | 3 callers, limit 2, 2 helpers | the third caller finds no slot |
| RateLimiters (MultiLimiter) | bucket of 3 with 1 per second, windows of 2 requests in 3 ticks, 2 ticks to the second, 8 instants | a drained bucket refills whole; windows start anywhere and are reset twice |
| | multi: 2 callers with 1 or 2 requests, 5 instants | a call can pass one limiter in one window and the other in the next; the slack in MultiBound is needed |

What the properties say is in the comment above each. The `TypeOK` that no run
checks say which values the variables of a module take. The ones to start with:
`QuietPeriod`, `NoAcceptAfterDone`, `LeastConnEven`, `NoSharing`, `Accounting`,
`FillsAtHalfRate`, `StopSilences`, `NilMeansDone`, `MinimalDisruption`,
`ImplementsLRU`, `TakenOutStaysQuiet`.

Some of them say what holds outside a case in which the code does otherwise. The
comment above the property names the case, and the history that marks it: `late`
(ActiveMatches, StopSilences, GroupReaches), `afterStop` (NoAcceptAfterDone,
ServedListenersClose), `alone` (UpdateServes), `shrunk` (WeightedExact),
`contested` (TierCoherent), collisions (MinimalDisruption), the first wait
(SlotsCounted), the key "" (ImplementsLRU, OperationsReturnOrEmptyKey). What
happens in these cases is in the list below or in a run that ends in a violation.
In the run, the slack of MultiBound is needed but the ceiling of its bound is out
of reach; the theorem covers it.

Runs that end in a violation; each states what the README, a message or a test
of the repository says, and the counterexample is a behaviour of the code:

| run | the repository says | the code |
|---|---|---|
| ServerLifecycle_drained | "All services stopped gracefully" | RunForever returns nil with a request in flight, if Stop came before Start or ran into the deadline |
| LoadBalancer_rand_race | "Concurrent access is safe" | rand.Rand is shared under a read lock |
| TCPPool_exhausted | "connection pool exhausted" | no connection is in use: the transport never releases |
| MemoryCache_empty_key | "LRU eviction" | evicting the key "" loops for ever under c.mu |
| ConcurrencyLimiter_fatal | "Thread-safe operations across all components" | Acquire at the limit unlocks an unlocked mutex |

The models also contain these behaviours, which need no run to be seen:

- `SimpleProxyService` leaves LoadBalancingMethod empty and NewProxyService
  refuses it, so `./bin/pingora proxy` ends at once (`NewProxyService` with
  `SimpleProxyConfig`).
- A second `Server.Shutdown` panics (`Shutdown`, second disjunct).
- MarkUnhealthy stops at the first entry with the address, so an upstream that
  is listed twice stays in rotation (`SetFirst`). The LoadBalancer run therefore
  uses lists without repetitions.
- Nobody calls DecrementConnections: least_conn balances selections, not
  connections.
- A Get that saw an expired entry deletes by key, and may delete a fresh entry
  that a Set stored in between (`GetExpire`).
- The key locks protect Sets from each other only: goroutines that miss the
  same key all load it, in spite of "cache stampede protection".
- The token bucket forgets fractions of seconds. `FillsAtHalfRate` is what is
  left of "10/sec refill".
- Two UpdateBackends of a ketama balancer that overlap can leave a mixture of
  their lists, or an empty ring: each removes what it saw and the other keeps
  (`UpdateRemove`; hence `alone` in UpdateServes).
- A backend added again with a smaller weight leaves virtual nodes that no
  RemoveBackend reaches (`shrunk`). A point where two nodes collide is lost when
  either is removed (`RemoveNode`; hence NoCollisions).
- Stop may return true and the callback run all the same, if the Timer was armed
  again while a function of an earlier firing was unfinished (`late`): the late
  function also clears `active` of the newer one. Timers that have fired stay in
  the group's map.
- For the same reason a group can lose an armed runtime timer: a ResetTimer comes
  between the firing of a Timer and its function, arms it, the function clears
  `active`, and the Stop of RemoveTimer, AddTimer or StopAll returns at
  `!t.active` without stopping anything (`ResetLookup`, `Fire`, `ResetApply`,
  `ClearActive`, `RemoveTimer`; hence `late` in GroupReaches). The callback then
  runs after the Timer has left the group.
- A listener that is added after a Stop that found `p.server` nil is served for
  good by a Start that is later still, also after RunForever has returned nil
  (`addListener`, `Start`; hence `afterStop` in NoAcceptAfterDone).
- With MaxAttempts 0 WithRetry returns nil; its first wait is InitialDelay
  whatever MaxDelay is; under WithDeadline all attempts after the deadline fail
  at once, and are made.
- A value that a Get found in l2 is promoted even after a Delete removed it, and
  is served for an hour whatever its ttl was (`Promote`).
- A body that breaks off is followed by the text "Proxy error" under the
  upstream's status, which was sent before (`CopyFails`); a client that gets it in
  chunks sees a complete answer. A body without Content-Length or chunks that the
  upstream's connection ends too early is copied short with no error at all
  (`MeetsEnd`). No property is about this: the code makes no promise that a run
  could check.
- A refused AllowN of a MultiLimiter has still taken from the limiters before
  the one that refused (`Refused`), and a call that waits between two limiters
  lets twice the window's limit through in one window (`Slack`).

Deadlock is checked in the run of the pool. The other models stop at their
bounds (a clock, a number of sets or picks, a process that has ended, a retry
that has returned), so their configurations do not check it.

## 4. Fairness

- CircuitBreaker: the clock ticks, protected functions return, goroutines that
  may call do. The last is the assumption without which an open circuit stays
  open: only a caller moves it.
- ServerLifecycle: spawned goroutines run, timers fire. Nothing is assumed of
  requests, so one may be in flight for ever.
- ProxyRequest: the handler runs, and the 30 seconds of the http.Client pass.
  Nothing is assumed of the upstream, which may hang, with the body or with its
  last chunk, or of the client, whose absence may go unnoticed.
- Timers: the runtime fires what is armed and runs its functions. Resets are
  bounded by the model; one who resets a Timer for ever keeps it active.
- Retry: WithRetry and the goroutines that have a result to send run, and
  timeouts pass. Nothing is assumed of the work, which may never return.
- TCPPool, MemoryCache: a goroutine inside an operation goes on, and gets a
  mutex that is free again and again (strong fairness): Go's mutexes hand over
  to a waiter that has starved for a millisecond. A dial ends by ConnectTimeout.

## 5. Proofs

TLAPS proves, for all values of the constants that satisfy the named
assumptions of the modules:

- **TimeoutProofs**, the circuit breaker (`MaxFailures` positive, `ResetTimeout` and
  `MaxTime` natural): `TypeOK`, `ClosedIffBelowThreshold`, `QuietPeriod` and the
  action property `FailedProbeReopens`. None of the last three is inductive
  alone. `QuietPeriod` needs that timestamps are not in the future, that a
  circuit that is not closed has a time of failure, and that a half-open circuit
  was opened by time: `clock > lastFailTime + ResetTimeout`. `IndInv` adds these.
  `FailedProbeReopens` needs that a half-open circuit has at least MaxFailures
  failures on record, which is one half of `ClosedIffBelowThreshold`.
- **TCPPoolProofs** (`MaxConnsPerHost` natural, `Nil` no object): `TypeOK`,
  `CapacityBound`, `NoSharing`, `IdleIsOpen` and `HostLimit`. A dial checks the
  limit before it begins and counts after it has ended, so `CapacityBound` needs
  `DialRoom`: the check still holds at the end; and that needs `Locks`: whoever
  dials holds that hostPool's lock, so no other step can touch it. `IndInv` is the
  conjunction. The other three need `PlacesInv`: what a client has in hand is open
  (a late ReleaseConnection puts it back without looking), what is idle lies in a
  hostPool the map still has, because Close drained the others and left them with
  capacity 0 (`MapInv`), and until the first Close the two counters of a hostPool
  cover the open connections to its address, those on their way between a client
  and the pool included (`LimitInv`).
- **TimeoutProofs**, the timers (the group's Timers and the others apart): `ActiveMatches`,
  `GroupReaches` and the action properties `StopSilences` and `TakenOutStaysQuiet`,
  for any number of Timers, names and pending ResetTimers. `InOrder` says of one
  Timer that is not `late` how the armed runtime timer, the fired functions,
  `active` and `silenced` fit together. That each operation keeps it is proved of a
  single record, once, and used for the solo Timers and the group. `OutIsInactive`
  says of every Timer, late or not, that it is inactive once it is outside the
  group: each way out passes through Stop. `TakenOutStaysQuiet` rests on that alone,
  `GroupReaches` on both.
- **TimeoutProofs**, the retry (a multiplier that is a fraction of naturals,
  MaxAttempts within the model's array): `NilMeansDone` and `OneLiveAttempt`. The goroutines of
  attempts that were given up go on, so the invariant speaks of all attempts:
  a channel holds what its own work returned and nothing else, only the attempt
  that is waited for has a live context, an attempt that is over was given up or
  failed, and one that began after the caller's cancellation is the last.
- **ServerProofs** (`None` no service): `TypeOK` and `NoAcceptAfterDone` of the life
  cycle. `Stopped` says what each Stop has achieved by each of its steps; `Started`
  that a server and its Serve goroutines exist only of a service whose Start is
  done, so that what appears behind a Stop is only what was added there.
- **BalancerProofs** (`Callers` finite; a list is a sequence of addresses):
  `RotationEven`, `LeastConnEven` and the action property `DownNotSelected`, for
  any lists, callers and width of the counter. `DownNotSelected` has the
  hypothesis `Distinct`, that no list names an address twice: otherwise it is
  false (see `SetFirst` in section 3). All rest on `BalancerInv`: the list that a
  selection took is still the list of the healthy backends, since the read lock
  keeps marks and updates out, and the `min` of a scan is at most what each
  backend scanned so far has now. `LeastConnEven` alone is not inductive, for it
  says nothing of increments that are decided but not made. `LeastInv` says it of
  every level `l` that some backend does not exceed: the connections of a backend,
  with the callers that chose it when it had at most `l`, are at most `l` plus the
  number of callers. `RotationInv` orders the backends by how many selections ago
  each was passed: one passed later never has fewer picks, except for one per
  overflow of the counter, where 2^64 need not be a multiple of their number and
  the round starts somewhere else.
- **KetamaProofs** (positive `replicas` and `HashMod`; hash functions are functions
  of a node and a replica; lists of backends are sequences): `MinimalDisruption`,
  `UpdateServes`, `WeightedExact` and `ClockwiseOrder`, for any backends, weights,
  hash functions and overlapping operations. `KetamaInv` says that `sortedKeys`
  lists the keys of `nodes`, ascending and without gaps (`RingOK`), that a key
  belongs to a node which hashes to it (`OwnKeys`), and that without collisions a
  node in the ring has all its points (`Whole`). `ClockwiseOrder` needs only the
  first two and holds with collisions; its proof shows that the walk over the
  sorted keys is by ascending distance, and that a node is as near as the place
  where the walk meets it first. `MinimalDisruption` compares the nearest points
  of two rings. `UpdateServes` needs `Between`: what the loops of an UpdateBackends
  that runs alone know of the ring, in terms of the lists they still have to go
  through. `WeightedExact` needs `NumbersOK`: which numbers of a backend's nodes are
  in the ring in the middle of an AddBackend or a RemoveBackend.
- **RateLimiterProofs** (positive rate, window and ticks per second; `Callers`
  finite): `RateBound`, `FillsAtHalfRate`, `WindowBound`, `SlidingExact` and
  `MultiBound`, for any capacity, rate, limit, window and arguments. One predicate
  per limiter binds its state to the history it wrote (`BucketOK`, `FillOK`,
  `SlidingOK`, `FixedOK`). None of the properties is inductive alone: an interval
  that ends now is bounded by the tokens that are left or the requests that are
  remembered as well, so the predicates say it of every interval together with the
  present state. Their arguments are values, so that the same lemmas serve a limiter
  alone and one inside a chain. `MultiInv` adds that what came through is what
  the last limiter admitted, and in every interval no more than what the first one
  admitted in it and the requests that may wait between the two.
- **CacheProofs**, MemoryCache (sizes, limits and ttls natural; nobody is no
  goroutine): `Accounting`, and `ImplementsLRU`, the refinement of LRUCache, for any
  goroutines, keys, sizes, ttls and limits; the keys may be infinitely many, since
  `MemoryInv` has that only finitely many are stored. The size of a map is the
  number of its bytes, each a pair of a key and a place, so an assignment changes it
  by the bytes of one key (`Recount`). `SectionInv` says what the Set that holds
  `c.mu` has done: the map is `visible` with the new entry and without the entries
  evicted so far, these were used no later than all that is left, and the map is
  still over a limit. So every eviction but the last is a stutter, and the last
  makes the section one Put that removed nothing it need not. `CallerMoves` handles
  what all actions do to the program counters.
- **CacheProofs**, TieredCache (ttls natural): `TierCoherent` for any goroutines,
  keys and ttls. A key is `Settled`, and then the tiers and every Get about to
  promote have its last value or nothing, or `HalfWritten` by one operation that is
  alone.
- **ConcurrencyLimiterProofs** (`limit` natural): `SlotsCounted`, for any callers.
  Until an Acquire has to wait there is no helper goroutine, and `cl.mu` is
  locked exactly while one caller is inside.

Each proof has one lemma or step per action of Next; the temporal theorems
follow from the invariance of the conjunction. The bounds of the models
(`MaxPicks`, `MaxArms`, `MaxTime` and so on) are constants like the others, so the
theorems hold for all of them. Except for `ImplementsLRU`, which is about
`CacheSpec` because `visible` is a variable of MCCache, the specifications of the
`MC...` sums are not what is proved: the theorems are about each component's own.

Every invariant and every action property that a passing run checks is stated by
a theorem, and so is the refinement. Only model-checked are the liveness
properties (`OpenCircuitProbes`, `RetryReturns`, `NoLeak`, `ShutdownReturns`,
`ServedListenersClose`, `RequestEnds`, the two `OperationsReturn...`) and freedom
from deadlock: fairness and ENABLED are outside the prover. What a recursive
definition computes is outside it too, since that takes induction over data;
therefore sorting is defined by counting (Ordering), a sum over an interval is a
difference of totals, and the size of a cache is a cardinality.

## 6. What is not modelled

Not modelled, since they keep no state that takes two steps: the HTTP pool beyond
the timeout of its client (the idle connections are http.Transport's), TLS
settings, header records and Cache-Control with their formatting and parsing,
ParseHTTPVersion, the error values, CacheKey, service builders, the commands and
examples. CertificateManager is a map under one lock. Three things were seen
while reading them: CacheKey.String hashes headers in the order of a map, so a
request can have several keys; GetCertificateInfo calls X509KeyPair with no key,
which fails for every certificate; and AddCertificate reads its files before it
takes the lock, so of two that overlap the one that read the older files may win.

Left out inside modelled parts: logging, statistics that nothing reads, the bytes
of values, the wording of errors, the contents of headers and URLs. The waits of
the limiters are not timed: a WaitN is its AllowN steps at any moments. Callers
are taken to use the packages as meant where the code checks nothing: AllowN asks
for at least 1, MaxFailures is positive, ReleaseConnection is given the address
that was dialed. In
TieredCache a tier is the abstract cache its properties need, not a MemoryCache
step by step.

## 7. Plan

1. Done: every component with behaviour is modelled (section 2), MemoryCache is
   shown to implement LRUCache, and the safety of every module is proved.
2. Abstract specifications still worth stating: a pool as a partition of
   connections among owners, implemented by TCPPool; a lock service, implemented
   by ConcurrencyLimiter as long as nobody waits.
3. The tiers of a TieredCache as two LRUCaches, so that TierCoherent rests on the
   refinement that is proved of a MemoryCache.
