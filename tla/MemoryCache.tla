----------------------------- MODULE MemoryCache -----------------------------
(***************************************************************************)
(* MemoryCache of pkg/cache/cache.go.  c.mu guards the map and the         *)
(* counters, one lock per key serialises the Sets of that key.  Get reads  *)
(* an entry under the read lock and acts on it after the lock was free; a  *)
(* Set reads the clock before it waits for c.mu.                           *)
(* Hits, Misses and Evictions, counters that no operation reads, are left  *)
(* out; so are the bytes of a value, except for their number.              *)
(***************************************************************************)
EXTENDS Integers, FiniteSets

CONSTANTS
    Callers,        \* goroutines that use the cache
    Keys,           \* keys, which may include the empty string
    Sizes,          \* len(value)
    TTLs,           \* ttl of a Set, 0 for none
    maxSize,        \* config.MaxSize, 0 for no limit
    maxItems,       \* config.MaxItems, 0 for no limit
    MaxTime,        \* bound of the model: the clock stops here
    MaxSets         \* bound of the model: entries created

ASSUME CacheAssumption ==
    /\ Keys \subseteq STRING
    /\ "nobody" \notin Callers
    /\ Sizes \subseteq Nat /\ TTLs \subseteq Nat
    /\ maxSize \in Nat /\ maxItems \in Nat
    /\ MaxTime \in Nat \ {0} /\ MaxSets \in Nat

VARIABLES
    entries,        \* c.entries: key -> CacheEntry or NoEntry
    currentSize,    \* c.currentSize
    ItemCount,      \* c.stats.ItemCount
    Size,           \* c.stats.Size
    mu,             \* the goroutine that holds c.mu over several steps
    locks,          \* c.locks: key -> the goroutine that holds the key's lock
    clock,          \* time.Now()
    created,        \* entries created so far; numbers the entry objects
    pc,             \* where each goroutine is
    key,            \* the key of its operation
    entry           \* the entry it has read, or is about to store

cacheVars == <<entries, currentSize, ItemCount, Size>>
vars == <<cacheVars, mu, locks, clock, created, pc, key, entry>>

Nobody == "nobody"
NoKey == "no key"
NoEntry == [id |-> 0, size |-> 0, ExpiresAt |-> 0, AccessedAt |-> 0]

\* The keys a map has an entry for.
Stored(m) == {k \in Keys : m[k].id # 0}
Present == Stored(entries)

\* CacheEntry.IsExpired; ExpiresAt is 0 for the zero time.
IsExpired(e) == e.ExpiresAt # 0 /\ clock > e.ExpiresAt

-----------------------------------------------------------------------------
\* NewMemoryCache; the clock is positive so that 0 is the zero time.
Init ==
    /\ entries = [k \in Keys |-> NoEntry]
    /\ currentSize = 0 /\ ItemCount = 0 /\ Size = 0
    /\ mu = Nobody
    /\ locks = [k \in Keys |-> Nobody]
    /\ clock = 1
    /\ created = 0
    /\ pc = [g \in Callers |-> "idle"]
    /\ key = [g \in Callers |-> NoKey]
    /\ entry = [g \in Callers |-> NoEntry]

\* The operation returns.
Return(g) ==
    /\ pc' = [pc EXCEPT ![g] = "idle"]
    /\ key' = [key EXCEPT ![g] = NoKey]
    /\ entry' = [entry EXCEPT ![g] = NoEntry]

-----------------------------------------------------------------------------
\* Get: the read under c.mu.RLock.
GetRead(g, k) ==
    /\ pc[g] = "idle"
    /\ mu = Nobody
    /\ key' = [key EXCEPT ![g] = k]
    /\ entry' = [entry EXCEPT ![g] = entries[k]]
    /\ pc' = [pc EXCEPT ![g] = IF k \in Present THEN "check" ELSE "miss"]
    /\ UNCHANGED <<cacheVars, mu, locks, clock, created>>

\* Get: entry.IsExpired(), with no lock held.
GetCheck(g) ==
    /\ pc[g] = "check"
    /\ pc' = [pc EXCEPT ![g] = IF IsExpired(entry[g]) THEN "expire" ELSE "touch"]
    /\ UNCHANGED <<cacheVars, mu, locks, clock, created, key, entry>>

\* The body of Delete and of the Delete that Get calls.
Remove(k) ==
    /\ \/ /\ k \in Present
          /\ currentSize' = currentSize - entries[k].size
          /\ ItemCount' = ItemCount - 1
          /\ entries' = [entries EXCEPT ![k] = NoEntry]
       \/ /\ k \notin Present
          /\ UNCHANGED <<entries, currentSize, ItemCount>>
    /\ Size' = currentSize'

\* Get: c.Delete(ctx, key) for an expired entry.
GetExpire(g) ==
    /\ pc[g] = "expire"
    /\ mu = Nobody
    /\ Remove(key[g])
    /\ pc' = [pc EXCEPT ![g] = "miss"]
    /\ UNCHANGED <<mu, locks, clock, created, key, entry>>

\* Get: count the miss under c.mu and return an error.
GetMiss(g) ==
    /\ pc[g] = "miss"
    /\ mu = Nobody
    /\ Return(g)
    /\ UNCHANGED <<cacheVars, mu, locks, clock, created>>

\* Get: set AccessedAt of the entry object, in the map or not, and return.
GetTouch(g) ==
    /\ pc[g] = "touch"
    /\ mu = Nobody
    /\ entries' = [entries EXCEPT ![key[g]] =
                      IF @.id = entry[g].id THEN [@ EXCEPT !.AccessedAt = clock] ELSE @]
    /\ Return(g)
    /\ UNCHANGED <<currentSize, ItemCount, Size, mu, locks, clock, created>>

-----------------------------------------------------------------------------
\* Set: getKeyLock; every key has one lock for good.  Then Set waits for it.
SetCall(g, k) ==
    /\ pc[g] = "idle"
    /\ created + Cardinality({h \in Callers : pc[h] = "keylock"}) < MaxSets
    /\ key' = [key EXCEPT ![g] = k]
    /\ pc' = [pc EXCEPT ![g] = "keylock"]
    /\ UNCHANGED <<cacheVars, mu, locks, clock, created, entry>>

\* Set: take the key's lock, read the clock, build the entry.
SetBegin(g, size, ttl) ==
    /\ pc[g] = "keylock"
    /\ locks[key[g]] = Nobody
    /\ locks' = [locks EXCEPT ![key[g]] = g]
    /\ created' = created + 1
    /\ entry' = [entry EXCEPT ![g] =
                   [id |-> created', size |-> size, AccessedAt |-> clock,
                    ExpiresAt |-> IF ttl > 0 THEN clock + ttl ELSE 0]]
    /\ pc' = [pc EXCEPT ![g] = "insert"]
    /\ UNCHANGED <<cacheVars, mu, clock, key>>

\* The loop condition of evictIfNeeded.
OverLimit(size, items) ==
    \/ maxSize > 0 /\ size > maxSize
    \/ maxItems > 0 /\ items > maxItems

\* Mutant of SetDone: the defers do not release the key's lock.
SetDone_KeepsKeyLock(g) ==
    /\ Size' = currentSize'
    /\ mu' = Nobody
    /\ UNCHANGED locks
    /\ Return(g)

\* Set: the end, with both locks released.
SetDone(g) ==
    /\ Size' = currentSize'
    /\ mu' = Nobody
    /\ locks' = [locks EXCEPT ![key[g]] = Nobody]
    /\ Return(g)

\* Set: c.mu is held from here to SetDone.
SetMore(g) ==
    /\ mu' = g
    /\ pc' = [pc EXCEPT ![g] = "evict"]
    /\ UNCHANGED <<Size, locks, key, entry>>

\* Mutant of SetInsert: the size of the entry that is replaced is kept.
SetInsert_KeepsOldSize(g) ==
    /\ pc[g] = "insert"
    /\ mu = Nobody
    /\ ItemCount' = IF key[g] \in Present THEN ItemCount ELSE ItemCount + 1
    /\ currentSize' = currentSize + entry[g].size
    /\ entries' = [entries EXCEPT ![key[g]] = entry[g]]
    /\ \/ OverLimit(currentSize', ItemCount') /\ SetMore(g)
       \/ ~OverLimit(currentSize', ItemCount') /\ SetDone(g)
    /\ UNCHANGED <<clock, created>>

\* Set: store the entry under c.mu, up to the first test of evictIfNeeded.
SetInsert(g) ==
    /\ pc[g] = "insert"
    /\ mu = Nobody
    /\ ItemCount' = IF key[g] \in Present THEN ItemCount ELSE ItemCount + 1
    /\ currentSize' = currentSize - entries[key[g]].size + entry[g].size
    /\ entries' = [entries EXCEPT ![key[g]] = entry[g]]
    /\ \/ OverLimit(currentSize', ItemCount') /\ SetMore(g)
       \/ ~OverLimit(currentSize', ItemCount') /\ SetDone(g)
    /\ UNCHANGED <<clock, created>>

\* Mutant of Oldest: the comparison is the wrong way round.
Oldest_Newest(S) == {k \in S : \A j \in S : entries[k].AccessedAt >= entries[j].AccessedAt}

Oldest(S) == {k \in S : \A j \in S : entries[k].AccessedAt <= entries[j].AccessedAt}

\* The keys evictLRU may end up with, over all orders of the map iteration.
\* "" stands for "none yet" there: when the entry with key "" is the oldest so
\* far it is taken, and then the next key replaces it unseen.
Victims ==
    LET others == Present \ {""} IN
    IF "" \notin Present THEN Oldest(others)
    ELSE UNION {IF \E k \in others \ after :
                      entries[k].AccessedAt <= entries[""].AccessedAt
                THEN Oldest(others)
                ELSE IF after = {} THEN {""} ELSE Oldest(after) : after \in SUBSET others}

\* One iteration of evictIfNeeded, with evictLRU.  A victim "" is not deleted.
Evict(g) ==
    /\ pc[g] = "evict"
    /\ \E k \in Victims :
          \/ /\ k # ""
             /\ currentSize' = currentSize - entries[k].size
             /\ ItemCount' = ItemCount - 1
             /\ entries' = [entries EXCEPT ![k] = NoEntry]
             /\ \/ OverLimit(currentSize', ItemCount') /\ SetMore(g)
                \/ ~OverLimit(currentSize', ItemCount') /\ SetDone(g)
          \/ /\ k = ""
             /\ UNCHANGED <<cacheVars, mu, locks, pc, key, entry>>
    /\ UNCHANGED <<clock, created>>

-----------------------------------------------------------------------------
Delete(g, k) ==
    /\ pc[g] = "idle"
    /\ mu = Nobody
    /\ Remove(k)
    /\ UNCHANGED <<mu, locks, clock, created, pc, key, entry>>

Clear(g) ==
    /\ pc[g] = "idle"
    /\ mu = Nobody
    /\ entries' = [k \in Keys |-> NoEntry]
    /\ currentSize' = 0 /\ ItemCount' = 0 /\ Size' = 0
    /\ UNCHANGED <<mu, locks, clock, created, pc, key, entry>>

Tick ==
    /\ clock < MaxTime
    /\ clock' = clock + 1
    /\ UNCHANGED <<cacheVars, mu, locks, created, pc, key, entry>>

\* The steps inside an operation that has begun.
Step(g) ==
    \/ GetCheck(g) \/ GetExpire(g) \/ GetMiss(g) \/ GetTouch(g)
    \/ \E size \in Sizes, ttl \in TTLs : SetBegin(g, size, ttl)
    \/ SetInsert(g) \/ Evict(g)

Next ==
    \/ \E g \in Callers :
          \/ \E k \in Keys : GetRead(g, k) \/ SetCall(g, k) \/ Delete(g, k)
          \/ Clear(g) \/ Step(g)
    \/ Tick

Spec == Init /\ [][Next]_vars

\* Goroutines run, and Go's mutexes starve nobody.
Fairness == \A g \in Callers : SF_vars(Step(g))

FairSpec == Spec /\ Fairness

-----------------------------------------------------------------------------
\* The entries a Set can create and a Get can touch.
Expiries == {0} \cup UNION {{t + ttl : t \in 1 .. MaxTime} : ttl \in TTLs}
AnyEntry ==
    [id : 1 .. MaxSets, size : Sizes, AccessedAt : 1 .. MaxTime, ExpiresAt : Expiries]

TypeOK ==
    /\ entries \in [Keys -> AnyEntry \cup {NoEntry}]
    /\ entry \in [Callers -> AnyEntry \cup {NoEntry}]
    /\ currentSize \in Nat /\ ItemCount \in Nat /\ Size \in Nat
    /\ mu \in Callers \cup {Nobody}
    /\ locks \in [Keys -> Callers \cup {Nobody}]
    /\ clock \in 1 .. MaxTime /\ created \in 0 .. MaxSets
    /\ pc \in [Callers -> {"idle", "check", "expire", "miss", "touch",
                           "keylock", "insert", "evict"}]
    /\ key \in [Callers -> Keys \cup {NoKey}]

\* The bytes of a map's values, each as its key and its place in the value.
Bytes(m) == UNION {{k} \X (1 .. m[k].size) : k \in Stored(m)}

\* The counters that decide about eviction agree with the map at every step,
\* in the middle of an eviction too, and the published size with them as soon
\* as c.mu is free.
Accounting ==
    /\ ItemCount = Cardinality(Present)
    /\ currentSize = Cardinality(Bytes(entries))
    /\ mu = Nobody => Size = currentSize

InOperation(g) == pc[g] # "idle"

\* Every operation that began returns, and what waits for it goes on, as long
\* as the key "" is not in the cache: evictions end, and the key locks, c.mu
\* and the read lock are always let go again.
OperationsReturnOrEmptyKey ==
    \A g \in Callers : InOperation(g) ~> ~InOperation(g) \/ "" \in Present

\* README.md:14, "LRU eviction": every operation returns, whatever the keys; a
\* full cache evicts and goes on.
OperationsReturn == \A g \in Callers : InOperation(g) ~> ~InOperation(g)

=============================================================================
