------------------------------ MODULE LRUCache ------------------------------
(***************************************************************************)
(* What pkg/cache promises of a cache with limits, as one who sees it only *)
(* through its lock: a map of entries that always fits the limits, in      *)
(* which a Set stores one entry and removes others only as far as needed   *)
(* and the least recently used first.  MemoryCache implements it.          *)
(***************************************************************************)
EXTENDS Integers

CONSTANTS
    StoreKeys,       \* keys
    Entries,         \* entries, with the field AccessedAt
    NoEntry,         \* no entry under this key
    Instants,        \* times
    Fits(_),         \* whether a store is within the limits
    Unordered(_)     \* stores of which the order of eviction is not promised

VARIABLE store       \* key -> entry

Held(s) == {k \in StoreKeys : s[k] # NoEntry}

Without(s, removed) == [k \in StoreKeys |-> IF k \in removed THEN NoEntry ELSE s[k]]

StoreInit == store = [k \in StoreKeys |-> NoEntry]

\* Everything removed was used no later than everything kept.
OldestFirst(full, removed) ==
    \A d \in removed, r \in Held(full) \ removed : full[d].AccessedAt <= full[r].AccessedAt

\* A Set of key k that evicts some keys, which may include k.
Put(k, evicted) ==
    /\ \A j \in StoreKeys \ {k} : store'[j] = IF j \in evicted THEN NoEntry ELSE store[j]
    /\ \E e \in IF k \in evicted THEN Entries ELSE Entries \cap {store'[k]} :
          LET full == [store EXCEPT ![k] = e] IN
          /\ evicted \subseteq Held(full)
          /\ store' = Without(full, evicted)
          /\ Fits(store')
          /\ evicted = {} \/ \E last \in evicted : ~Fits(Without(full, evicted \ {last}))
          /\ Unordered(full) \/ OldestFirst(full, evicted)

\* A Get that found the entry.
Use(k, now) ==
    /\ k \in Held(store) /\ now >= store[k].AccessedAt
    /\ store' = [store EXCEPT ![k].AccessedAt = now]

\* A Delete, or a Get that found the entry expired.
Remove(k) == store' = Without(store, {k})

RemoveAll == store' = Without(store, StoreKeys)

StoreNext ==
    \/ \E k \in StoreKeys :
          \/ Remove(k)
          \/ \E now \in Instants : Use(k, now)
          \/ \E evicted \in SUBSET StoreKeys : Put(k, evicted)
    \/ RemoveAll

StoreSpec == StoreInit /\ [][StoreNext]_store

=============================================================================
