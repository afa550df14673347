------------------------------- MODULE MCCache -------------------------------
(***************************************************************************)
(* The caches of pkg/cache.  A behaviour follows a MemoryCache, which is   *)
(* shown to implement LRUCache, or a TieredCache, and leaves the other     *)
(* alone.                                                                  *)
(***************************************************************************)
EXTENDS MemoryCache, TieredCache

VARIABLES
    part,           \* the cache this behaviour is about
    visible         \* history: the entries as of the last time c.mu was free

cacheRunVars == <<part, visible, vars, tieredVars>>

CacheInit ==
    /\ part \in {"memory", "tiered"}
    /\ Init /\ TieredInit
    /\ visible = entries
    /\ part = "memory" => noop = {}

MemoryStep ==
    /\ part = "memory"
    /\ Next
    /\ visible' = IF mu' = Nobody THEN entries' ELSE visible
    /\ UNCHANGED <<part, tieredVars>>

TieredStep == part = "tiered" /\ TieredNext /\ UNCHANGED <<part, visible, vars>>

\* MemoryCache's Fairness; nothing is assumed of the TieredCache.
CacheSpec ==
    /\ CacheInit /\ [][MemoryStep \/ TieredStep]_cacheRunVars
    /\ \A g \in Callers : SF_vars(part = "memory" /\ Step(g))

-----------------------------------------------------------------------------
Fits(s) == ~OverLimit(Cardinality(Bytes(s)), Cardinality(Stored(s)))

\* evictLRU takes "" for no key, and then not always the oldest entry.
HasEmptyKey(s) == "" \in Keys /\ s[""].id # 0

Abstract == INSTANCE LRUCache WITH
    StoreKeys <- Keys, Entries <- AnyEntry, Instants <- 1 .. MaxTime,
    Unordered <- HasEmptyKey, store <- visible

\* Seen through c.mu, the MemoryCache is an LRUCache: every critical section,
\* an eviction of several steps included, is one operation of it, which evicts
\* no more than needed and the least recently used first.
ImplementsLRU == Abstract!StoreSpec

=============================================================================
