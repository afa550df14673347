----------------------------- MODULE TieredCache -----------------------------
(***************************************************************************)
(* TieredCache of pkg/cache/cache.go over two caches.  An operation of the *)
(* TieredCache is one operation of l1 and then one of l2 (Get: l1, l2 and  *)
(* l1 again), with nothing held between them.  Each tier is a MemoryCache, *)
(* of which only this matters here: an operation is one step, an entry is  *)
(* gone after its ttl, and may be evicted at any time; or a NoOpCache.     *)
(***************************************************************************)
EXTENDS Integers

CONSTANTS
    TierUsers,       \* goroutines
    TierKeys,        \* keys
    TierTTLs,        \* ttl of a Set, 0 for none
    Hour,            \* the ttl of a promotion
    MaxWrites,       \* bound of the model: Sets
    MaxNow           \* bound of the model: the clock stops here

ASSUME TieredAssumption ==
    TierTTLs \subseteq Nat /\ {Hour, MaxWrites, MaxNow} \subseteq Nat

VARIABLES
    noop,            \* the tiers that are NoOpCaches
    tier,            \* tier[1] is l1, tier[2] is l2: key -> entry
    op,              \* what each goroutine is doing
    now,             \* time.Now()
    writes,          \* values written; a value is the number of its Set
    latest,          \* history: the value of the last Set, 0 after a Delete
    contested,       \* history: a write overlapped another operation on the key
    lost             \* history: l2 evicted the key since it was last set

tieredVars == <<noop, tier, op, now, writes, latest, contested, lost>>

\* An entry; due is when the ttl of its Set ends, which a promotion ignores.
NoValue == [value |-> 0, expires |-> 0, due |-> 0, promoted |-> FALSE]
IdleOp == [at |-> "idle", key |-> "", entry |-> NoValue, ttl |-> 0]
Live(e) == e.value # 0 /\ (e.expires = 0 \/ now <= e.expires)
Deadline(ttl) == IF ttl > 0 THEN now + ttl ELSE 0

TieredInit ==
    /\ noop \in SUBSET {1, 2}
    /\ tier = [i \in {1, 2} |-> [k \in TierKeys |-> NoValue]]
    /\ op = [u \in TierUsers |-> IdleOp]
    /\ now = 1 /\ writes = 0
    /\ latest = [k \in TierKeys |-> 0]
    /\ contested = [k \in TierKeys |-> FALSE]
    /\ lost = [k \in TierKeys |-> FALSE]

\* Set of one tier; NoOpCache.Set keeps nothing.
StoreIn(i, k, e) ==
    tier' = IF i \in noop THEN tier ELSE [tier EXCEPT ![i][k] = e]

\* The users inside an operation on k; a Clear is one on every key.
Busy(k) == {u \in TierUsers :
              op[u].at = "clear" \/ (op[u].at # "idle" /\ op[u].key = k)}
Writing(k) == {u \in Busy(k) : op[u].at \in {"set", "delete", "clear"}}

\* History of a write that begins: it will replace what is there, unless
\* something else is going on.
BeginWrite(keys, value) ==
    /\ latest' = [k \in TierKeys |-> IF k \in keys THEN value ELSE latest[k]]
    /\ contested' = [k \in TierKeys |-> IF k \in keys THEN Busy(k) # {} ELSE contested[k]]
    /\ lost' = [k \in TierKeys |-> k \notin keys /\ lost[k]]

-----------------------------------------------------------------------------
\* Get: a hit in l1 returns and changes nothing; a miss goes on to l2.
TieredGet(u, k) ==
    /\ op[u].at = "idle" /\ ~Live(tier[1][k])
    /\ op' = [op EXCEPT ![u] = [IdleOp EXCEPT !.at = "get", !.key = k]]
    /\ contested' = [contested EXCEPT ![k] = @ \/ Writing(k) # {}]
    /\ UNCHANGED <<noop, tier, now, writes, latest, lost>>

\* Get: l2.Get; a hit is promoted, a miss returns the error.
GetL2(u) ==
    /\ op[u].at = "get"
    /\ op' = [op EXCEPT ![u] =
                 IF Live(tier[2][op[u].key])
                 THEN [op[u] EXCEPT !.at = "promote", !.entry = tier[2][op[u].key]]
                 ELSE IdleOp]
    /\ UNCHANGED <<noop, tier, now, writes, latest, contested, lost>>

\* Get: l1.Set(ctx, key, value, time.Hour).
Promote(u) ==
    /\ op[u].at = "promote"
    /\ StoreIn(1, op[u].key,
               [op[u].entry EXCEPT !.expires = Deadline(Hour), !.promoted = TRUE])
    /\ op' = [op EXCEPT ![u] = IdleOp]
    /\ UNCHANGED <<noop, now, writes, latest, contested, lost>>

NewEntry(value, ttl) ==
    [value |-> value, expires |-> Deadline(ttl), due |-> Deadline(ttl), promoted |-> FALSE]

\* Set: l1.Set ...
TieredSet(u, k, ttl) ==
    /\ op[u].at = "idle" /\ writes < MaxWrites
    /\ writes' = writes + 1
    /\ StoreIn(1, k, NewEntry(writes', ttl))
    /\ op' = [op EXCEPT ![u] = [at |-> "set", key |-> k, ttl |-> ttl,
                                entry |-> [NoValue EXCEPT !.value = writes']]]
    /\ BeginWrite({k}, writes')
    /\ UNCHANGED <<noop, now>>

\* ... and l2.Set, which reads the clock again.
SetL2(u) ==
    /\ op[u].at = "set"
    /\ StoreIn(2, op[u].key, NewEntry(op[u].entry.value, op[u].ttl))
    /\ op' = [op EXCEPT ![u] = IdleOp]
    /\ UNCHANGED <<noop, now, writes, latest, contested, lost>>

\* Delete: l1.Delete ...
TieredDelete(u, k) ==
    /\ op[u].at = "idle"
    /\ tier' = [tier EXCEPT ![1][k] = NoValue]
    /\ op' = [op EXCEPT ![u] = [IdleOp EXCEPT !.at = "delete", !.key = k]]
    /\ BeginWrite({k}, 0)
    /\ UNCHANGED <<noop, now, writes>>

\* Mutant of DeleteL2: the second level is forgotten.
DeleteL2_Forgotten(u) ==
    /\ op[u].at = "delete"
    /\ op' = [op EXCEPT ![u] = IdleOp]
    /\ UNCHANGED <<noop, tier, now, writes, latest, contested, lost>>

\* ... and l2.Delete.
DeleteL2(u) ==
    /\ op[u].at = "delete"
    /\ tier' = [tier EXCEPT ![2][op[u].key] = NoValue]
    /\ op' = [op EXCEPT ![u] = IdleOp]
    /\ UNCHANGED <<noop, now, writes, latest, contested, lost>>

\* Clear: l1.Clear ...
TieredClear(u) ==
    /\ op[u].at = "idle"
    /\ tier' = [tier EXCEPT ![1] = [k \in TierKeys |-> NoValue]]
    /\ op' = [op EXCEPT ![u] = [IdleOp EXCEPT !.at = "clear"]]
    /\ BeginWrite(TierKeys, 0)
    /\ UNCHANGED <<noop, now, writes>>

\* ... and l2.Clear.
ClearL2(u) ==
    /\ op[u].at = "clear"
    /\ tier' = [tier EXCEPT ![2] = [k \in TierKeys |-> NoValue]]
    /\ op' = [op EXCEPT ![u] = IdleOp]
    /\ UNCHANGED <<noop, now, writes, latest, contested, lost>>

\* A tier evicts an entry, or removes it after its ttl.
TierEvicts(i, k) ==
    /\ tier[i][k] # NoValue
    /\ tier' = [tier EXCEPT ![i][k] = NoValue]
    /\ lost' = [lost EXCEPT ![k] = @ \/ i = 2]
    /\ UNCHANGED <<noop, op, now, writes, latest, contested>>

TimePasses ==
    /\ now < MaxNow
    /\ now' = now + 1
    /\ UNCHANGED <<noop, tier, op, writes, latest, contested, lost>>

TieredNext ==
    \/ \E u \in TierUsers :
          \/ \E k \in TierKeys : TieredGet(u, k) \/ TieredDelete(u, k)
          \/ \E k \in TierKeys, ttl \in TierTTLs : TieredSet(u, k, ttl)
          \/ GetL2(u) \/ Promote(u) \/ SetL2(u) \/ DeleteL2(u) \/ TieredClear(u) \/ ClearL2(u)
    \/ \E i \in {1, 2}, k \in TierKeys : TierEvicts(i, k)
    \/ TimePasses

TieredSpec == TieredInit /\ [][TieredNext]_tieredVars

-----------------------------------------------------------------------------
\* Whenever nobody works on a key, both tiers hold the value of its last Set or
\* nothing, and l2 does hold it unless it was evicted; except after a write
\* that overlapped another operation on the key, until a write comes that
\* overlaps none.  (Overlapped by a Get, a deleted value is promoted again.)
\* A value is served past the ttl of its Set only out of l1 and only after a
\* Get has promoted it.
TierCoherent ==
    \A k \in TierKeys :
        /\ Busy(k) = {} /\ ~contested[k] =>
              /\ \A i \in {1, 2} : tier[i][k].value \in {0, latest[k]}
              /\ latest[k] # 0 /\ ~lost[k] /\ 2 \notin noop => tier[2][k].value = latest[k]
        /\ \A i \in {1, 2} :
              LET e == tier[i][k] IN
              Live(e) /\ e.due # 0 /\ now > e.due => i = 1 /\ e.promoted

=============================================================================
