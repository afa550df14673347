----------------------------- MODULE CacheProofs -----------------------------
(***************************************************************************)
(* The caches, for every number of goroutines and keys, all sizes, limits  *)
(* and ttls: TierCoherent of TieredCache, and below it Accounting of       *)
(* MemoryCache and that MemoryCache implements LRUCache.                   *)
(***************************************************************************)
EXTENDS MCCache, FiniteSetTheorems, TLAPS

(***************************************************************************)
(* TierCoherent speaks of keys nobody works on; the invariant says what a  *)
(* key looks like in between.  As long as no write was overlapped, either  *)
(* no write is under way and the tiers, and the Gets about to promote,     *)
(* have the last value (Settled); or one is, alone, and l1 has its value   *)
(* already (HalfWritten).                                                  *)
(***************************************************************************)

\* Entries and operations.
EntryRecord == [value : Nat, expires : Nat, due : Nat, promoted : BOOLEAN]
OpRecord == [at : {"idle", "get", "promote", "set", "delete", "clear"},
             key : TierKeys \cup {""}, entry : EntryRecord, ttl : Nat]

\* The types of the variables; only a Clear has no key.
TieredTypeOK ==
    /\ noop \in SUBSET {1, 2}
    /\ tier \in [{1, 2} -> [TierKeys -> EntryRecord]]
    /\ op \in [TierUsers -> OpRecord]
    /\ \A u \in TierUsers : op[u].at \in {"get", "promote", "set", "delete"}
                              => op[u].key \in TierKeys
    /\ now \in Nat /\ writes \in Nat
    /\ latest \in [TierKeys -> Nat]
    /\ contested \in [TierKeys -> BOOLEAN]
    /\ lost \in [TierKeys -> BOOLEAN]

\* An entry that was not promoted expires when its ttl ends; l2 has only such.
Honest(k) ==
    /\ \A i \in {1, 2} : ~tier[i][k].promoted => tier[i][k].expires = tier[i][k].due
    /\ ~tier[2][k].promoted
    /\ \A i \in noop : tier[i][k].value = 0

\* No write is under way: the tiers and the Gets have the last value.
Settled(k) ==
    /\ \A i \in {1, 2} : tier[i][k].value \in {0, latest[k]}
    /\ latest[k] # 0 /\ ~lost[k] /\ 2 \notin noop => tier[2][k].value = latest[k]
    /\ \A u \in Busy(k) : op[u].at = "promote" => op[u].entry.value = latest[k]

\* A write is under way and nothing else: l1 has been written.
HalfWritten(k, w) ==
    /\ Busy(k) = {w}
    /\ tier[1][k].value \in {0, latest[k]}
    /\ op[w].at = "set" => op[w].entry.value = latest[k]
    /\ op[w].at # "set" => latest[k] = 0

\* What the tiers hold of a key, and when: the inductive invariant of one key.
KeyInv(k) ==
    /\ Honest(k)
    /\ ~contested[k] => /\ Writing(k) = {} => Settled(k)
                        /\ \A w \in Writing(k) : HalfWritten(k, w)

\* The inductive invariant.
TieredInv == TieredTypeOK /\ \A k \in TierKeys : KeyInv(k)

\* The empty entry.
LEMMA Empty ==
  /\ NoValue \in EntryRecord /\ NoValue.value = 0
  /\ NoValue.expires = NoValue.due /\ ~NoValue.promoted
  BY DEF NoValue, EntryRecord

\* A step of u that is about other keys.
LEMMA OtherKey ==
  ASSUME TieredTypeOK, NEW k \in TierKeys, KeyInv(k), NEW u \in TierUsers,
         noop' = noop, tier'[1][k] = tier[1][k], tier'[2][k] = tier[2][k],
         latest'[k] = latest[k], contested'[k] = contested[k], lost'[k] = lost[k],
         \A v \in TierUsers : v # u => op'[v] = op[v],
         u \notin Busy(k), u \notin Busy(k)'
  PROVE  KeyInv(k)'
  <1>1. Busy(k)' = Busy(k) /\ Writing(k)' = Writing(k)
    <2>1. Busy(k)' = Busy(k)
      BY DEF Busy
    <2>2. \A v \in Busy(k) : op'[v] = op[v]
      BY DEF Busy
    <2> QED
      BY <2>1, <2>2 DEF Writing
  <1>2. \A v \in Busy(k) : op'[v] = op[v]
    BY DEF Busy
  <1>3. \A i \in {1, 2} : tier'[i][k] = tier[i][k]
    OBVIOUS
  <1>4. Honest(k)'
    BY <1>3 DEF KeyInv, Honest, TieredTypeOK
  <1>5. Settled(k) => Settled(k)'
    BY <1>1, <1>2, <1>3 DEF Settled
  <1>6. \A w \in Writing(k) : HalfWritten(k, w) => HalfWritten(k, w)'
    BY <1>1, <1>2, <1>3 DEF HalfWritten, Writing
  <1> QED
    BY <1>1, <1>4, <1>5, <1>6 DEF KeyInv

\* StoreIn writes one entry of one tier, or none.
LEMMA Stores ==
  ASSUME TieredTypeOK, NEW i \in {1, 2}, NEW k \in TierKeys, NEW e \in EntryRecord,
         StoreIn(i, k, e)
  PROVE  /\ tier' \in [{1, 2} -> [TierKeys -> EntryRecord]]
         /\ tier'[i][k] = IF i \in noop THEN tier[i][k] ELSE e
         /\ \A j \in {1, 2}, x \in TierKeys : j # i \/ x # k => tier'[j][x] = tier[j][x]
  <1>1. CASE i \in noop
    BY <1>1 DEF StoreIn, TieredTypeOK
  <1>2. CASE i \notin noop
    <2>1. tier' = [tier EXCEPT ![i][k] = e]
      BY <1>2 DEF StoreIn
    <2> QED
      BY <1>2, <2>1 DEF TieredTypeOK
  <1> QED
    BY <1>1, <1>2

\* Get, when l1 has nothing: the Get is one more operation on the key, and a
\* write under way becomes a contested one.
LEMMA GetInv ==
  ASSUME TieredInv, NEW u \in TierUsers, NEW k \in TierKeys, TieredGet(u, k)
  PROVE  TieredInv'
  <1> USE DEF TieredInv
  <1> DEFINE o == [IdleOp EXCEPT !.at = "get", !.key = k]
  <1>1. /\ op[u].at = "idle" /\ op' = [op EXCEPT ![u] = o]
        /\ UNCHANGED <<noop, tier, now, writes, latest, lost>>
        /\ contested' = [contested EXCEPT ![k] = contested[k] \/ Writing(k) # {}]
    BY DEF TieredGet
  <1>2. o \in OpRecord /\ o.at = "get" /\ o.key = k
    BY Empty DEF IdleOp, OpRecord
  <1> HIDE DEF o
  <1>3. op'[u] = o /\ \A v \in TierUsers : v # u => op'[v] = op[v]
    BY <1>1 DEF TieredTypeOK
  <1>4. /\ contested' \in [TierKeys -> BOOLEAN]
        /\ \A j \in TierKeys : j # k => contested'[j] = contested[j]
        /\ ~contested'[k] => ~contested[k] /\ Writing(k) = {}
    BY <1>1 DEF TieredTypeOK
  <1>5. TieredTypeOK'
    BY <1>1, <1>2, <1>3, <1>4 DEF TieredTypeOK
  <1>6. ASSUME NEW j \in TierKeys, j # k
        PROVE  KeyInv(j)'
    <2>1. u \notin Busy(j) /\ u \notin Busy(j)'
      BY <1>1, <1>2, <1>3, <1>6 DEF Busy
    <2> QED
      BY <1>1, <1>3, <1>4, <1>6, <2>1, OtherKey
  <1>7. KeyInv(k)'
    <2>1. Honest(k)'
      BY <1>1 DEF KeyInv, Honest
    <2>2. CASE contested'[k]
      BY <2>1, <2>2 DEF KeyInv
    <2>3. CASE ~contested'[k]
      <3>1. Busy(k)' = Busy(k) \cup {u} /\ Writing(k)' = {}
        <4>1. Busy(k)' = Busy(k) \cup {u}
          BY <1>1, <1>2, <1>3 DEF Busy
        <4> QED
          BY <1>2, <1>3, <1>4, <2>3, <4>1 DEF Writing, Busy
      <3>2. Settled(k)
        BY <1>4, <2>3 DEF KeyInv
      <3>3. Settled(k)'
        BY <1>1, <1>2, <1>3, <3>1, <3>2 DEF Settled
      <3> QED
        BY <2>1, <3>1, <3>3 DEF KeyInv
    <2> QED
      BY <2>2, <2>3
  <1> QED
    BY <1>5, <1>6, <1>7

\* Get reads l2: what it takes along to promote is the last value, if no write
\* overlaps.
LEMMA GetL2Inv ==
  ASSUME TieredInv, NEW u \in TierUsers, GetL2(u)
  PROVE  TieredInv'
  <1> USE DEF TieredInv
  <1>0. PICK k \in TierKeys : k = op[u].key
    BY DEF GetL2, TieredTypeOK
  <1>1. /\ op[u].at = "get"
        /\ UNCHANGED <<noop, tier, now, writes, latest, contested, lost>>
        /\ \A v \in TierUsers : v # u => op'[v] = op[v]
    BY DEF GetL2, TieredTypeOK
  <1>2. /\ op' \in [TierUsers -> OpRecord]
        /\ \/ op'[u].at = "idle"
           \/ /\ op'[u].at = "promote" /\ op'[u].key = k
              /\ op'[u].entry.value = tier[2][k].value /\ tier[2][k].value # 0
    <2>1. CASE Live(tier[2][k])
      <3>1. op' = [op EXCEPT ![u] = [op[u] EXCEPT !.at = "promote", !.entry = tier[2][k]]]
        BY <1>0, <2>1 DEF GetL2
      <3>2. op[u] \in OpRecord /\ tier[2][k] \in EntryRecord
        BY DEF TieredTypeOK
      <3>3. [op[u] EXCEPT !.at = "promote", !.entry = tier[2][k]] \in OpRecord
        BY <3>2 DEF OpRecord
      <3>4. op'[u] = [op[u] EXCEPT !.at = "promote", !.entry = tier[2][k]]
        BY <3>1 DEF TieredTypeOK
      <3>5. /\ op'[u].at = "promote" /\ op'[u].key = k /\ op'[u].entry = tier[2][k]
        BY <1>0, <3>2, <3>4 DEF OpRecord
      <3> QED
        BY <2>1, <3>1, <3>3, <3>5 DEF Live, TieredTypeOK
    <2>2. CASE ~Live(tier[2][k])
      <3>1. op' = [op EXCEPT ![u] = IdleOp]
        BY <1>0, <2>2 DEF GetL2
      <3>2. IdleOp \in OpRecord /\ IdleOp.at = "idle"
        BY Empty DEF IdleOp, OpRecord
      <3> QED
        BY <3>1, <3>2 DEF TieredTypeOK
    <2> QED
      BY <2>1, <2>2
  <1>3. TieredTypeOK'
    BY <1>1, <1>2 DEF TieredTypeOK
  <1>4. ASSUME NEW j \in TierKeys, j # k
        PROVE  KeyInv(j)'
    <2>1. u \notin Busy(j) /\ u \notin Busy(j)'
      BY <1>0, <1>1, <1>2, <1>4 DEF Busy
    <2> QED
      BY <1>1, <1>4, <2>1, OtherKey
  <1>5. KeyInv(k)'
    <2>1. Honest(k)'
      BY <1>1 DEF KeyInv, Honest
    <2>2. u \in Busy(k) /\ Busy(k)' \subseteq Busy(k) /\ u \notin Writing(k)
      BY <1>0, <1>1, <1>2 DEF Busy, Writing
    <2>3. ~contested[k] => Writing(k) = {}
      BY <2>2 DEF KeyInv, HalfWritten, Writing
    <2>4. Writing(k)' = Writing(k)
      BY <1>1, <1>2, <2>2 DEF Writing, Busy
    <2>5. Settled(k) => Settled(k)'
      <3>1. ASSUME Settled(k), NEW v \in Busy(k)', op'[v].at = "promote"
            PROVE  op'[v].entry.value = latest[k]
        <4>1. CASE v = u
          BY <1>2, <3>1, <4>1 DEF Settled
        <4>2. CASE v # u
          BY <1>1, <2>2, <3>1, <4>2 DEF Settled, Busy
        <4> QED
          BY <4>1, <4>2
      <3> QED
        BY <1>1, <3>1 DEF Settled
    <2> QED
      BY <1>1, <2>1, <2>3, <2>4, <2>5 DEF KeyInv
  <1> QED
    BY <1>3, <1>4, <1>5

\* An operation returns: its goroutine is idle, and the others go on.
LEMMA Ends ==
  ASSUME TieredTypeOK, NEW u \in TierUsers, op' = [op EXCEPT ![u] = IdleOp]
  PROVE  /\ op' \in [TierUsers -> OpRecord] /\ op'[u].at = "idle"
         /\ \A v \in TierUsers : v # u => op'[v] = op[v]
         /\ \A k \in TierKeys : /\ Busy(k)' = Busy(k) \ {u}
                                /\ Writing(k)' = Writing(k) \ {u}
  <1>2. IdleOp \in OpRecord /\ IdleOp.at = "idle"
    BY Empty DEF IdleOp, OpRecord
  <1>3. /\ op' \in [TierUsers -> OpRecord] /\ op'[u].at = "idle"
        /\ \A v \in TierUsers : v # u => op'[v] = op[v]
    BY <1>2 DEF TieredTypeOK
  <1>4. ASSUME NEW k \in TierKeys
        PROVE  Busy(k)' = Busy(k) \ {u} /\ Writing(k)' = Writing(k) \ {u}
    <2>1. Busy(k)' = Busy(k) \ {u}
      BY <1>3 DEF Busy
    <2> QED
      BY <1>3, <2>1 DEF Writing, Busy
  <1> QED
    BY <1>3, <1>4

\* The types after the last step of an operation.
LEMMA EndsTyped ==
  ASSUME TieredTypeOK, NEW u \in TierUsers, op' = [op EXCEPT ![u] = IdleOp],
         tier' \in [{1, 2} -> [TierKeys -> EntryRecord]],
         UNCHANGED <<noop, now, writes, latest, contested, lost>>
  PROVE  TieredTypeOK'
  <1>1. /\ op' \in [TierUsers -> OpRecord] /\ op'[u].at = "idle"
        /\ \A v \in TierUsers : v # u => op'[v] = op[v]
    BY Ends
  <1>2. \A v \in TierUsers : op'[v].at \in {"get", "promote", "set", "delete"}
                              => op'[v].key \in TierKeys
    BY <1>1 DEF TieredTypeOK
  <1> QED
    BY <1>1, <1>2 DEF TieredTypeOK

\* The last step of a write that was alone brings l2 to what l1 has.
LEMMA WriteEnds ==
  ASSUME TieredTypeOK, NEW u \in TierUsers, NEW k \in TierKeys, KeyInv(k),
         u \in Writing(k), op' = [op EXCEPT ![u] = IdleOp],
         UNCHANGED <<noop, latest, contested, lost>>,
         tier'[1][k] = tier[1][k], Honest(k)',
         HalfWritten(k, u) => /\ tier'[2][k].value \in {0, latest[k]}
                              /\ latest[k] # 0 /\ 2 \notin noop =>
                                    tier'[2][k].value = latest[k]
  PROVE  KeyInv(k)'
  <1>1. CASE contested[k]
    BY <1>1 DEF KeyInv
  <1>2. CASE ~contested[k]
    <2>1. HalfWritten(k, u)
      BY <1>2 DEF KeyInv
    <2>2. Busy(k)' = {} /\ Writing(k)' = {}
      <3>1. Busy(k)' = Busy(k) \ {u} /\ Writing(k)' = Writing(k) \ {u}
        BY Ends
      <3>2. Busy(k) = {u}
        BY <2>1 DEF HalfWritten
      <3>3. Writing(k) \in SUBSET Busy(k)
        BY DEF Writing
      <3> QED
        BY <3>1, <3>2, <3>3
    <2>3. Settled(k)'
      BY <2>1, <2>2 DEF Settled, HalfWritten
    <2> QED
      BY <2>2, <2>3 DEF KeyInv
  <1> QED
    BY <1>1, <1>2

\* The first step of a write that finds the key quiet leaves it half written.
LEMMA WriteBegins ==
  ASSUME TieredTypeOK, NEW u \in TierUsers, NEW k \in TierKeys,
         \A v \in TierUsers : v # u => op'[v] = op[v],
         op'[u].at \in {"set", "delete", "clear"}, op'[u].at = "clear" \/ op'[u].key = k,
         contested'[k] = (Busy(k) # {}), Honest(k)',
         tier'[1][k].value \in {0, latest'[k]},
         op'[u].at = "set" => op'[u].entry.value = latest'[k],
         op'[u].at # "set" => latest'[k] = 0
  PROVE  KeyInv(k)'
  <1>1. CASE contested'[k]
    BY <1>1 DEF KeyInv
  <1>2. CASE ~contested'[k]
    <2>1. Busy(k) = {}
      BY <1>2
    <2>2. Busy(k)' = {u}
      BY <2>1 DEF Busy
    <2>3. Writing(k)' = {u}
      BY <2>2 DEF Writing
    <2>4. HalfWritten(k, u)'
      BY <2>2 DEF HalfWritten
    <2> QED
      BY <2>3, <2>4 DEF KeyInv
  <1> QED
    BY <1>1, <1>2

\* What BeginWrite does to the history.
LEMMA Begun ==
  ASSUME TieredTypeOK, NEW keys \in SUBSET TierKeys, NEW value \in Nat,
         BeginWrite(keys, value)
  PROVE  /\ latest' \in [TierKeys -> Nat]
         /\ contested' \in [TierKeys -> BOOLEAN] /\ lost' \in [TierKeys -> BOOLEAN]
         /\ \A k \in keys : latest'[k] = value /\ contested'[k] = (Busy(k) # {})
         /\ \A k \in TierKeys \ keys : /\ latest'[k] = latest[k]
                                       /\ contested'[k] = contested[k]
                                       /\ lost'[k] = lost[k]
  BY DEF BeginWrite, TieredTypeOK

\* Get stores the value of l2 in l1.
LEMMA PromoteInv ==
  ASSUME TieredInv, NEW u \in TierUsers, Promote(u)
  PROVE  TieredInv'
  <1> USE DEF TieredInv
  <1>0. PICK k \in TierKeys : k = op[u].key
    BY DEF Promote, TieredTypeOK
  <1> DEFINE e == [op[u].entry EXCEPT !.expires = Deadline(Hour), !.promoted = TRUE]
  <1>1. /\ op[u].at = "promote" /\ StoreIn(1, k, e) /\ op' = [op EXCEPT ![u] = IdleOp]
        /\ UNCHANGED <<noop, now, writes, latest, contested, lost>>
    BY <1>0 DEF Promote
  <1>2. op[u].entry \in EntryRecord
    BY DEF TieredTypeOK, OpRecord
  <1>3. e \in EntryRecord /\ e.value = op[u].entry.value /\ e.promoted
    <2>1. Deadline(Hour) \in Nat
      BY TieredAssumption DEF Deadline, TieredTypeOK
    <2> QED
      BY <1>2, <2>1 DEF EntryRecord
  <1> HIDE DEF e
  <1>4. /\ tier' \in [{1, 2} -> [TierKeys -> EntryRecord]]
        /\ tier'[1][k] = IF 1 \in noop THEN tier[1][k] ELSE e
        /\ \A j \in {1, 2}, x \in TierKeys : j # 1 \/ x # k => tier'[j][x] = tier[j][x]
    BY <1>1, <1>3, Stores
  <1>5. TieredTypeOK'
    BY <1>1, <1>4, EndsTyped
  <1>6. ASSUME NEW j \in TierKeys, j # k
        PROVE  KeyInv(j)'
    <2>1. u \notin Busy(j) /\ u \notin Busy(j)'
      BY <1>0, <1>1, <1>6, Ends DEF Busy
    <2> QED
      BY <1>1, <1>4, <1>6, <2>1, Ends, OtherKey
  <1>7. KeyInv(k)'
    <2>1. Honest(k)'
      <3>1. CASE 1 \in noop
        BY <1>1, <1>4, <3>1 DEF KeyInv, Honest, TieredTypeOK
      <3>2. CASE 1 \notin noop
        <4>1. tier'[1][k] = e /\ tier'[2][k] = tier[2][k]
          BY <1>4, <3>2
        <4> QED
          BY <1>1, <1>3, <3>2, <4>1 DEF KeyInv, Honest, TieredTypeOK
      <3> QED
        BY <3>1, <3>2
    <2>2. u \in Busy(k) /\ u \notin Writing(k)
      BY <1>0, <1>1 DEF Busy, Writing
    <2>3. ~contested[k] => Writing(k) = {}
      BY <2>2 DEF KeyInv, HalfWritten, Writing
    <2>4. Busy(k)' = Busy(k) \ {u} /\ Writing(k)' = Writing(k)
      <3>1. Busy(k)' = Busy(k) \ {u} /\ Writing(k)' = Writing(k) \ {u}
        BY <1>1, Ends
      <3> QED
        BY <2>2, <3>1
    <2>5. Settled(k) => Settled(k)'
      <3> SUFFICES ASSUME Settled(k) PROVE Settled(k)'
        OBVIOUS
      <3>1. \A i \in {1, 2} : tier'[i][k].value \in {0, latest[k]}
        BY <1>1, <1>3, <1>4, <2>2 DEF Settled
      <3>2. \A v \in Busy(k)' : op'[v] = op[v] /\ v \in Busy(k)
        BY <1>1, <2>4, Ends DEF Busy
      <3> QED
        BY <1>1, <1>4, <3>1, <3>2 DEF Settled
    <2> QED
      BY <1>1, <2>1, <2>3, <2>4, <2>5 DEF KeyInv
  <1> QED
    BY <1>5, <1>6, <1>7

\* Set writes l1: half of a write.
LEMMA SetInv ==
  ASSUME TieredInv, NEW u \in TierUsers, NEW k \in TierKeys, NEW ttl \in TierTTLs,
         TieredSet(u, k, ttl)
  PROVE  TieredInv'
  <1> USE DEF TieredInv
  <1> DEFINE n == writes + 1
             e == NewEntry(n, ttl)
             o == [at |-> "set", key |-> k, ttl |-> ttl,
                   entry |-> [NoValue EXCEPT !.value = n]]
  <1>1. /\ op[u].at = "idle" /\ writes' = n /\ StoreIn(1, k, e)
        /\ op' = [op EXCEPT ![u] = o] /\ BeginWrite({k}, n) /\ UNCHANGED <<noop, now>>
    BY DEF TieredSet, NewEntry, Deadline
  <1>2. n \in Nat /\ ttl \in Nat
    BY TieredAssumption DEF TieredTypeOK
  <1>3. /\ e \in EntryRecord /\ e.value = n /\ ~e.promoted /\ e.expires = e.due
        /\ [NoValue EXCEPT !.value = n] \in EntryRecord
        /\ [NoValue EXCEPT !.value = n].value = n
    <2>1. Deadline(ttl) \in Nat
      BY <1>2 DEF Deadline, TieredTypeOK
    <2> QED
      BY <1>2, <2>1 DEF NewEntry, EntryRecord, NoValue
  <1>4. o \in OpRecord /\ o.at = "set" /\ o.key = k /\ o.entry.value = n
    BY <1>2, <1>3 DEF OpRecord
  <1> HIDE DEF e, o, n
  <1>5. /\ tier' \in [{1, 2} -> [TierKeys -> EntryRecord]]
        /\ tier'[1][k] = IF 1 \in noop THEN tier[1][k] ELSE e
        /\ \A j \in {1, 2}, x \in TierKeys : j # 1 \/ x # k => tier'[j][x] = tier[j][x]
    BY <1>1, <1>3, Stores
  <1>6. op'[u] = o /\ \A v \in TierUsers : v # u => op'[v] = op[v]
    BY <1>1 DEF TieredTypeOK
  <1>7. /\ latest' \in [TierKeys -> Nat]
        /\ contested' \in [TierKeys -> BOOLEAN] /\ lost' \in [TierKeys -> BOOLEAN]
        /\ latest'[k] = n /\ contested'[k] = (Busy(k) # {})
        /\ \A x \in TierKeys \ {k} : /\ latest'[x] = latest[x]
                                      /\ contested'[x] = contested[x]
                                      /\ lost'[x] = lost[x]
    <2>1. {k} \in SUBSET TierKeys
      OBVIOUS
    <2>2. /\ latest' \in [TierKeys -> Nat]
          /\ contested' \in [TierKeys -> BOOLEAN] /\ lost' \in [TierKeys -> BOOLEAN]
          /\ \A x \in {k} : latest'[x] = n /\ contested'[x] = (Busy(x) # {})
      BY <1>1, <1>2, <2>1, Begun
    <2>3. \A x \in TierKeys \ {k} : /\ latest'[x] = latest[x]
                                    /\ contested'[x] = contested[x]
                                    /\ lost'[x] = lost[x]
      BY <1>1, <1>2, <2>1, Begun
    <2> QED
      BY <2>2, <2>3
  <1>8. TieredTypeOK'
    BY <1>1, <1>2, <1>4, <1>5, <1>6, <1>7 DEF TieredTypeOK
  <1>9. ASSUME NEW j \in TierKeys, j # k
        PROVE  KeyInv(j)'
    <2>1. u \notin Busy(j) /\ u \notin Busy(j)'
      BY <1>1, <1>4, <1>6, <1>9 DEF Busy
    <2> QED
      BY <1>1, <1>5, <1>6, <1>7, <1>9, <2>1, OtherKey
  <1>10. KeyInv(k)'
    <2>1. Honest(k)'
      <3>1. CASE 1 \in noop
        BY <1>1, <1>5, <3>1 DEF KeyInv, Honest, TieredTypeOK
      <3>2. CASE 1 \notin noop
        <4>1. tier'[1][k] = e /\ tier'[2][k] = tier[2][k]
          BY <1>5, <3>2
        <4> QED
          BY <1>1, <1>3, <3>2, <4>1 DEF KeyInv, Honest, TieredTypeOK
      <3> QED
        BY <3>1, <3>2
    <2>2. tier'[1][k].value \in {0, latest'[k]}
      BY <1>3, <1>5, <1>7 DEF KeyInv, Honest
    <2> QED
      BY <1>4, <1>6, <1>7, <2>1, <2>2, WriteBegins
  <1> QED
    BY <1>8, <1>9, <1>10

\* A tier that loses an entry stays honest.
LEMMA HonestAfter ==
  ASSUME NEW k \in TierKeys, Honest(k), noop' = noop, noop \in SUBSET {1, 2},
         \A i \in {1, 2} : tier'[i][k] = tier[i][k] \/ tier'[i][k] = NoValue
  PROVE  Honest(k)'
  <1>1. ASSUME NEW i \in {1, 2}
        PROVE  /\ ~tier'[i][k].promoted => tier'[i][k].expires = tier'[i][k].due
               /\ tier[i][k].value = 0 => tier'[i][k].value = 0
               /\ ~tier[i][k].promoted => ~tier'[i][k].promoted
    <2>1. CASE tier'[i][k] = tier[i][k]
      BY <2>1 DEF Honest
    <2>2. CASE tier'[i][k] = NoValue
      BY <2>2, Empty
    <2> QED
      BY <2>1, <2>2
  <1> QED
    BY <1>1 DEF Honest

\* Set writes l2 and ends.
LEMMA SetL2Inv ==
  ASSUME TieredInv, NEW u \in TierUsers, SetL2(u)
  PROVE  TieredInv'
  <1> USE DEF TieredInv
  <1>0. PICK k \in TierKeys : k = op[u].key
    BY DEF SetL2, TieredTypeOK
  <1> DEFINE e == NewEntry(op[u].entry.value, op[u].ttl)
  <1>1. /\ op[u].at = "set" /\ StoreIn(2, k, e) /\ op' = [op EXCEPT ![u] = IdleOp]
        /\ UNCHANGED <<noop, now, writes, latest, contested, lost>>
    BY <1>0 DEF SetL2
  <1>2. op[u].entry.value \in Nat /\ op[u].ttl \in Nat
    BY DEF TieredTypeOK, OpRecord, EntryRecord
  <1>3. e \in EntryRecord /\ e.value = op[u].entry.value /\ ~e.promoted /\ e.expires = e.due
    <2>1. Deadline(op[u].ttl) \in Nat
      BY <1>2 DEF Deadline, TieredTypeOK
    <2> QED
      BY <1>2, <2>1 DEF NewEntry, EntryRecord
  <1> HIDE DEF e
  <1>4. /\ tier' \in [{1, 2} -> [TierKeys -> EntryRecord]]
        /\ tier'[2][k] = IF 2 \in noop THEN tier[2][k] ELSE e
        /\ \A j \in {1, 2}, x \in TierKeys : j # 2 \/ x # k => tier'[j][x] = tier[j][x]
    BY <1>1, <1>3, Stores
  <1>5. TieredTypeOK'
    BY <1>1, <1>4, EndsTyped
  <1>6. ASSUME NEW j \in TierKeys, j # k
        PROVE  KeyInv(j)'
    <2>1. u \notin Busy(j) /\ u \notin Busy(j)'
      BY <1>0, <1>1, <1>6, Ends DEF Busy
    <2> QED
      BY <1>1, <1>4, <1>6, <2>1, Ends, OtherKey
  <1>7. KeyInv(k)'
    <2>1. u \in Writing(k) /\ KeyInv(k) /\ tier'[1][k] = tier[1][k]
      BY <1>0, <1>1, <1>4 DEF Busy, Writing
    <2>2. CASE 2 \in noop
      <3>1. tier'[2][k] = tier[2][k] /\ tier[2][k].value = 0
        BY <1>4, <2>1, <2>2 DEF KeyInv, Honest
      <3>2. Honest(k)'
        BY <1>1, <2>1, <3>1, HonestAfter DEF KeyInv, TieredTypeOK
      <3> QED
        BY <1>1, <2>1, <2>2, <3>1, <3>2, WriteEnds
    <2>3. CASE 2 \notin noop
      <3>1. tier'[2][k] = e
        BY <1>4, <2>3
      <3>2. Honest(k)'
        BY <1>1, <1>3, <2>1, <2>3, <3>1 DEF KeyInv, Honest, TieredTypeOK
      <3>3. HalfWritten(k, u) => tier'[2][k].value = latest[k]
        BY <1>1, <1>3, <3>1 DEF HalfWritten
      <3> QED
        BY <1>1, <2>1, <3>2, <3>3, WriteEnds
    <2> QED
      BY <2>2, <2>3
  <1> QED
    BY <1>5, <1>6, <1>7

\* Delete removes the key from l1: half of a write.
LEMMA DeleteInv ==
  ASSUME TieredInv, NEW u \in TierUsers, NEW k \in TierKeys, TieredDelete(u, k)
  PROVE  TieredInv'
  <1> USE DEF TieredInv
  <1> DEFINE o == [IdleOp EXCEPT !.at = "delete", !.key = k]
  <1>1. /\ op[u].at = "idle" /\ op' = [op EXCEPT ![u] = o]
        /\ tier' = [tier EXCEPT ![1][k] = NoValue]
        /\ BeginWrite({k}, 0) /\ UNCHANGED <<noop, now, writes>>
    BY DEF TieredDelete
  <1>2. o \in OpRecord /\ o.at = "delete" /\ o.key = k
    BY Empty DEF IdleOp, OpRecord
  <1> HIDE DEF o
  <1>3. op'[u] = o /\ \A v \in TierUsers : v # u => op'[v] = op[v]
    BY <1>1 DEF TieredTypeOK
  <1>4. /\ tier' \in [{1, 2} -> [TierKeys -> EntryRecord]] /\ tier'[1][k] = NoValue
        /\ \A j \in {1, 2}, x \in TierKeys : j # 1 \/ x # k => tier'[j][x] = tier[j][x]
    BY <1>1, Empty DEF TieredTypeOK
  <1>5. /\ latest' \in [TierKeys -> Nat]
        /\ contested' \in [TierKeys -> BOOLEAN] /\ lost' \in [TierKeys -> BOOLEAN]
        /\ latest'[k] = 0 /\ contested'[k] = (Busy(k) # {})
        /\ \A x \in TierKeys \ {k} : /\ latest'[x] = latest[x]
                                      /\ contested'[x] = contested[x]
                                      /\ lost'[x] = lost[x]
    <2>1. {k} \in SUBSET TierKeys /\ 0 \in Nat
      OBVIOUS
    <2>2. /\ latest' \in [TierKeys -> Nat]
          /\ contested' \in [TierKeys -> BOOLEAN] /\ lost' \in [TierKeys -> BOOLEAN]
          /\ \A x \in {k} : latest'[x] = 0 /\ contested'[x] = (Busy(x) # {})
      BY <1>1, <2>1, Begun
    <2>3. \A x \in TierKeys \ {k} : /\ latest'[x] = latest[x]
                                    /\ contested'[x] = contested[x]
                                    /\ lost'[x] = lost[x]
      BY <1>1, <2>1, Begun
    <2> QED
      BY <2>2, <2>3
  <1>6. TieredTypeOK'
    BY <1>1, <1>2, <1>3, <1>4, <1>5 DEF TieredTypeOK
  <1>7. ASSUME NEW j \in TierKeys, j # k
        PROVE  KeyInv(j)'
    <2>1. u \notin Busy(j) /\ u \notin Busy(j)'
      BY <1>1, <1>2, <1>3, <1>7 DEF Busy
    <2> QED
      BY <1>1, <1>3, <1>4, <1>5, <1>7, <2>1, OtherKey
  <1>8. KeyInv(k)'
    <2>1. Honest(k)'
      BY <1>1, <1>4, HonestAfter DEF KeyInv, TieredTypeOK
    <2> QED
      BY <1>2, <1>3, <1>4, <1>5, <2>1, Empty, WriteBegins
  <1> QED
    BY <1>6, <1>7, <1>8

\* Delete removes the key from l2 and ends.
LEMMA DeleteL2Inv ==
  ASSUME TieredInv, NEW u \in TierUsers, DeleteL2(u)
  PROVE  TieredInv'
  <1> USE DEF TieredInv
  <1>0. PICK k \in TierKeys : k = op[u].key
    BY DEF DeleteL2, TieredTypeOK
  <1>1. /\ op[u].at = "delete" /\ op' = [op EXCEPT ![u] = IdleOp]
        /\ tier' = [tier EXCEPT ![2][k] = NoValue]
        /\ UNCHANGED <<noop, now, writes, latest, contested, lost>>
    BY <1>0 DEF DeleteL2
  <1>2. /\ tier' \in [{1, 2} -> [TierKeys -> EntryRecord]] /\ tier'[2][k] = NoValue
        /\ \A j \in {1, 2}, x \in TierKeys : j # 2 \/ x # k => tier'[j][x] = tier[j][x]
    BY <1>1, Empty DEF TieredTypeOK
  <1>3. TieredTypeOK'
    BY <1>1, <1>2, EndsTyped
  <1>4. ASSUME NEW j \in TierKeys, j # k
        PROVE  KeyInv(j)'
    <2>1. u \notin Busy(j) /\ u \notin Busy(j)'
      BY <1>0, <1>1, <1>4, Ends DEF Busy
    <2> QED
      BY <1>1, <1>2, <1>4, <2>1, Ends, OtherKey
  <1>5. KeyInv(k)'
    <2>1. u \in Writing(k) /\ KeyInv(k) /\ tier'[1][k] = tier[1][k] /\ tier'[2][k].value = 0
      BY <1>0, <1>1, <1>2, Empty DEF Busy, Writing
    <2>2. Honest(k)'
      BY <1>1, <1>2, HonestAfter DEF KeyInv, TieredTypeOK
    <2>3. HalfWritten(k, u) => latest[k] = 0
      BY <1>1 DEF HalfWritten
    <2> QED
      BY <1>1, <2>1, <2>2, <2>3, WriteEnds
  <1> QED
    BY <1>3, <1>4, <1>5

\* Clear empties l1: half of a write of every key.
LEMMA ClearInv ==
  ASSUME TieredInv, NEW u \in TierUsers, TieredClear(u)
  PROVE  TieredInv'
  <1> USE DEF TieredInv
  <1> DEFINE o == [IdleOp EXCEPT !.at = "clear"]
  <1>1. /\ op[u].at = "idle" /\ op' = [op EXCEPT ![u] = o]
        /\ tier' = [tier EXCEPT ![1] = [k \in TierKeys |-> NoValue]]
        /\ BeginWrite(TierKeys, 0) /\ UNCHANGED <<noop, now, writes>>
    BY DEF TieredClear
  <1>2. o \in OpRecord /\ o.at = "clear"
    BY Empty DEF IdleOp, OpRecord
  <1> HIDE DEF o
  <1>3. op'[u] = o /\ \A v \in TierUsers : v # u => op'[v] = op[v]
    BY <1>1 DEF TieredTypeOK
  <1>4. /\ tier' \in [{1, 2} -> [TierKeys -> EntryRecord]]
        /\ \A k \in TierKeys : tier'[1][k] = NoValue /\ tier'[2][k] = tier[2][k]
    BY <1>1, Empty DEF TieredTypeOK
  <1>5. /\ latest' \in [TierKeys -> Nat]
        /\ contested' \in [TierKeys -> BOOLEAN] /\ lost' \in [TierKeys -> BOOLEAN]
        /\ \A k \in TierKeys : latest'[k] = 0 /\ contested'[k] = (Busy(k) # {})
    <2>1. TierKeys \in SUBSET TierKeys /\ 0 \in Nat
      OBVIOUS
    <2> QED
      BY <1>1, <2>1, Begun
  <1>6. TieredTypeOK'
    BY <1>1, <1>2, <1>3, <1>4, <1>5 DEF TieredTypeOK
  <1>7. ASSUME NEW k \in TierKeys
        PROVE  KeyInv(k)'
    <2>1. Honest(k)'
      BY <1>1, <1>4, HonestAfter DEF KeyInv, TieredTypeOK
    <2> QED
      BY <1>2, <1>3, <1>4, <1>5, <2>1, Empty, WriteBegins
  <1> QED
    BY <1>6, <1>7

\* Clear empties l2 and ends.
LEMMA ClearL2Inv ==
  ASSUME TieredInv, NEW u \in TierUsers, ClearL2(u)
  PROVE  TieredInv'
  <1> USE DEF TieredInv
  <1>1. /\ op[u].at = "clear" /\ op' = [op EXCEPT ![u] = IdleOp]
        /\ tier' = [tier EXCEPT ![2] = [k \in TierKeys |-> NoValue]]
        /\ UNCHANGED <<noop, now, writes, latest, contested, lost>>
    BY DEF ClearL2
  <1>2. /\ tier' \in [{1, 2} -> [TierKeys -> EntryRecord]]
        /\ \A k \in TierKeys : tier'[1][k] = tier[1][k] /\ tier'[2][k] = NoValue
    BY <1>1, Empty DEF TieredTypeOK
  <1>3. TieredTypeOK'
    BY <1>1, <1>2, EndsTyped
  <1>4. ASSUME NEW k \in TierKeys
        PROVE  KeyInv(k)'
    <2>1. u \in Writing(k) /\ KeyInv(k) /\ tier'[2][k].value = 0
      BY <1>1, <1>2, Empty DEF Busy, Writing
    <2>2. Honest(k)'
      BY <1>1, <1>2, HonestAfter DEF KeyInv, TieredTypeOK
    <2>3. HalfWritten(k, u) => latest[k] = 0
      BY <1>1 DEF HalfWritten
    <2> QED
      BY <1>1, <1>2, <2>1, <2>2, <2>3, WriteEnds
  <1> QED
    BY <1>3, <1>4

\* An eviction, at any time, in either tier.
LEMMA EvictsInv ==
  ASSUME TieredInv, NEW i \in {1, 2}, NEW k \in TierKeys, TierEvicts(i, k)
  PROVE  TieredInv'
  <1> USE DEF TieredInv
  <1>1. /\ tier' = [tier EXCEPT ![i][k] = NoValue]
        /\ lost' = [lost EXCEPT ![k] = lost[k] \/ i = 2]
        /\ UNCHANGED <<noop, op, now, writes, latest, contested>>
    BY DEF TierEvicts
  <1>2. /\ tier' \in [{1, 2} -> [TierKeys -> EntryRecord]] /\ tier'[i][k] = NoValue
        /\ \A j \in {1, 2}, x \in TierKeys : j # i \/ x # k => tier'[j][x] = tier[j][x]
    BY <1>1, Empty DEF TieredTypeOK
  <1>3. /\ lost' \in [TierKeys -> BOOLEAN]
        /\ \A x \in TierKeys : x # k => lost'[x] = lost[x]
        /\ ~lost'[k] => ~lost[k] /\ i # 2
    BY <1>1 DEF TieredTypeOK
  <1>4. TieredTypeOK'
    BY <1>1, <1>2, <1>3 DEF TieredTypeOK
  <1>5. ASSUME NEW x \in TierKeys
        PROVE  KeyInv(x)'
    <2>1. Honest(x)'
      BY <1>1, <1>2, HonestAfter DEF KeyInv, TieredTypeOK
    <2>2. Busy(x)' = Busy(x) /\ Writing(x)' = Writing(x)
      BY <1>1 DEF Busy, Writing
    <2>3. \A j \in {1, 2} : tier'[j][x].value \in {0, tier[j][x].value}
      BY <1>2, Empty
    <2>4. ~lost'[x] => ~lost[x] /\ tier'[2][x] = tier[2][x]
      BY <1>2, <1>3
    <2>5. Settled(x) => Settled(x)'
      BY <1>1, <2>2, <2>3, <2>4 DEF Settled
    <2>6. \A w \in Writing(x) : HalfWritten(x, w) => HalfWritten(x, w)'
      BY <1>1, <2>2, <2>3 DEF HalfWritten
    <2> QED
      BY <1>1, <2>1, <2>2, <2>5, <2>6 DEF KeyInv
  <1> QED
    BY <1>4, <1>5

\* Every step keeps the invariant.
LEMMA TieredNextInv == TieredInv /\ [TieredNext]_tieredVars => TieredInv'
  <1> SUFFICES ASSUME TieredInv, [TieredNext]_tieredVars
               PROVE  TieredInv'
    OBVIOUS
  <1>1. CASE TimePasses \/ UNCHANGED tieredVars
    <2>1. UNCHANGED <<noop, tier, op, writes, latest, contested, lost>> /\ now' \in Nat
      BY <1>1 DEF TimePasses, tieredVars, TieredInv, TieredTypeOK
    <2>2. TieredTypeOK'
      BY <2>1 DEF TieredInv, TieredTypeOK
    <2>3. \A k \in TierKeys : KeyInv(k)'
      BY <2>1 DEF TieredInv, KeyInv, Honest, Settled, HalfWritten, Busy, Writing
    <2> QED
      BY <2>2, <2>3 DEF TieredInv
  <1> QED
    BY <1>1, GetInv, GetL2Inv, PromoteInv, SetInv, SetL2Inv, DeleteInv, DeleteL2Inv,
       ClearInv, ClearL2Inv, EvictsInv
    DEF TieredNext

\* The invariant holds in every reachable state of the tiered cache.
THEOREM TieredInvariance == TieredSpec => []TieredInv
  <1>1. TieredInit => TieredInv
    <2> SUFFICES ASSUME TieredInit PROVE TieredInv
      OBVIOUS
    <2>1. IdleOp \in OpRecord /\ IdleOp.at = "idle"
      BY Empty DEF IdleOp, OpRecord
    <2>2. TieredTypeOK
      BY <2>1, Empty DEF TieredInit, TieredTypeOK
    <2>3. ASSUME NEW k \in TierKeys PROVE KeyInv(k)
      <3>1. tier[1][k] = NoValue /\ tier[2][k] = NoValue
        BY DEF TieredInit
      <3>2. Busy(k) = {} /\ Writing(k) = {}
        BY <2>1 DEF TieredInit, Busy, Writing
      <3>3. Honest(k)
        BY <3>1, Empty DEF Honest, TieredInit
      <3>4. Settled(k)
        BY <3>1, <3>2, Empty DEF Settled, TieredInit
      <3> QED
        BY <3>2, <3>3, <3>4 DEF KeyInv
    <2> QED
      BY <2>2, <2>3 DEF TieredInv
  <1> QED
    BY <1>1, TieredNextInv, PTL DEF TieredSpec

\* A key that nobody works on, and whose last write was not overlapped, has its
\* last value or nothing in both tiers, and has it in l2 unless l2 evicted it;
\* a value outlives its ttl only in l1 and after a promotion (TieredCache.Get,
\* Set, Delete and Clear of cache.go).
THEOREM TierCoherentCorrect == TieredSpec => []TierCoherent
  <1>1. TieredInv => TierCoherent
    <2> SUFFICES ASSUME TieredInv, NEW k \in TierKeys
                 PROVE  /\ Busy(k) = {} /\ ~contested[k] =>
                             /\ \A i \in {1, 2} : tier[i][k].value \in {0, latest[k]}
                             /\ latest[k] # 0 /\ ~lost[k] /\ 2 \notin noop =>
                                   tier[2][k].value = latest[k]
                        /\ \A i \in {1, 2} :
                             (/\ Live(tier[i][k]) /\ tier[i][k].due # 0
                              /\ now > tier[i][k].due)
                             => i = 1 /\ tier[i][k].promoted
      BY DEF TierCoherent
    <2>1. KeyInv(k)
      BY DEF TieredInv
    <2>2. Busy(k) = {} => Writing(k) = {}
      BY DEF Writing
    <2>3. ASSUME NEW i \in {1, 2},
                 Live(tier[i][k]), tier[i][k].due # 0, now > tier[i][k].due
          PROVE  i = 1 /\ tier[i][k].promoted
      <3>1. tier[i][k].due \in Nat /\ tier[i][k].expires \in Nat /\ now \in Nat
        BY DEF TieredInv, TieredTypeOK, EntryRecord
      <3>2. tier[i][k].expires # tier[i][k].due
        BY <2>3, <3>1 DEF Live
      <3> QED
        BY <2>1, <3>2 DEF KeyInv, Honest
    <2> QED
      BY <2>1, <2>2, <2>3 DEF KeyInv, Settled
  <1> QED
    BY <1>1, TieredInvariance, PTL
(***************************************************************************)
(* MemoryCache.  MemoryInv is inductive: the counters agree with the map   *)
(* (Counted), c.mu is held by the Set that evicts and nobody else          *)
(* (HolderEvicts), a goroutine past its first step has a key and an entry  *)
(* (HasEntry), nothing was used in the future (Past), and the Sets that    *)
(* wait were counted against the bound (Promised).                         *)
(***************************************************************************)

\* The maps of entries.
EntryMaps == [Keys -> AnyEntry \cup {NoEntry}]

\* The counters agree with the map, which is finite.
Counted ==
    /\ IsFiniteSet(Present) /\ IsFiniteSet(Bytes(entries))
    /\ Accounting

\* c.mu is held over several steps by the Set that evicts, if there is one.
HolderEvicts == \A g \in Callers : pc[g] = "evict" <=> mu = g

\* What a goroutine in the middle of an operation works on.
HasEntry ==
    \A g \in Callers :
        /\ pc[g] # "idle" => key[g] \in Keys
        /\ pc[g] \in {"check", "expire", "touch", "insert", "evict"} =>
              entry[g] \in AnyEntry

\* No entry was used later than now.
Past ==
    /\ \A k \in Keys : entries[k].AccessedAt <= clock
    /\ \A g \in Callers : entry[g].AccessedAt <= clock

\* The Sets that wait for their key's lock.
Waiting == {g \in Callers : pc[g] = "keylock"}

\* The entries created and those about to be stay within the bound.
Promised == IsFiniteSet(Waiting) /\ created + Cardinality(Waiting) <= MaxSets

\* The inductive invariant of MemoryCache.
MemoryInv == TypeOK /\ Counted /\ HolderEvicts /\ HasEntry /\ Past /\ Promised

\* The assumptions on the numbers.
LEMMA CacheBounds ==
  /\ Sizes \subseteq Nat /\ TTLs \subseteq Nat
  /\ MaxTime \in Nat /\ MaxTime # 0 /\ MaxSets \in Nat
  BY CacheAssumption, Zenon

\* An entry of the map, or none.
LEMMA EntryFacts ==
  ASSUME NEW e \in AnyEntry \cup {NoEntry}
  PROVE  /\ e.id \in Nat /\ e.size \in Nat /\ e.AccessedAt \in Nat
         /\ e.id = 0 <=> e = NoEntry
         /\ e.id # 0 <=> e \in AnyEntry
         /\ NoEntry.id = 0 /\ NoEntry.size = 0 /\ NoEntry.AccessedAt = 0
  <1>1. NoEntry.id = 0 /\ NoEntry.size = 0 /\ NoEntry.AccessedAt = 0
    BY DEF NoEntry
  <1>2. e \in AnyEntry => /\ e.id \in Nat \ {0} /\ e.size \in Nat
                          /\ e.AccessedAt \in Nat
    <2> SUFFICES ASSUME e \in AnyEntry
                 PROVE  e.id \in Nat \ {0} /\ e.size \in Nat /\ e.AccessedAt \in Nat
      OBVIOUS
    <2>1. e.id \in 1 .. MaxSets /\ e.size \in Sizes /\ e.AccessedAt \in 1 .. MaxTime
      BY DEF AnyEntry
    <2>2. e.id \in Nat \ {0}
      BY <2>1, CacheBounds
    <2>3. e.size \in Nat
      BY <2>1, CacheBounds
    <2>4. e.AccessedAt \in Nat
      BY <2>1, CacheBounds
    <2> QED
      BY <2>2, <2>3, <2>4
  <1> QED
    BY <1>1, <1>2

\* The keys and the bytes of a map, and of the map without one entry.
LEMMA Split ==
  ASSUME NEW m \in EntryMaps, NEW k \in Keys
  PROVE  LET o == [m EXCEPT ![k] = NoEntry]
             b == {k} \X (1 .. m[k].size)
         IN  /\ k \notin Stored(o)
             /\ Stored(m) = IF m[k].id # 0 THEN Stored(o) \cup {k} ELSE Stored(o)
             /\ Bytes(m) = Bytes(o) \cup b /\ Bytes(o) \cap b = {}
  <1> DEFINE o == [m EXCEPT ![k] = NoEntry]
             b == {k} \X (1 .. m[k].size)
  <1>1. o[k] = NoEntry /\ \A j \in Keys : j # k => o[j] = m[j]
    BY DEF EntryMaps
  <1>2. m[k] \in AnyEntry \cup {NoEntry}
    BY DEF EntryMaps
  <1>3. m[k].id = 0 => b = {}
    <2>1. m[k].id = 0 => m[k].size = 0
      BY <1>2, EntryFacts
    <2> QED
      BY <2>1
  <1>4. /\ k \notin Stored(o)
        /\ Stored(m) = IF m[k].id # 0 THEN Stored(o) \cup {k} ELSE Stored(o)
    BY <1>1, <1>2, EntryFacts DEF Stored
  <1> HIDE DEF o
  <1>5. Bytes(m) = Bytes(o) \cup b
    <2>1. ASSUME NEW x
          PROVE  x \in Bytes(m) <=> \E j \in Stored(m) : x \in {j} \X (1 .. m[j].size)
      BY DEF Bytes
    <2>2. ASSUME NEW x
          PROVE  x \in Bytes(o) <=> \E j \in Stored(o) : x \in {j} \X (1 .. o[j].size)
      BY DEF Bytes
    <2>3. \A j \in Stored(o) : j \in Keys /\ j # k /\ j \in Stored(m) /\ o[j].size = m[j].size
      BY <1>1, <1>4 DEF Stored
    <2>4. \A j \in Stored(m) : j = k \/ j \in Stored(o)
      BY <1>4
    <2>5. ASSUME NEW x, x \in Bytes(m)
          PROVE  x \in Bytes(o) \cup b
      BY <2>1, <2>2, <2>3, <2>4, <2>5
    <2>6. ASSUME NEW x, x \in Bytes(o)
          PROVE  x \in Bytes(m)
      BY <2>1, <2>2, <2>3, <2>6
    <2>7. ASSUME NEW x, x \in b
          PROVE  x \in Bytes(m)
      <3>1. m[k].id # 0
        BY <1>3, <2>7
      <3> QED
        BY <1>4, <2>1, <2>7, <3>1
    <2> HIDE DEF b
    <2> QED
      BY <2>5, <2>6, <2>7
  <1>6. Bytes(o) \cap b = {}
    BY <1>4 DEF Bytes
  <1> QED
    BY <1>4, <1>5, <1>6 DEF o

\* A value has as many bytes as its size says.
LEMMA ValueBytes ==
  ASSUME NEW k, NEW n \in Nat
  PROVE  IsFiniteSet({k} \X (1 .. n)) /\ Cardinality({k} \X (1 .. n)) = n
  <1>1. IsFiniteSet(1 .. n) /\ Cardinality(1 .. n) = n
    BY FS_Interval
  <1>2. IsFiniteSet({k}) /\ Cardinality({k}) = 1
    BY FS_Singleton
  <1>3. 1 * n = n
    OBVIOUS
  <1> QED
    BY <1>1, <1>2, <1>3, FS_Product

\* The map n, made of m by c.entries[k] = e, and its counts.
Recounted(m, k, e, n) ==
    /\ n \in EntryMaps /\ n[k] = e /\ \A j \in Keys : j # k => n[j] = m[j]
    /\ IsFiniteSet(Stored(n)) /\ IsFiniteSet(Bytes(n))
    /\ Cardinality(Stored(n)) = Cardinality(Stored(m))
          - (IF k \in Stored(m) THEN 1 ELSE 0) + (IF e.id # 0 THEN 1 ELSE 0)
    /\ Cardinality(Bytes(n)) = Cardinality(Bytes(m)) - m[k].size + e.size

\* What one assignment c.entries[k] = e does to the counts.
LEMMA Recount ==
  ASSUME NEW m \in EntryMaps, NEW k \in Keys, NEW e \in AnyEntry \cup {NoEntry},
         IsFiniteSet(Stored(m)), IsFiniteSet(Bytes(m)), NEW n, n = [m EXCEPT ![k] = e]
  PROVE  Recounted(m, k, e, n)
  <1> DEFINE o == [m EXCEPT ![k] = NoEntry]
             b == {k} \X (1 .. m[k].size)
             c == {k} \X (1 .. n[k].size)
  <1>1. n \in EntryMaps /\ n[k] = e /\ \A j \in Keys : j # k => n[j] = m[j]
    BY DEF EntryMaps
  <1>2. [n EXCEPT ![k] = NoEntry] = o
    BY DEF EntryMaps
  <1>3. m[k].size \in Nat /\ n[k].size \in Nat /\ m[k].id \in Nat /\ e.id \in Nat
    BY <1>1, EntryFacts DEF EntryMaps
  <1>4. /\ IsFiniteSet(b) /\ Cardinality(b) = m[k].size
        /\ IsFiniteSet(c) /\ Cardinality(c) = n[k].size
    BY <1>3, ValueBytes
  <1>5. /\ k \notin Stored(o)
        /\ Stored(m) = IF m[k].id # 0 THEN Stored(o) \cup {k} ELSE Stored(o)
        /\ Bytes(m) = Bytes(o) \cup b /\ Bytes(o) \cap b = {}
    BY Split
  <1>6. /\ Stored(n) = IF n[k].id # 0 THEN Stored(o) \cup {k} ELSE Stored(o)
        /\ Bytes(n) = Bytes(o) \cup c /\ Bytes(o) \cap c = {}
    <2> HIDE DEF o
    <2> QED
      BY <1>1, <1>2, Split
  <1> HIDE DEF o, b, c
  <1>7. IsFiniteSet(Stored(o)) /\ IsFiniteSet(Bytes(o))
    <2>1. Stored(o) \in SUBSET Stored(m) /\ Bytes(o) \in SUBSET Bytes(m)
      BY <1>5
    <2> QED
      BY <2>1, FS_Subset
  <1>8. PICK s \in Nat : s = Cardinality(Stored(o))
    BY <1>7, FS_CardinalityType
  <1>9. PICK t \in Nat : t = Cardinality(Bytes(o))
    BY <1>7, FS_CardinalityType
  <1>10. Cardinality({}) = 0
    BY FS_EmptySet
  <1>11. /\ IsFiniteSet(Bytes(n)) /\ Cardinality(Bytes(n)) = t + e.size
         /\ Cardinality(Bytes(m)) = t + m[k].size
    <2>1. /\ IsFiniteSet(Bytes(o) \cup c)
          /\ Cardinality(Bytes(o) \cup c)
                = t + Cardinality(c) - Cardinality(Bytes(o) \cap c)
      BY <1>4, <1>7, <1>9, FS_Union
    <2>2. Cardinality(Bytes(o) \cup b) = t + Cardinality(b) - Cardinality(Bytes(o) \cap b)
      BY <1>4, <1>7, <1>9, FS_Union
    <2>3. Cardinality(Bytes(n)) = t + n[k].size - 0 /\ IsFiniteSet(Bytes(n))
      BY <1>4, <1>6, <1>10, <2>1
    <2>4. Cardinality(Bytes(m)) = t + m[k].size - 0
      BY <1>4, <1>5, <1>10, <2>2
    <2> QED
      BY <1>1, <1>3, <2>3, <2>4
  <1>12. IsFiniteSet(Stored(o) \cup {k}) /\ Cardinality(Stored(o) \cup {k}) = s + 1
    BY <1>5, <1>7, <1>8, FS_AddElement
  <1>13. /\ IsFiniteSet(Stored(n))
         /\ Cardinality(Stored(n)) = IF e.id # 0 THEN s + 1 ELSE s
    BY <1>1, <1>6, <1>7, <1>8, <1>12
  <1>14. Cardinality(Stored(m)) = IF k \in Stored(m) THEN s + 1 ELSE s
    BY <1>5, <1>8, <1>12
  <1>15. Cardinality(Stored(n)) = Cardinality(Stored(m))
               - (IF k \in Stored(m) THEN 1 ELSE 0) + (IF e.id # 0 THEN 1 ELSE 0)
    BY <1>13, <1>14
  <1>16. Cardinality(Bytes(n)) = Cardinality(Bytes(m)) - m[k].size + e.size
    BY <1>3, <1>1, <1>11
  <1> QED
    BY <1>1, <1>11, <1>13, <1>15, <1>16 DEF Recounted

\* Where a goroutine can be.
Places == {"idle", "check", "expire", "miss", "touch", "keylock", "insert", "evict"}

\* Goroutine g moves on to place p, with key x and entry e; it may take c.mu or
\* let it go.
Moves(g, p, x, e) ==
    /\ p \in Places /\ x \in Keys \cup {NoKey} /\ e \in AnyEntry \cup {NoEntry}
    /\ pc' = [pc EXCEPT ![g] = p]
    /\ key' = [key EXCEPT ![g] = x]
    /\ entry' = [entry EXCEPT ![g] = e]
    /\ clock' = clock
    /\ p # "idle" => x \in Keys
    /\ p \in {"check", "expire", "touch", "insert", "evict"} => e \in AnyEntry
    /\ e.AccessedAt <= clock
    /\ mu' \in Callers \cup {Nobody}
    /\ p = "evict" <=> mu' = g
    /\ mu' = mu \/ (mu \in {g, Nobody} /\ mu' \in {g, Nobody})

\* What the invariant says of the goroutines, and the Sets that wait counted,
\* after g moved on to place p.
Moved(g, p) ==
    /\ pc' \in [Callers -> Places] /\ key' \in [Callers -> Keys \cup {NoKey}]
    /\ entry' \in [Callers -> AnyEntry \cup {NoEntry}]
    /\ HolderEvicts' /\ HasEntry'
    /\ \A h \in Callers : entry'[h].AccessedAt <= clock'
    /\ IsFiniteSet(Waiting')
    /\ Cardinality(Waiting') + (IF pc[g] = "keylock" THEN 1 ELSE 0)
          = Cardinality(Waiting) + (IF p = "keylock" THEN 1 ELSE 0)

\* A goroutine that moves on keeps the parts of the invariant about goroutines.
LEMMA CallerMoves ==
  ASSUME MemoryInv, NEW g \in Callers, NEW p, NEW x, NEW e, Moves(g, p, x, e)
  PROVE  Moved(g, p)
  <1> USE DEF MemoryInv, Moves
  <1>0. Nobody \notin Callers
    BY CacheAssumption, Zenon DEF Nobody
  <1>1. /\ pc \in [Callers -> Places] /\ key \in [Callers -> Keys \cup {NoKey}]
        /\ entry \in [Callers -> AnyEntry \cup {NoEntry}]
    BY DEF TypeOK, Places
  <1>2. /\ pc' \in [Callers -> Places] /\ key' \in [Callers -> Keys \cup {NoKey}]
        /\ entry' \in [Callers -> AnyEntry \cup {NoEntry}]
    BY <1>1
  <1>3. /\ pc'[g] = p /\ key'[g] = x /\ entry'[g] = e
        /\ \A h \in Callers : h # g => pc'[h] = pc[h] /\ key'[h] = key[h] /\ entry'[h] = entry[h]
    BY <1>1
  <1>4. HolderEvicts'
    <2> SUFFICES ASSUME NEW h \in Callers PROVE pc'[h] = "evict" <=> mu' = h
      BY DEF HolderEvicts
    <2>1. CASE h = g
      BY <1>3, <2>1
    <2>2. CASE h # g
      BY <1>0, <1>3, <2>2 DEF HolderEvicts
    <2> QED
      BY <2>1, <2>2
  <1>5. HasEntry'
    BY <1>3 DEF HasEntry
  <1>6. \A h \in Callers : entry'[h].AccessedAt <= clock'
    BY <1>3 DEF Past
  <1>7. g \in Waiting <=> pc[g] = "keylock"
    BY DEF Waiting
  <1>8. IsFiniteSet(Waiting)
    BY DEF Promised
  <1>9. PICK n \in Nat : n = Cardinality(Waiting)
    BY <1>8, FS_CardinalityType
  <1>10. ASSUME p = "keylock"
         PROVE  /\ IsFiniteSet(Waiting')
                /\ Cardinality(Waiting') + (IF pc[g] = "keylock" THEN 1 ELSE 0)
                      = Cardinality(Waiting) + 1
    <2>1. Waiting' = Waiting \cup {g}
      BY <1>3, <1>10 DEF Waiting
    <2>2. /\ IsFiniteSet(Waiting \cup {g})
          /\ Cardinality(Waiting \cup {g}) = IF g \in Waiting THEN n ELSE n + 1
      BY <1>8, <1>9, FS_AddElement
    <2> QED
      BY <1>7, <1>9, <1>10, <2>1, <2>2
  <1>11. ASSUME p # "keylock"
         PROVE  /\ IsFiniteSet(Waiting')
                /\ Cardinality(Waiting') + (IF pc[g] = "keylock" THEN 1 ELSE 0)
                      = Cardinality(Waiting) + 0
    <2>1. Waiting' = Waiting \ {g}
      BY <1>3, <1>11 DEF Waiting
    <2>2. /\ IsFiniteSet(Waiting \ {g})
          /\ Cardinality(Waiting \ {g}) = IF g \in Waiting THEN n - 1 ELSE n
      BY <1>8, <1>9, FS_RemoveElement
    <2> QED
      BY <1>7, <1>9, <1>11, <2>1, <2>2
  <1>12. /\ IsFiniteSet(Waiting')
         /\ Cardinality(Waiting') + (IF pc[g] = "keylock" THEN 1 ELSE 0)
               = Cardinality(Waiting) + (IF p = "keylock" THEN 1 ELSE 0)
    BY <1>10, <1>11
  <1> QED
    BY <1>2, <1>4, <1>5, <1>6, <1>12 DEF Moved

\* Nothing changes but what one entry of the map is, and the counters with it.
LEMMA Reassigned ==
  ASSUME TypeOK, Counted, NEW k \in Keys, NEW e \in AnyEntry \cup {NoEntry},
         entries' = [entries EXCEPT ![k] = e],
         currentSize' = currentSize - entries[k].size + e.size,
         ItemCount' = ItemCount - (IF k \in Present THEN 1 ELSE 0)
                                + (IF e.id # 0 THEN 1 ELSE 0)
  PROVE  /\ entries' \in EntryMaps /\ entries'[k] = e
         /\ \A j \in Keys : j # k => entries'[j] = entries[j]
         /\ IsFiniteSet(Present') /\ IsFiniteSet(Bytes(entries'))
         /\ ItemCount' = Cardinality(Present') /\ ItemCount' \in Nat
         /\ currentSize' = Cardinality(Bytes(entries')) /\ currentSize' \in Nat
  <1>1. entries \in EntryMaps /\ IsFiniteSet(Stored(entries)) /\ IsFiniteSet(Bytes(entries))
    BY DEF TypeOK, Counted, Present, EntryMaps
  <1>2. /\ ItemCount = Cardinality(Stored(entries)) /\ currentSize = Cardinality(Bytes(entries))
        /\ (k \in Present <=> k \in Stored(entries))
    BY DEF Counted, Accounting, Present
  <1>3. /\ entries' \in EntryMaps /\ entries'[k] = e
        /\ \A j \in Keys : j # k => entries'[j] = entries[j]
        /\ IsFiniteSet(Stored(entries')) /\ IsFiniteSet(Bytes(entries'))
        /\ Cardinality(Stored(entries')) = Cardinality(Stored(entries))
              - (IF k \in Stored(entries) THEN 1 ELSE 0) + (IF e.id # 0 THEN 1 ELSE 0)
        /\ Cardinality(Bytes(entries'))
              = Cardinality(Bytes(entries)) - entries[k].size + e.size
    <2>1. PICK n : n = entries'
      OBVIOUS
    <2>2. PICK m \in EntryMaps : m = entries
      BY <1>1
    <2>3. Recounted(m, k, e, n)
      <3>1. n = [m EXCEPT ![k] = e]
        BY <2>1, <2>2
      <3>2. IsFiniteSet(Stored(m)) /\ IsFiniteSet(Bytes(m))
        BY <1>1, <2>2
      <3> QED
        BY <3>1, <3>2, Recount
    <2> QED
      BY <2>1, <2>2, <2>3 DEF Recounted
  <1>4. Cardinality(Stored(entries')) \in Nat /\ Cardinality(Bytes(entries')) \in Nat
    BY <1>3, FS_CardinalityType
  <1>5. /\ ItemCount' = Cardinality(Stored(entries'))
        /\ currentSize' = Cardinality(Bytes(entries'))
    BY <1>2, <1>3
  <1>6. Present' = Stored(entries')
    BY DEF Present, Stored
  <1> QED
    BY <1>3, <1>4, <1>5, <1>6

\* A step of g that touches neither the map nor the counters nor c.mu.
LEMMA QuietStep ==
  ASSUME MemoryInv, NEW g \in Callers, NEW p, NEW x, NEW e, Moves(g, p, x, e),
         UNCHANGED <<cacheVars, mu>>, locks' \in [Keys -> Callers \cup {Nobody}],
         created' \in Nat,
         created' + (IF p = "keylock" THEN 1 ELSE 0) + Cardinality(Waiting)
            <= MaxSets + (IF pc[g] = "keylock" THEN 1 ELSE 0)
  PROVE  MemoryInv'
  <1>1. Moved(g, p)
    BY CallerMoves
  <1>2. UNCHANGED <<entries, currentSize, ItemCount, Size, mu, clock>>
    BY DEF cacheVars, Moves
  <1>3. PICK n \in Nat, w \in Nat : n = Cardinality(Waiting) /\ w = Cardinality(Waiting')
    BY <1>1, FS_CardinalityType DEF MemoryInv, Promised, Moved
  <1>4. Promised' /\ created' \in 0 .. MaxSets
    <2>1. created' + w <= MaxSets
      BY <1>1, <1>3, CacheBounds DEF Moved
    <2> QED
      BY <1>1, <1>3, <2>1, CacheBounds DEF Promised, Moved
  <1>5. TypeOK'
    BY <1>1, <1>2, <1>4 DEF MemoryInv, TypeOK, Moved, Places
  <1>6. Counted'
    BY <1>2 DEF MemoryInv, Counted, Accounting, Present, Stored, Bytes
  <1>7. Past'
    BY <1>1, <1>2 DEF MemoryInv, Past, Moved
  <1> QED
    BY <1>1, <1>4, <1>5, <1>6, <1>7 DEF MemoryInv, Moved

\* c.mu is free, and nobody is Nobody.
LEMMA NotHolder ==
  ASSUME MemoryInv, NEW g \in Callers
  PROVE  /\ g # Nobody /\ Nobody \notin Callers
         /\ pc[g] # "evict" <=> mu # g
         /\ created \in Nat /\ created + Cardinality(Waiting) <= MaxSets
         /\ IsFiniteSet(Waiting) /\ Cardinality(Waiting) \in Nat
         /\ key[g] \in Keys \cup {NoKey} /\ entry[g] \in AnyEntry \cup {NoEntry}
         /\ key' = key => key' = [key EXCEPT ![g] = key[g]]
         /\ entry' = entry => entry' = [entry EXCEPT ![g] = entry[g]]
         /\ entry[g].AccessedAt <= clock /\ clock \in Nat
  <1>1. Nobody \notin Callers
    BY CacheAssumption, Zenon DEF Nobody
  <1>2. IsFiniteSet(Waiting) /\ Cardinality(Waiting) \in Nat
    BY FS_CardinalityType DEF MemoryInv, Promised
  <1>3. created \in Nat /\ created + Cardinality(Waiting) <= MaxSets /\ clock \in Nat
    BY CacheBounds DEF MemoryInv, TypeOK, Promised
  <1>4. /\ key[g] \in Keys \cup {NoKey} /\ entry[g] \in AnyEntry \cup {NoEntry}
        /\ key' = key => key' = [key EXCEPT ![g] = key[g]]
        /\ entry' = entry => entry' = [entry EXCEPT ![g] = entry[g]]
    BY DEF MemoryInv, TypeOK
  <1> QED
    BY <1>1, <1>2, <1>3, <1>4 DEF MemoryInv, HolderEvicts, Past

\* Get begins: the entry is read under the read lock.
LEMMA GetReadInv ==
  ASSUME MemoryInv, NEW g \in Callers, NEW k \in Keys, GetRead(g, k)
  PROVE  MemoryInv'
  <1> DEFINE p == IF k \in Present THEN "check" ELSE "miss"
  <1>1. /\ entries[k] \in AnyEntry \cup {NoEntry} /\ entries[k].AccessedAt <= clock
        /\ k \in Present => entries[k] \in AnyEntry
    BY EntryFacts DEF MemoryInv, TypeOK, Past, Present, Stored
  <1>2. Moves(g, p, k, entries[k])
    BY <1>1, NotHolder DEF GetRead, Moves, Places
  <1>3. pc[g] = "idle" /\ UNCHANGED <<cacheVars, mu, locks, created>>
    BY DEF GetRead
  <1>4. p # "keylock"
    OBVIOUS
  <1> HIDE DEF p
  <1>5. locks' \in [Keys -> Callers \cup {Nobody}]
    BY <1>3 DEF MemoryInv, TypeOK
  <1>6. created' \in Nat /\ created' + 0 + Cardinality(Waiting) <= MaxSets + 0
    BY <1>3, NotHolder, CacheBounds
  <1> QED
    BY <1>2, <1>3, <1>4, <1>5, <1>6, QuietStep

\* Get decides, with no lock held.
LEMMA GetCheckInv ==
  ASSUME MemoryInv, NEW g \in Callers, GetCheck(g)
  PROVE  MemoryInv'
  <1> DEFINE p == IF IsExpired(entry[g]) THEN "expire" ELSE "touch"
  <1>1. /\ pc[g] = "check" /\ pc' = [pc EXCEPT ![g] = p]
        /\ UNCHANGED <<cacheVars, mu, locks, clock, created, key, entry>>
    BY DEF GetCheck
  <1>2. p \in {"expire", "touch"}
    OBVIOUS
  <1> HIDE DEF p
  <1>3. key[g] \in Keys /\ entry[g] \in AnyEntry
    BY <1>1 DEF MemoryInv, HasEntry
  <1>4. mu' = mu /\ mu \in Callers \cup {Nobody} /\ mu # g
    BY <1>1, NotHolder DEF MemoryInv, TypeOK
  <1>5. Moves(g, p, key[g], entry[g])
    BY <1>1, <1>2, <1>3, <1>4, NotHolder DEF Moves, Places
  <1>6. locks' \in [Keys -> Callers \cup {Nobody}]
    BY <1>1 DEF MemoryInv, TypeOK
  <1>7. created' \in Nat /\ created' + 0 + Cardinality(Waiting) <= MaxSets + 0
    BY <1>1, NotHolder, CacheBounds
  <1> QED
    BY <1>1, <1>2, <1>5, <1>6, <1>7, QuietStep

\* A goroutine returns, and holds c.mu no more.
LEMMA Returns ==
  ASSUME MemoryInv, NEW g \in Callers, Return(g), clock' = clock, mu' = Nobody,
         mu \in {g, Nobody}
  PROVE  Moves(g, "idle", NoKey, NoEntry)
  <1>1. NoEntry.AccessedAt <= clock
    BY NotHolder, EntryFacts
  <1> QED
    BY <1>1, NotHolder DEF Return, Moves, Places

\* Get counts a miss and returns.
LEMMA GetMissInv ==
  ASSUME MemoryInv, NEW g \in Callers, GetMiss(g)
  PROVE  MemoryInv'
  <1>1. pc[g] = "miss" /\ UNCHANGED <<cacheVars, mu, locks, clock, created>> /\ mu = Nobody
    BY DEF GetMiss
  <1>2. Moves(g, "idle", NoKey, NoEntry)
    BY <1>1, Returns DEF GetMiss
  <1>3. locks' \in [Keys -> Callers \cup {Nobody}]
    BY <1>1 DEF MemoryInv, TypeOK
  <1>4. created' \in Nat /\ created' + 0 + Cardinality(Waiting) <= MaxSets + 0
    BY <1>1, NotHolder, CacheBounds
  <1> QED
    BY <1>1, <1>2, <1>3, <1>4, QuietStep

\* Set goes to wait for its key's lock.
LEMMA SetCallInv ==
  ASSUME MemoryInv, NEW g \in Callers, NEW k \in Keys, SetCall(g, k)
  PROVE  MemoryInv'
  <1>1. /\ pc[g] = "idle" /\ pc' = [pc EXCEPT ![g] = "keylock"]
        /\ key' = [key EXCEPT ![g] = k] /\ entry' = entry
        /\ UNCHANGED <<cacheVars, mu, locks, clock, created>>
        /\ created + Cardinality(Waiting) < MaxSets
    BY DEF SetCall, Waiting
  <1>2. mu' = mu /\ mu \in Callers \cup {Nobody} /\ mu # g
    BY <1>1, NotHolder DEF MemoryInv, TypeOK
  <1>3. Moves(g, "keylock", k, entry[g])
    BY <1>1, <1>2, NotHolder DEF Moves, Places
  <1>4. locks' \in [Keys -> Callers \cup {Nobody}]
    BY <1>1 DEF MemoryInv, TypeOK
  <1>5. created' \in Nat /\ created' + 1 + Cardinality(Waiting) <= MaxSets + 0
    <2>1. PICK n \in Nat, c \in Nat : n = Cardinality(Waiting) /\ c = created
      BY NotHolder
    <2>2. c + n < MaxSets /\ created' = c
      BY <1>1, <2>1
    <2> QED
      BY <2>1, <2>2, CacheBounds
  <1> QED
    BY <1>1, <1>3, <1>4, <1>5, QuietStep

\* Set has its key's lock and makes the entry, within the bound.
LEMMA SetBeginInv ==
  ASSUME MemoryInv, NEW g \in Callers, NEW size \in Sizes, NEW ttl \in TTLs,
         SetBegin(g, size, ttl)
  PROVE  MemoryInv'
  <1> DEFINE e == [id |-> created', size |-> size, AccessedAt |-> clock,
                   ExpiresAt |-> IF ttl > 0 THEN clock + ttl ELSE 0]
  <1>1. /\ pc[g] = "keylock" /\ pc' = [pc EXCEPT ![g] = "insert"]
        /\ entry' = [entry EXCEPT ![g] = e] /\ key' = key
        /\ locks' = [locks EXCEPT ![key[g]] = g]
        /\ UNCHANGED <<cacheVars, mu, clock>>
        /\ created' = created + 1
    BY DEF SetBegin
  <1>2. mu' = mu /\ mu \in Callers \cup {Nobody} /\ mu # g
    BY <1>1, NotHolder DEF MemoryInv, TypeOK
  <1>3. key[g] \in Keys
    BY <1>1 DEF MemoryInv, HasEntry
  <1>4. Cardinality(Waiting) >= 1
    <2>1. Waiting # {}
      BY <1>1 DEF Waiting
    <2> QED
      BY <2>1, NotHolder, FS_EmptySet
  <1>5. e \in AnyEntry /\ e.AccessedAt <= clock
    <2>1. clock \in 1 .. MaxTime
      BY DEF MemoryInv, TypeOK
    <2>2. created' \in 1 .. MaxSets
      <3>1. PICK n \in Nat, c \in Nat : n = Cardinality(Waiting) /\ c = created
        BY NotHolder
      <3>2. c + n <= MaxSets /\ n >= 1 /\ created' = c + 1
        BY <1>1, <1>4, <3>1, NotHolder
      <3> QED
        BY <3>2, CacheBounds
    <2>3. (IF ttl > 0 THEN clock + ttl ELSE 0) \in Expiries
      BY <2>1 DEF Expiries
    <2>4. e \in AnyEntry
      BY <2>1, <2>2, <2>3 DEF AnyEntry
    <2>5. e.AccessedAt = clock /\ clock <= clock
      BY <2>1, CacheBounds
    <2> QED
      BY <2>4, <2>5
  <1> HIDE DEF e
  <1>6. Moves(g, "insert", key[g], e)
    BY <1>1, <1>2, <1>3, <1>5, NotHolder DEF Moves, Places
  <1>7. locks' \in [Keys -> Callers \cup {Nobody}]
    BY <1>1 DEF MemoryInv, TypeOK
  <1>8. created' \in Nat /\ created' + 0 + Cardinality(Waiting) <= MaxSets + 1
    <2>1. PICK n \in Nat, c \in Nat : n = Cardinality(Waiting) /\ c = created
      BY NotHolder
    <2>2. c + n <= MaxSets /\ created' = c + 1
      BY <1>1, <2>1, NotHolder
    <2> QED
      BY <2>1, <2>2, CacheBounds
  <1> QED
    BY <1>1, <1>6, <1>7, <1>8, QuietStep

\* Time passes.
LEMMA TickInv ==
  ASSUME MemoryInv, Tick
  PROVE  MemoryInv'
  <1>1. /\ UNCHANGED <<entries, currentSize, ItemCount, Size, mu, locks, created, pc, key, entry>>
        /\ clock \in 1 .. MaxTime /\ clock < MaxTime /\ clock' = clock + 1
    BY DEF Tick, cacheVars, MemoryInv, TypeOK
  <1>2. clock' \in 1 .. MaxTime /\ clock \in Nat
    BY <1>1, CacheBounds
  <1>3. TypeOK'
    BY <1>1, <1>2 DEF MemoryInv, TypeOK
  <1>4. Counted' /\ HolderEvicts' /\ HasEntry'
    BY <1>1 DEF MemoryInv, Counted, Accounting, Present, Stored, Bytes, HolderEvicts, HasEntry
  <1>5. Promised'
    BY <1>1 DEF MemoryInv, Promised, Waiting
  <1>6. Past'
    <2>1. ASSUME NEW e \in AnyEntry \cup {NoEntry}, e.AccessedAt <= clock
          PROVE  e.AccessedAt <= clock'
      BY <1>1, <1>2, <2>1, EntryFacts
    <2> QED
      BY <1>1, <2>1 DEF MemoryInv, TypeOK, Past
  <1> QED
    BY <1>3, <1>4, <1>5, <1>6 DEF MemoryInv

\* A step of g that changes the map and the counters, past the wait for the
\* key's lock.
LEMMA MapStep ==
  ASSUME MemoryInv, NEW g \in Callers, NEW p, NEW x, NEW e, Moves(g, p, x, e),
         p # "keylock", pc[g] # "keylock", created' = created,
         locks' \in [Keys -> Callers \cup {Nobody}],
         entries' \in EntryMaps, \A k \in Keys : entries'[k].AccessedAt <= clock,
         IsFiniteSet(Present'), IsFiniteSet(Bytes(entries')),
         ItemCount' = Cardinality(Present'), currentSize' = Cardinality(Bytes(entries')),
         Size' \in Nat, mu' = Nobody => Size' = currentSize'
  PROVE  MemoryInv'
  <1>1. Moved(g, p) /\ clock' = clock
    BY CallerMoves DEF Moves
  <1>2. ItemCount' \in Nat /\ currentSize' \in Nat
    BY FS_CardinalityType
  <1>3. TypeOK'
    BY <1>1, <1>2 DEF MemoryInv, TypeOK, Moved, Places, EntryMaps, Moves
  <1>4. Counted'
    BY DEF Counted, Accounting
  <1>5. Past'
    BY <1>1 DEF MemoryInv, Past, Moved
  <1>6. Promised'
    <2>1. PICK n \in Nat, w \in Nat : n = Cardinality(Waiting) /\ w = Cardinality(Waiting')
      BY <1>1, FS_CardinalityType DEF MemoryInv, Promised, Moved
    <2>2. w = n
      BY <1>1, <2>1 DEF Moved
    <2> QED
      BY <1>1, <2>1, <2>2 DEF MemoryInv, Promised, Moved
  <1> QED
    BY <1>1, <1>3, <1>4, <1>5, <1>6 DEF MemoryInv, Moved

\* Get marks the entry it read as used, if it is still in the map, and returns.
LEMMA GetTouchInv ==
  ASSUME MemoryInv, NEW g \in Callers, GetTouch(g)
  PROVE  MemoryInv'
  <1> DEFINE k == key[g]
             e == IF entries[k].id = entry[g].id
                  THEN [entries[k] EXCEPT !.AccessedAt = clock] ELSE entries[k]
  <1>1. /\ pc[g] = "touch" /\ mu = Nobody /\ entries' = [entries EXCEPT ![k] = e]
        /\ Return(g) /\ UNCHANGED <<currentSize, ItemCount, Size, mu, locks, clock, created>>
    BY DEF GetTouch
  <1>2. k \in Keys /\ entry[g] \in AnyEntry /\ entries[k] \in AnyEntry \cup {NoEntry}
    BY <1>1 DEF MemoryInv, HasEntry, TypeOK
  <1>3. clock \in 1 .. MaxTime /\ clock <= clock
    BY CacheBounds DEF MemoryInv, TypeOK
  <1>4. /\ e \in AnyEntry \cup {NoEntry} /\ e.id = entries[k].id /\ e.size = entries[k].size
        /\ e.AccessedAt <= clock
    <2>1. CASE entries[k].id = entry[g].id
      <3>1. entries[k] \in AnyEntry
        BY <1>2, <2>1, EntryFacts
      <3> QED
        BY <1>3, <2>1, <3>1 DEF AnyEntry
    <2>2. CASE entries[k].id # entry[g].id
      BY <1>2, <2>2 DEF MemoryInv, Past
    <2> QED
      BY <2>1, <2>2
  <1> HIDE DEF e, k
  <1>5. Moves(g, "idle", NoKey, NoEntry)
    BY <1>1, Returns
  <1>6. /\ currentSize' = currentSize - entries[k].size + e.size
        /\ ItemCount' = ItemCount - (IF k \in Present THEN 1 ELSE 0)
                                  + (IF e.id # 0 THEN 1 ELSE 0)
    <2>1. currentSize \in Nat /\ ItemCount \in Nat /\ entries[k].size \in Nat
      BY <1>2, EntryFacts DEF MemoryInv, TypeOK
    <2>2. k \in Present <=> e.id # 0
      BY <1>2, <1>4 DEF Present, Stored
    <2> QED
      BY <1>1, <1>4, <2>1, <2>2
  <1>7. /\ entries' \in EntryMaps /\ entries'[k] = e
        /\ \A j \in Keys : j # k => entries'[j] = entries[j]
        /\ IsFiniteSet(Present') /\ IsFiniteSet(Bytes(entries'))
        /\ ItemCount' = Cardinality(Present') /\ currentSize' = Cardinality(Bytes(entries'))
    BY <1>1, <1>2, <1>4, <1>6, Reassigned DEF MemoryInv
  <1>8. \A j \in Keys : entries'[j].AccessedAt <= clock
    BY <1>4, <1>7 DEF MemoryInv, Past
  <1>9. locks' \in [Keys -> Callers \cup {Nobody}] /\ Size' \in Nat /\ Size' = currentSize'
    BY <1>1 DEF MemoryInv, TypeOK, Counted, Accounting
  <1> QED
    BY <1>1, <1>5, <1>7, <1>8, <1>9, MapStep

\* The body of Delete.
LEMMA Removes ==
  ASSUME MemoryInv, NEW k \in Keys, Remove(k), clock' = clock
  PROVE  /\ entries' = [entries EXCEPT ![k] = NoEntry]
         /\ entries' \in EntryMaps /\ \A j \in Keys : entries'[j].AccessedAt <= clock
         /\ IsFiniteSet(Present') /\ IsFiniteSet(Bytes(entries'))
         /\ ItemCount' = Cardinality(Present') /\ currentSize' = Cardinality(Bytes(entries'))
         /\ Size' = currentSize' /\ Size' \in Nat
  <1>1. /\ entries \in EntryMaps /\ entries[k] \in AnyEntry \cup {NoEntry}
        /\ currentSize \in Nat /\ ItemCount \in Nat
    BY DEF MemoryInv, TypeOK, EntryMaps
  <1>2. /\ entries[k].size \in Nat /\ NoEntry.size = 0 /\ NoEntry.id = 0
        /\ k \notin Present => entries[k] = NoEntry
        /\ NoEntry.AccessedAt <= clock
    <2>1. NoEntry.AccessedAt <= clock
      BY EntryFacts, CacheBounds DEF MemoryInv, TypeOK
    <2> QED
      BY <1>1, <2>1, EntryFacts DEF Present, Stored
  <1>3. /\ entries' = [entries EXCEPT ![k] = NoEntry]
        /\ currentSize' = currentSize - entries[k].size + NoEntry.size
        /\ ItemCount' = ItemCount - (IF k \in Present THEN 1 ELSE 0)
                                  + (IF NoEntry.id # 0 THEN 1 ELSE 0)
    <2>1. CASE k \in Present
      BY <1>1, <1>2, <2>1 DEF Remove
    <2>2. CASE k \notin Present
      <3>1. entries[k] = NoEntry /\ UNCHANGED <<entries, currentSize, ItemCount>>
        BY <1>2, <2>2 DEF Remove
      <3>2. entries = [entries EXCEPT ![k] = NoEntry]
        BY <1>1, <3>1 DEF EntryMaps
      <3> QED
        BY <1>1, <1>2, <2>2, <3>1, <3>2
    <2> QED
      BY <2>1, <2>2
  <1>4. /\ entries' \in EntryMaps /\ entries'[k] = NoEntry
        /\ \A j \in Keys : j # k => entries'[j] = entries[j]
        /\ IsFiniteSet(Present') /\ IsFiniteSet(Bytes(entries'))
        /\ ItemCount' = Cardinality(Present') /\ currentSize' = Cardinality(Bytes(entries'))
        /\ currentSize' \in Nat
    BY <1>3, Reassigned DEF MemoryInv
  <1>5. \A j \in Keys : entries'[j].AccessedAt <= clock
    BY <1>2, <1>4 DEF MemoryInv, Past
  <1>6. Size' = currentSize'
    BY DEF Remove
  <1> QED
    BY <1>3, <1>4, <1>5, <1>6

\* Get deletes what is under the key of an entry that had expired.
LEMMA GetExpireInv ==
  ASSUME MemoryInv, NEW g \in Callers, GetExpire(g)
  PROVE  MemoryInv'
  <1>1. /\ pc[g] = "expire" /\ mu = Nobody /\ Remove(key[g])
        /\ pc' = [pc EXCEPT ![g] = "miss"]
        /\ UNCHANGED <<mu, locks, clock, created, key, entry>>
    BY DEF GetExpire
  <1>2. key[g] \in Keys /\ entry[g] \in AnyEntry
    BY <1>1 DEF MemoryInv, HasEntry
  <1>3. Moves(g, "miss", key[g], entry[g])
    BY <1>1, <1>2, NotHolder DEF Moves, Places
  <1>4. locks' \in [Keys -> Callers \cup {Nobody}]
    BY <1>1 DEF MemoryInv, TypeOK
  <1> QED
    BY <1>1, <1>2, <1>3, <1>4, Removes, MapStep

\* Delete.
LEMMA DeleteKeyInv ==
  ASSUME MemoryInv, NEW g \in Callers, NEW k \in Keys, Delete(g, k)
  PROVE  MemoryInv'
  <1>1. /\ pc[g] = "idle" /\ mu = Nobody /\ Remove(k)
        /\ UNCHANGED <<mu, locks, clock, created, pc, key, entry>>
    BY DEF Delete
  <1>2. pc' = [pc EXCEPT ![g] = "idle"]
    BY <1>1 DEF MemoryInv, TypeOK
  <1>3. Moves(g, "idle", key[g], entry[g])
    BY <1>1, <1>2, NotHolder DEF Moves, Places
  <1>4. locks' \in [Keys -> Callers \cup {Nobody}]
    BY <1>1 DEF MemoryInv, TypeOK
  <1> QED
    BY <1>1, <1>3, <1>4, Removes, MapStep

\* The empty map.
LEMMA NothingStored ==
  LET m == [k \in Keys |-> NoEntry] IN
  /\ m \in EntryMaps /\ Stored(m) = {} /\ Bytes(m) = {}
  /\ IsFiniteSet({}) /\ Cardinality({}) = 0
  <1> DEFINE m == [k \in Keys |-> NoEntry]
  <1>1. m \in EntryMaps
    BY DEF EntryMaps
  <1>2. Stored(m) = {}
    BY EntryFacts DEF Stored
  <1>3. Bytes(m) = {}
    BY <1>2 DEF Bytes
  <1> QED
    BY <1>1, <1>2, <1>3, FS_EmptySet

\* Clear.
LEMMA ClearMapInv ==
  ASSUME MemoryInv, NEW g \in Callers, Clear(g)
  PROVE  MemoryInv'
  <1>1. /\ pc[g] = "idle" /\ mu = Nobody /\ entries' = [k \in Keys |-> NoEntry]
        /\ currentSize' = 0 /\ ItemCount' = 0 /\ Size' = 0
        /\ UNCHANGED <<mu, locks, clock, created, pc, key, entry>>
    BY DEF Clear
  <1>2. pc' = [pc EXCEPT ![g] = "idle"]
    BY <1>1 DEF MemoryInv, TypeOK
  <1>3. Moves(g, "idle", key[g], entry[g])
    BY <1>1, <1>2, NotHolder DEF Moves, Places
  <1>4. locks' \in [Keys -> Callers \cup {Nobody}]
    BY <1>1 DEF MemoryInv, TypeOK
  <1>5. /\ entries' \in EntryMaps /\ Present' = {} /\ Bytes(entries') = {}
        /\ IsFiniteSet({}) /\ Cardinality({}) = 0
    BY <1>1, NothingStored DEF Present
  <1>6. \A j \in Keys : entries'[j].AccessedAt <= clock
    BY <1>1, NotHolder, EntryFacts
  <1> QED
    BY <1>1, <1>3, <1>4, <1>5, <1>6, MapStep

\* A step of Set under c.mu that changes the map, and goes on or returns.
LEMMA SetStep ==
  ASSUME MemoryInv, NEW g \in Callers, SetMore(g) \/ SetDone(g),
         pc[g] \in {"insert", "evict"}, mu \in {g, Nobody},
         clock' = clock, created' = created,
         entries' \in EntryMaps, \A k \in Keys : entries'[k].AccessedAt <= clock,
         IsFiniteSet(Present'), IsFiniteSet(Bytes(entries')),
         ItemCount' = Cardinality(Present'), currentSize' = Cardinality(Bytes(entries'))
  PROVE  MemoryInv'
  <1>1. key[g] \in Keys /\ entry[g] \in AnyEntry /\ locks \in [Keys -> Callers \cup {Nobody}]
    BY DEF MemoryInv, HasEntry, TypeOK
  <1>2. CASE SetMore(g)
    <2>1. /\ mu' = g /\ pc' = [pc EXCEPT ![g] = "evict"]
          /\ UNCHANGED <<Size, locks, key, entry>>
      BY <1>2 DEF SetMore
    <2>2. Moves(g, "evict", key[g], entry[g])
      BY <1>1, <2>1, NotHolder DEF Moves, Places
    <2>3. Size' \in Nat /\ mu' # Nobody
      BY <2>1, NotHolder DEF MemoryInv, TypeOK
    <2> QED
      BY <1>1, <2>1, <2>2, <2>3, MapStep
  <1>3. CASE SetDone(g)
    <2>1. /\ mu' = Nobody /\ locks' = [locks EXCEPT ![key[g]] = Nobody] /\ Return(g)
          /\ Size' = currentSize'
      BY <1>3 DEF SetDone
    <2>2. Moves(g, "idle", NoKey, NoEntry)
      BY <2>1, Returns
    <2>3. locks' \in [Keys -> Callers \cup {Nobody}] /\ Size' \in Nat
      BY <1>1, <2>1, FS_CardinalityType
    <2> QED
      BY <2>1, <2>2, <2>3, MapStep
  <1> QED
    BY <1>2, <1>3

\* Set stores its entry.
LEMMA SetInsertInv ==
  ASSUME MemoryInv, NEW g \in Callers, SetInsert(g)
  PROVE  MemoryInv'
  <1> DEFINE k == key[g]
             e == entry[g]
  <1>1. /\ pc[g] = "insert" /\ mu = Nobody /\ entries' = [entries EXCEPT ![k] = e]
        /\ ItemCount' = IF k \in Present THEN ItemCount ELSE ItemCount + 1
        /\ currentSize' = currentSize - entries[k].size + e.size
        /\ SetMore(g) \/ SetDone(g)
        /\ UNCHANGED <<clock, created>>
    BY DEF SetInsert
  <1>2. k \in Keys /\ e \in AnyEntry /\ e.AccessedAt <= clock /\ e.id # 0
    BY <1>1, EntryFacts DEF MemoryInv, HasEntry, Past
  <1> HIDE DEF e, k
  <1>3. ItemCount' = ItemCount - (IF k \in Present THEN 1 ELSE 0)
                               + (IF e.id # 0 THEN 1 ELSE 0)
    BY <1>1, <1>2 DEF MemoryInv, TypeOK
  <1>4. /\ entries' \in EntryMaps /\ entries'[k] = e
        /\ \A j \in Keys : j # k => entries'[j] = entries[j]
        /\ IsFiniteSet(Present') /\ IsFiniteSet(Bytes(entries'))
        /\ ItemCount' = Cardinality(Present') /\ currentSize' = Cardinality(Bytes(entries'))
    BY <1>1, <1>2, <1>3, Reassigned DEF MemoryInv
  <1>5. \A j \in Keys : entries'[j].AccessedAt <= clock
    BY <1>2, <1>4 DEF MemoryInv, Past
  <1> QED
    BY <1>1, <1>4, <1>5, SetStep

\* A victim is a key that has an entry.
LEMMA VictimsStored == Victims \subseteq Present
  <1>1. ASSUME NEW S PROVE Oldest(S) \subseteq S
    BY DEF Oldest
  <1>2. CASE "" \notin Present
    BY <1>1, <1>2 DEF Victims
  <1>3. CASE "" \in Present
    <2> SUFFICES ASSUME NEW k \in Victims PROVE k \in Present
      OBVIOUS
    <2> DEFINE others == Present \ {""}
    <2>1. PICK after \in SUBSET others :
             k \in IF \E j \in others \ after : entries[j].AccessedAt <= entries[""].AccessedAt
                   THEN Oldest(others)
                   ELSE IF after = {} THEN {""} ELSE Oldest(after)
      BY <1>3 DEF Victims
    <2>2. k \in Oldest(others) \/ k = "" \/ k \in Oldest(after)
      BY <2>1
    <2> QED
      BY <1>1, <1>3, <2>2
  <1> QED
    BY <1>2, <1>3

\* Set evicts one entry, or finds "" and tries again.
LEMMA EvictInv ==
  ASSUME MemoryInv, NEW g \in Callers, Evict(g)
  PROVE  MemoryInv'
  <1>1. PICK k \in Victims :
           \/ /\ k # ""
              /\ currentSize' = currentSize - entries[k].size
              /\ ItemCount' = ItemCount - 1
              /\ entries' = [entries EXCEPT ![k] = NoEntry]
              /\ \/ OverLimit(currentSize', ItemCount') /\ SetMore(g)
                 \/ ~OverLimit(currentSize', ItemCount') /\ SetDone(g)
           \/ /\ k = ""
              /\ UNCHANGED <<cacheVars, mu, locks, pc, key, entry>>
    BY DEF Evict
  <1>2. pc[g] = "evict" /\ UNCHANGED <<clock, created>>
    BY DEF Evict
  <1>3. k \in Present /\ k \in Keys
    BY VictimsStored DEF Present, Stored
  <1>4. mu = g /\ key[g] \in Keys /\ entry[g] \in AnyEntry
    BY <1>2, NotHolder DEF MemoryInv, HasEntry
  <1>5. CASE k = ""
    <2>1. UNCHANGED vars
      BY <1>1, <1>2, <1>5 DEF vars
    <2> QED
      BY <2>1 DEF vars, cacheVars, MemoryInv, TypeOK, Counted, Accounting, Present, Stored,
         Bytes, HolderEvicts, HasEntry, Past, Promised, Waiting
  <1>6. CASE k # ""
    <2>1. /\ currentSize' = currentSize - entries[k].size
          /\ ItemCount' = ItemCount - 1
          /\ entries' = [entries EXCEPT ![k] = NoEntry]
          /\ SetMore(g) \/ SetDone(g)
      BY <1>1, <1>6
    <2>2. /\ entries[k].size \in Nat /\ currentSize \in Nat /\ ItemCount \in Nat
          /\ NoEntry.id = 0 /\ NoEntry.size = 0 /\ NoEntry.AccessedAt <= clock
      <3>1. entries[k] \in AnyEntry \cup {NoEntry}
        BY <1>3 DEF MemoryInv, TypeOK
      <3>2. NoEntry.AccessedAt = 0 /\ clock \in Nat
        BY EntryFacts, NotHolder
      <3> QED
        BY <3>1, <3>2, EntryFacts DEF MemoryInv, TypeOK
    <2>3. /\ currentSize' = currentSize - entries[k].size + NoEntry.size
          /\ ItemCount' = ItemCount - (IF k \in Present THEN 1 ELSE 0)
                                    + (IF NoEntry.id # 0 THEN 1 ELSE 0)
      BY <1>3, <2>1, <2>2
    <2>4. /\ entries' \in EntryMaps /\ entries'[k] = NoEntry
          /\ \A j \in Keys : j # k => entries'[j] = entries[j]
          /\ IsFiniteSet(Present') /\ IsFiniteSet(Bytes(entries'))
          /\ ItemCount' = Cardinality(Present') /\ currentSize' = Cardinality(Bytes(entries'))
      BY <1>3, <2>1, <2>3, Reassigned DEF MemoryInv
    <2>5. \A j \in Keys : entries'[j].AccessedAt <= clock
      BY <2>2, <2>4 DEF MemoryInv, Past
    <2> QED
      BY <1>2, <1>4, <2>1, <2>4, <2>5, SetStep
  <1> QED
    BY <1>5, <1>6

\* Every step of a MemoryCache keeps the invariant.
LEMMA MemoryNextInv == MemoryInv /\ [Next]_vars => MemoryInv'
  <1> SUFFICES ASSUME MemoryInv, [Next]_vars
               PROVE  MemoryInv'
    OBVIOUS
  <1>1. CASE UNCHANGED vars
    BY <1>1 DEF vars, cacheVars, MemoryInv, TypeOK, Counted, Accounting, Present, Stored,
       Bytes, HolderEvicts, HasEntry, Past, Promised, Waiting
  <1>2. ASSUME NEW g \in Callers, Step(g)
        PROVE  MemoryInv'
    BY <1>2, GetCheckInv, GetExpireInv, GetMissInv, GetTouchInv, SetBeginInv, SetInsertInv,
       EvictInv
    DEF Step
  <1> QED
    BY <1>1, <1>2, TickInv, GetReadInv, SetCallInv, DeleteKeyInv, ClearMapInv DEF Next

\* A new MemoryCache satisfies it.
LEMMA MemoryInitInv == Init => MemoryInv
  <1> SUFFICES ASSUME Init PROVE MemoryInv
    OBVIOUS
  <1>1. /\ entries = [k \in Keys |-> NoEntry] /\ currentSize = 0 /\ ItemCount = 0 /\ Size = 0
        /\ mu = Nobody /\ locks = [k \in Keys |-> Nobody] /\ clock = 1 /\ created = 0
        /\ pc = [g \in Callers |-> "idle"] /\ key = [g \in Callers |-> NoKey]
        /\ entry = [g \in Callers |-> NoEntry]
    BY DEF Init
  <1>2. /\ entries \in EntryMaps /\ Stored(entries) = {} /\ Bytes(entries) = {}
        /\ IsFiniteSet({}) /\ Cardinality({}) = 0
    BY <1>1, NothingStored
  <1>3. NoEntry.AccessedAt <= clock
    BY <1>1, EntryFacts
  <1>4. Waiting = {}
    BY <1>1 DEF Waiting
  <1>5. Nobody \notin Callers
    BY CacheAssumption, Zenon DEF Nobody
  <1>6. TypeOK
    BY <1>1, <1>2, CacheBounds DEF TypeOK, EntryMaps
  <1>7. Counted
    BY <1>1, <1>2 DEF Counted, Accounting, Present
  <1>8. HolderEvicts /\ HasEntry
    BY <1>1, <1>5 DEF HolderEvicts, HasEntry
  <1>9. Past
    BY <1>1, <1>3 DEF Past
  <1>10. Promised
    BY <1>1, <1>2, <1>4, CacheBounds DEF Promised
  <1> QED
    BY <1>6, <1>7, <1>8, <1>9, <1>10 DEF MemoryInv

\* The invariant holds in every reachable state of a MemoryCache.
THEOREM MemoryInvariance == Spec => []MemoryInv
  BY MemoryInitInv, MemoryNextInv, PTL DEF Spec

\* At every step, in the middle of an eviction too, the item counter is the
\* number of entries and the size counter the number of bytes of their values,
\* and the published size follows as soon as c.mu is free (Set, Delete, Clear,
\* evictIfNeeded and evictLRU of cache.go).
THEOREM AccountingCorrect == Spec => []Accounting
  <1>1. MemoryInv => Accounting
    BY DEF MemoryInv, Counted
  <1> QED
    BY <1>1, MemoryInvariance, PTL

(***************************************************************************)
(* MemoryCache implements LRUCache.  visible is what the cache was before  *)
(* the critical section under way.  While a Set evicts, the map is visible *)
(* with the new entry (Full) and without those removed so far (Evicted),   *)
(* which are the least recently used; and it is still over a limit         *)
(* (SectionInv).  So the last eviction completes one Put.                  *)
(***************************************************************************)

\* The map with the new entry of g and nothing evicted.
Full(g) == [visible EXCEPT ![key[g]] = entry[g]]

\* What g has evicted so far.
Evicted(g) == {j \in Keys : Full(g)[j] # NoEntry /\ entries[j] = NoEntry}

\* What the Set that holds c.mu has done.
Section(g) ==
    /\ OverLimit(currentSize, ItemCount)
    /\ entries = Abstract!Without(Full(g), Evicted(g))
    /\ HasEmptyKey(Full(g)) \/ Abstract!OldestFirst(Full(g), Evicted(g))

\* The invariant about visible.
SectionInv ==
    /\ visible \in EntryMaps
    /\ mu = Nobody => visible = entries
    /\ \A g \in Callers : mu = g => Section(g)

\* How visible follows the map.
Follows == visible' = IF mu' = Nobody THEN entries' ELSE visible

\* A step that leaves the map alone, and the Set that evicts.
LEMMA QuietSection ==
  ASSUME MemoryInv, SectionInv, Follows, UNCHANGED <<entries, currentSize, ItemCount, mu>>,
         \A g \in Callers : pc[g] = "evict" => key'[g] = key[g] /\ entry'[g] = entry[g]
  PROVE  SectionInv' /\ visible' = visible
  <1>1. visible' = visible
    BY DEF Follows, SectionInv
  <1>2. ASSUME NEW g \in Callers, mu' = g
        PROVE  Section(g)'
    <2>1. Section(g) /\ key'[g] = key[g] /\ entry'[g] = entry[g]
      BY <1>2 DEF SectionInv, MemoryInv, HolderEvicts
    <2>2. Full(g)' = Full(g)
      BY <1>1, <2>1 DEF Full
    <2>3. Evicted(g)' = Evicted(g)
      BY <2>2 DEF Evicted
    <2> QED
      BY <2>1, <2>2, <2>3 DEF Section, Abstract!Without, Abstract!OldestFirst, Abstract!Held,
         HasEmptyKey, OverLimit
  <1> QED
    BY <1>1, <1>2 DEF SectionInv

\* A step with c.mu free before and after it.
LEMMA ShortSection ==
  ASSUME MemoryInv, SectionInv, Follows, mu' = Nobody, entries' \in EntryMaps
  PROVE  SectionInv' /\ visible' = entries'
  <1>1. visible' = entries'
    BY DEF Follows
  <1>2. Nobody \notin Callers
    BY CacheAssumption, Zenon DEF Nobody
  <1> QED
    BY <1>1, <1>2 DEF SectionInv

\* visible' is visible with the entry e for k and without the keys in evicted,
\* which are no more than needed and the least recently used.
Completes(k, e, full, evicted) ==
    /\ full = [visible EXCEPT ![k] = e]
    /\ evicted \subseteq Abstract!Held(full)
    /\ visible' = Abstract!Without(full, evicted) /\ Fits(visible')
    /\ evicted = {} \/ \E last \in evicted : ~Fits(Abstract!Without(full, evicted \ {last}))
    /\ HasEmptyKey(full) \/ Abstract!OldestFirst(full, evicted)

\* A Set that evicts some keys, as LRUCache has it.
LEMMA PutIs ==
  ASSUME NEW k \in Keys, NEW e \in AnyEntry, NEW full, NEW evicted,
         visible \in EntryMaps, Completes(k, e, full, evicted)
  PROVE  Abstract!StoreNext
  <1> USE DEF Completes
  <1>0. evicted \in SUBSET Keys
    BY DEF Abstract!Held
  <1>1. full[k] = e /\ \A j \in Keys : j # k => full[j] = visible[j]
    BY DEF EntryMaps
  <1>2. \A j \in Keys : visible'[j] = IF j \in evicted THEN NoEntry ELSE full[j]
    BY DEF Abstract!Without
  <1>3. \A j \in Keys \ {k} : visible'[j] = IF j \in evicted THEN NoEntry ELSE visible[j]
    BY <1>1, <1>2
  <1>4. e \in IF k \in evicted THEN AnyEntry ELSE AnyEntry \cap {visible'[k]}
    BY <1>1, <1>2
  <1>5. Abstract!Put(k, evicted)
    BY <1>3, <1>4 DEF Abstract!Put
  <1> QED
    BY <1>0, <1>5 DEF Abstract!StoreNext

\* Within the limits is what evictIfNeeded tests, by Accounting.
LEMMA FitsIs ==
  ASSUME Counted
  PROVE  Fits(entries) <=> ~OverLimit(currentSize, ItemCount)
  <1>1. Stored(entries) = Present
    BY DEF Present
  <1> QED
    BY <1>1 DEF Counted, Accounting, Fits

\* The body of Delete is LRUCache's Remove.
LEMMA RemoveIs ==
  ASSUME NEW k \in Keys, visible \in EntryMaps, visible' = [visible EXCEPT ![k] = NoEntry]
  PROVE  Abstract!StoreNext
  <1>1. visible' = Abstract!Without(visible, {k})
    BY DEF Abstract!Without, EntryMaps
  <1>2. Abstract!Remove(k)
    BY <1>1 DEF Abstract!Remove
  <1> QED
    BY <1>2 DEF Abstract!StoreNext

\* GetExpire and Delete.
LEMMA RemoveSection ==
  ASSUME MemoryInv, MemoryInv', SectionInv, Follows, mu = Nobody, mu' = Nobody,
         NEW k \in Keys, Remove(k), clock' = clock
  PROVE  SectionInv' /\ Abstract!StoreNext
  <1>1. entries' = [entries EXCEPT ![k] = NoEntry] /\ entries' \in EntryMaps
    BY Removes
  <1>2. visible = entries /\ visible \in EntryMaps
    BY DEF SectionInv
  <1>3. SectionInv' /\ visible' = entries'
    BY <1>1, ShortSection
  <1> QED
    BY <1>1, <1>2, <1>3, RemoveIs

\* Clear is RemoveAll.
LEMMA ClearSection ==
  ASSUME MemoryInv, MemoryInv', SectionInv, Follows, NEW g \in Callers, Clear(g)
  PROVE  SectionInv' /\ Abstract!StoreNext
  <1>1. mu' = Nobody /\ entries' = [k \in Keys |-> NoEntry]
    BY DEF Clear
  <1>2. SectionInv' /\ visible' = entries'
    BY <1>1, NothingStored, ShortSection
  <1>3. visible' = Abstract!Without(visible, Keys)
    BY <1>1, <1>2 DEF Abstract!Without
  <1> QED
    BY <1>2, <1>3 DEF Abstract!StoreNext, Abstract!RemoveAll

\* GetTouch is Use of the entry, or nothing if it was replaced or is gone.
LEMMA TouchSection ==
  ASSUME MemoryInv, MemoryInv', SectionInv, Follows, NEW g \in Callers, GetTouch(g)
  PROVE  SectionInv' /\ (Abstract!StoreNext \/ visible' = visible)
  <1> DEFINE k == key[g]
  <1>1. /\ pc[g] = "touch" /\ mu = Nobody /\ mu' = Nobody
        /\ entries' = [entries EXCEPT ![k] =
                          IF @.id = entry[g].id THEN [@ EXCEPT !.AccessedAt = clock] ELSE @]
    BY DEF GetTouch
  <1>2. k \in Keys /\ entry[g] \in AnyEntry
    BY <1>1 DEF MemoryInv, HasEntry
  <1>3. visible = entries /\ visible \in EntryMaps /\ clock \in 1 .. MaxTime
    BY <1>1 DEF SectionInv, MemoryInv, TypeOK
  <1>4. SectionInv' /\ visible' = entries'
    <2>1. entries' \in EntryMaps
      BY DEF MemoryInv, TypeOK, EntryMaps
    <2> QED
      BY <1>1, <2>1, ShortSection
  <1>5. CASE entries[k].id = entry[g].id
    <2>1. entries[k] \in AnyEntry \cup {NoEntry}
      BY <1>2 DEF MemoryInv, TypeOK
    <2>2. entries[k] # NoEntry
      BY <1>2, <1>5, <2>1, EntryFacts
    <2>3. k \in Abstract!Held(visible) /\ clock >= visible[k].AccessedAt
      <3>1. entries[k].AccessedAt <= clock /\ entries[k].AccessedAt \in Nat
        BY <1>2, <2>1, EntryFacts DEF MemoryInv, Past
      <3> QED
        BY <1>2, <1>3, <2>2, <3>1, CacheBounds DEF Abstract!Held
    <2>4. visible' = [visible EXCEPT ![k].AccessedAt = clock]
      BY <1>1, <1>3, <1>4, <1>5
    <2>5. Abstract!Use(k, clock)
      BY <2>3, <2>4 DEF Abstract!Use
    <2> QED
      BY <1>2, <1>3, <1>4, <2>5 DEF Abstract!StoreNext
  <1>6. CASE entries[k].id # entry[g].id
    <2>1. entries' = [entries EXCEPT ![k] = entries[k]]
      BY <1>1, <1>6
    <2>2. entries' = entries
      BY <1>3, <2>1 DEF EntryMaps
    <2> QED
      BY <1>3, <1>4, <2>2
  <1> QED
    BY <1>5, <1>6

\* SetInsert is the whole Put when nothing need be evicted, and else the begin of
\* a section.
LEMMA InsertSection ==
  ASSUME MemoryInv, MemoryInv', SectionInv, Follows, NEW g \in Callers, SetInsert(g)
  PROVE  SectionInv' /\ (Abstract!StoreNext \/ visible' = visible)
  <1> DEFINE k == key[g]
             e == entry[g]
             full == [visible EXCEPT ![k] = e]
  <1>1. /\ pc[g] = "insert" /\ mu = Nobody /\ entries' = [entries EXCEPT ![k] = e]
        /\ \/ OverLimit(currentSize', ItemCount') /\ SetMore(g)
           \/ ~OverLimit(currentSize', ItemCount') /\ SetDone(g)
    BY DEF SetInsert
  <1>2. k \in Keys /\ e \in AnyEntry
    BY <1>1 DEF MemoryInv, HasEntry
  <1>3. visible = entries /\ visible \in EntryMaps /\ entries' = full
    BY <1>1 DEF SectionInv
  <1>4. full \in EntryMaps
    BY <1>2, <1>3 DEF EntryMaps
  <1>5. /\ full = Abstract!Without(full, {}) /\ Abstract!OldestFirst(full, {})
    BY <1>4 DEF Abstract!Without, Abstract!OldestFirst, EntryMaps
  <1>6. CASE ~OverLimit(currentSize', ItemCount') /\ SetDone(g)
    <2>1. mu' = Nobody
      BY <1>6 DEF SetDone
    <2>2. SectionInv' /\ visible' = full
      BY <1>3, <1>4, <2>1, ShortSection
    <2>3. Fits(visible')
      <3>1. Fits(entries')
        <4>1. Counted'
          BY DEF MemoryInv
        <4> QED
          BY <1>6, <4>1 DEF Counted, Accounting, Present, Fits
      <3> QED
        BY <1>3, <2>2, <3>1
    <2> HIDE DEF full
    <2>4. Completes(k, e, full, {})
      BY <1>5, <2>2, <2>3 DEF Completes, full
    <2> HIDE DEF k, e
    <2> QED
      BY <1>2, <1>3, <2>2, <2>4, PutIs
  <1>7. CASE OverLimit(currentSize', ItemCount') /\ SetMore(g)
    <2>1. mu' = g /\ key' = key /\ entry' = entry /\ g # Nobody
      BY <1>7, NotHolder DEF SetMore
    <2>2. visible' = visible
      BY <2>1 DEF Follows
    <2>3. Full(g)' = full
      BY <2>1, <2>2 DEF Full
    <2>4. Evicted(g)' = {}
      BY <1>3, <2>3 DEF Evicted
    <2>5. OverLimit(currentSize, ItemCount)'
      BY <1>7 DEF OverLimit
    <2> HIDE DEF full
    <2>6. entries' = Abstract!Without(Full(g), Evicted(g))'
      BY <1>3, <1>5, <2>3, <2>4 DEF Abstract!Without
    <2>7. Abstract!OldestFirst(Full(g), Evicted(g))'
      BY <1>5, <2>3, <2>4 DEF Abstract!OldestFirst
    <2>8. Section(g)'
      BY <2>5, <2>6, <2>7 DEF Section
    <2> QED
      BY <1>3, <2>1, <2>2, <2>8 DEF SectionInv
  <1> QED
    BY <1>1, <1>6, <1>7

\* The victim is the oldest entry that is left, unless "" has an entry.
LEMMA VictimOldest ==
  ASSUME NEW k \in Victims, "" \notin Present
  PROVE  \A j \in Present : entries[k].AccessedAt <= entries[j].AccessedAt
  BY DEF Victims, Oldest

\* One more eviction of the oldest entry keeps the order.
LEMMA StillOldestFirst ==
  ASSUME NEW full \in EntryMaps, NEW gone \in SUBSET Keys, entries \in EntryMaps,
         entries = Abstract!Without(full, gone), NEW k \in Victims,
         HasEmptyKey(full) \/ Abstract!OldestFirst(full, gone)
  PROVE  HasEmptyKey(full) \/ Abstract!OldestFirst(full, gone \cup {k})
  <1> SUFFICES ASSUME ~HasEmptyKey(full)
               PROVE  Abstract!OldestFirst(full, gone \cup {k})
    OBVIOUS
  <1>1. \A j \in Keys : entries[j] = IF j \in gone THEN NoEntry ELSE full[j]
    BY DEF Abstract!Without
  <1>2. NoEntry.id = 0 /\ \A j \in Keys : full[j].id # 0 <=> full[j] # NoEntry
    BY EntryFacts DEF EntryMaps
  <1>3. "" \notin Present
    BY <1>1, <1>2 DEF HasEmptyKey, Present, Stored
  <1>4. k \in Present /\ k \in Keys
    BY VictimsStored DEF Present, Stored
  <1>5. k \notin gone /\ entries[k] = full[k]
    BY <1>1, <1>2, <1>4 DEF Present, Stored
  <1> SUFFICES ASSUME NEW d \in gone \cup {k}, NEW r \in Abstract!Held(full) \ (gone \cup {k})
               PROVE  full[d].AccessedAt <= full[r].AccessedAt
    BY DEF Abstract!OldestFirst
  <1>6. r \in Keys /\ full[r] # NoEntry /\ r \notin gone
    BY DEF Abstract!Held
  <1>7. CASE d = k
    <2>1. entries[r] = full[r] /\ r \in Present
      BY <1>1, <1>2, <1>6 DEF Present, Stored
    <2> QED
      BY <1>3, <1>5, <1>7, <2>1, VictimOldest
  <1>8. CASE d \in gone
    BY <1>8 DEF Abstract!OldestFirst
  <1> QED
    BY <1>7, <1>8

\* An eviction is nothing that can be seen, until the last one, which completes
\* the Put.
LEMMA EvictSection ==
  ASSUME MemoryInv, MemoryInv', SectionInv, Follows, NEW g \in Callers, Evict(g)
  PROVE  SectionInv' /\ (Abstract!StoreNext \/ visible' = visible)
  <1>1. PICK k \in Victims :
           \/ /\ k # ""
              /\ currentSize' = currentSize - entries[k].size
              /\ ItemCount' = ItemCount - 1
              /\ entries' = [entries EXCEPT ![k] = NoEntry]
              /\ \/ OverLimit(currentSize', ItemCount') /\ SetMore(g)
                 \/ ~OverLimit(currentSize', ItemCount') /\ SetDone(g)
           \/ /\ k = ""
              /\ UNCHANGED <<cacheVars, mu, locks, pc, key, entry>>
    BY DEF Evict
  <1>2. CASE k = ""
    <2>1. UNCHANGED <<entries, currentSize, ItemCount, mu, key, entry>>
      BY <1>1, <1>2 DEF cacheVars
    <2> QED
      BY <2>1, QuietSection
  <1>3. CASE k # ""
    <2> DEFINE full == Full(g)
               gone == Evicted(g)
               after == gone \cup {k}
    <2>1. pc[g] = "evict" /\ mu = g /\ g # Nobody
      BY NotHolder DEF Evict
    <2>2. key[g] \in Keys /\ entry[g] \in AnyEntry
      BY <2>1 DEF MemoryInv, HasEntry
    <2>3. /\ OverLimit(currentSize, ItemCount) /\ entries = Abstract!Without(full, gone)
          /\ HasEmptyKey(full) \/ Abstract!OldestFirst(full, gone)
      BY <2>1 DEF SectionInv, Section
    <2>4. full = [visible EXCEPT ![key[g]] = entry[g]] /\ full \in EntryMaps
      BY <2>2 DEF Full, SectionInv, EntryMaps
    <2>5. gone \in SUBSET Keys /\ gone \subseteq Abstract!Held(full)
      BY DEF Evicted, Abstract!Held
    <2>6. entries \in EntryMaps /\ visible \in EntryMaps
      BY DEF MemoryInv, TypeOK, EntryMaps, SectionInv
    <2>7. /\ entries' = [entries EXCEPT ![k] = NoEntry]
          /\ \/ OverLimit(currentSize', ItemCount') /\ SetMore(g)
             \/ ~OverLimit(currentSize', ItemCount') /\ SetDone(g)
      BY <1>1, <1>3
    <2> HIDE DEF full, gone
    <2>8. k \in Keys /\ entries[k] # NoEntry
      BY VictimsStored DEF Present, Stored, NoEntry
    <2>9. k \notin gone /\ full[k] # NoEntry
      BY <2>3, <2>8 DEF Abstract!Without
    <2>10. entries' = Abstract!Without(full, after)
      BY <2>3, <2>6, <2>7, <2>8 DEF Abstract!Without, EntryMaps
    <2>11. after \subseteq Abstract!Held(full) /\ k \in after /\ after \ {k} = gone
      BY <2>5, <2>8, <2>9 DEF Abstract!Held
    <2>12. HasEmptyKey(full) \/ Abstract!OldestFirst(full, after)
      BY <2>3, <2>4, <2>5, <2>6, StillOldestFirst
    <2> HIDE DEF after
    <2>13. CASE ~OverLimit(currentSize', ItemCount') /\ SetDone(g)
      <3>1. mu' = Nobody
        BY <2>13 DEF SetDone
      <3>2. entries' \in EntryMaps /\ Counted'
        BY DEF MemoryInv, TypeOK, EntryMaps
      <3>3. SectionInv' /\ visible' = entries'
        BY <3>1, <3>2, ShortSection
      <3>4. Fits(visible')
        <4>1. Fits(entries')
          BY <2>13, <3>2 DEF Counted, Accounting, Present, Fits
        <4> QED
          BY <3>3, <4>1
      <3>5. ~Fits(Abstract!Without(full, after \ {k}))
        <4>1. ~Fits(entries)
          BY <2>3, FitsIs DEF MemoryInv
        <4> QED
          BY <2>3, <2>11, <4>1
      <3>6. Completes(key[g], entry[g], full, after)
        BY <2>4, <2>10, <2>11, <2>12, <3>3, <3>4, <3>5 DEF Completes
      <3> QED
        BY <2>2, <2>6, <3>3, <3>6, PutIs
    <2>14. CASE OverLimit(currentSize', ItemCount') /\ SetMore(g)
      <3>1. mu' = g /\ key' = key /\ entry' = entry
        BY <2>14 DEF SetMore
      <3>2. visible' = visible
        BY <2>1, <3>1 DEF Follows
      <3>3. Full(g)' = full
        BY <3>1, <3>2 DEF Full, full
      <3>4. Evicted(g)' = after
        <4>1. \A j \in Keys : entries'[j] = IF j \in after THEN NoEntry ELSE full[j]
          BY <2>10 DEF Abstract!Without
        <4>2. \A j \in after : j \in Keys /\ full[j] # NoEntry
          BY <2>11 DEF Abstract!Held
        <4> QED
          BY <3>3, <4>1, <4>2 DEF Evicted
      <3>5. OverLimit(currentSize, ItemCount)'
        BY <2>14 DEF OverLimit
      <3>6. entries' = Abstract!Without(Full(g), Evicted(g))'
        BY <2>10, <3>3, <3>4 DEF Abstract!Without
      <3>7. (HasEmptyKey(Full(g)) \/ Abstract!OldestFirst(Full(g), Evicted(g)))'
        BY <2>12, <3>3, <3>4 DEF HasEmptyKey, Abstract!OldestFirst, Abstract!Held
      <3>8. Section(g)'
        BY <3>5, <3>6, <3>7 DEF Section
      <3> QED
        BY <2>1, <2>6, <3>1, <3>2, <3>8 DEF SectionInv
    <2> QED
      BY <2>7, <2>13, <2>14
  <1> QED
    BY <1>1, <1>2, <1>3

\* Every step of a MemoryCache is one of LRUCache, or nothing.
LEMMA MemoryRefines ==
  ASSUME MemoryInv, SectionInv, [Next]_vars, Follows
  PROVE  SectionInv' /\ (Abstract!StoreNext \/ visible' = visible)
  <1>1. MemoryInv'
    BY MemoryNextInv
  <1>2. CASE UNCHANGED vars
    <2>1. UNCHANGED <<entries, currentSize, ItemCount, mu, key, entry>>
      BY <1>2 DEF vars, cacheVars
    <2> QED
      BY <2>1, QuietSection
  <1>3. CASE Tick
    <2>1. UNCHANGED <<entries, currentSize, ItemCount, mu, key, entry>>
      BY <1>3 DEF Tick, cacheVars
    <2> QED
      BY <2>1, QuietSection
  <1>4. ASSUME NEW g \in Callers,
               \/ \E k \in Keys : GetRead(g, k) \/ SetCall(g, k)
               \/ GetCheck(g) \/ GetMiss(g)
               \/ \E size \in Sizes, ttl \in TTLs : SetBegin(g, size, ttl)
        PROVE  SectionInv' /\ visible' = visible
    <2>1. UNCHANGED <<entries, currentSize, ItemCount, mu>>
      BY <1>4 DEF GetRead, SetCall, GetCheck, GetMiss, SetBegin, cacheVars
    <2>2. pc[g] # "evict"
      BY <1>4 DEF GetRead, SetCall, GetCheck, GetMiss, SetBegin
    <2>3. /\ key' = [key EXCEPT ![g] = key'[g]] /\ entry' = [entry EXCEPT ![g] = entry'[g]]
      BY <1>4 DEF GetRead, SetCall, GetCheck, GetMiss, SetBegin, Return, MemoryInv, TypeOK
    <2>4. \A h \in Callers : h # g => key'[h] = key[h] /\ entry'[h] = entry[h]
      BY <2>3 DEF MemoryInv, TypeOK
    <2> QED
      BY <2>1, <2>2, <2>4, QuietSection
  <1>5. ASSUME NEW g \in Callers, GetExpire(g)
        PROVE  SectionInv' /\ Abstract!StoreNext
    <2>1. mu = Nobody /\ mu' = Nobody /\ Remove(key[g]) /\ clock' = clock /\ key[g] \in Keys
      BY <1>5 DEF GetExpire, MemoryInv, HasEntry
    <2> QED
      BY <1>1, <2>1, RemoveSection
  <1>6. ASSUME NEW g \in Callers, NEW k \in Keys, Delete(g, k)
        PROVE  SectionInv' /\ Abstract!StoreNext
    <2>1. mu = Nobody /\ mu' = Nobody /\ Remove(k) /\ clock' = clock
      BY <1>6 DEF Delete
    <2> QED
      BY <1>1, <2>1, RemoveSection
  <1> QED
    BY <1>1, <1>2, <1>3, <1>4, <1>5, <1>6, ClearSection, TouchSection, InsertSection,
       EvictSection DEF Next, Step

\* The two invariants hold in every reachable state, and every step is one of
\* LRUCache or nothing: seen through c.mu, a MemoryCache is an LRUCache that
\* stores one entry per Set, evicts no more than needed and the least recently
\* used first, and always fits its limits (Get, Set, Delete, Clear and
\* evictIfNeeded of cache.go).
THEOREM ImplementsLRUCorrect == CacheSpec => ImplementsLRU
  <1> DEFINE I == MemoryInv /\ SectionInv
  <1>1. CacheInit => I /\ Abstract!StoreInit
    <2> SUFFICES ASSUME CacheInit PROVE I /\ Abstract!StoreInit
      OBVIOUS
    <2>1. MemoryInv
      BY MemoryInitInv DEF CacheInit
    <2>2. visible = entries /\ mu = Nobody /\ entries = [k \in Keys |-> NoEntry]
      BY DEF CacheInit, Init
    <2>3. Nobody \notin Callers
      BY CacheAssumption, Zenon DEF Nobody
    <2>4. SectionInv
      BY <2>2, <2>3, NothingStored DEF SectionInv
    <2> QED
      BY <2>1, <2>2, <2>4 DEF Abstract!StoreInit
  <1>2. I /\ [MemoryStep \/ TieredStep]_cacheRunVars => I' /\ [Abstract!StoreNext]_visible
    <2> SUFFICES ASSUME I, [MemoryStep \/ TieredStep]_cacheRunVars
                 PROVE  I' /\ (Abstract!StoreNext \/ visible' = visible)
      OBVIOUS
    <2>1. CASE MemoryStep
      <3>1. [Next]_vars /\ Follows
        BY <2>1 DEF MemoryStep, Follows
      <3> QED
        BY <3>1, MemoryNextInv, MemoryRefines
    <2>2. CASE TieredStep \/ UNCHANGED cacheRunVars
      <3>1. UNCHANGED vars /\ visible' = visible
        BY <2>2 DEF TieredStep, cacheRunVars
      <3>2. UNCHANGED <<entries, mu>>
        BY <3>1 DEF vars, cacheVars
      <3>3. Follows
        BY <3>1, <3>2 DEF Follows, SectionInv
      <3> QED
        BY <3>1, <3>3, MemoryNextInv, MemoryRefines
    <2> QED
      BY <2>1, <2>2
  <1> HIDE DEF I
  <1> QED
    BY <1>1, <1>2, PTL DEF CacheSpec, ImplementsLRU, Abstract!StoreSpec

=============================================================================
