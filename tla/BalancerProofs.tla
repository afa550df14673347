--------------------------- MODULE BalancerProofs ---------------------------
(***************************************************************************)
(* Proofs about LoadBalancer, for any backends, callers, counter width and *)
(* any order of selections, marks and updates.                             *)
(*                                                                         *)
(* All three balancers rest on BalancerInv: the list that a selection took *)
(* under the read lock is still the list of the healthy backends when the  *)
(* selection ends.  On top of it                                           *)
(*   DownInv      no backend of an address that is marked down is healthy; *)
(*   LeastInv     counts the callers that will still increment a backend   *)
(*                because of an old read, so that the bound is inductive;  *)
(*   RotationInv  orders the backends by how long ago they were passed, so *)
(*                that the next to be picked is never ahead.               *)
(***************************************************************************)
EXTENDS LoadBalancer, FunctionTheorems, FiniteSetTheorems, TLAPS

\* The members of S less than i: InOrder ranks i by how many there are.
Below(S, i) == {j \in S : j < i}

\* A larger member has more members below it.
LEMMA BelowGrows ==
  ASSUME NEW S \in SUBSET Int, IsFiniteSet(S), NEW i \in S, NEW k \in S, i < k
  PROVE  Cardinality(Below(S, i)) < Cardinality(Below(S, k))
  <1>1. IsFiniteSet(Below(S, k))
    <2>1. Below(S, k) \in SUBSET S
      BY DEF Below
    <2> QED
      BY <2>1, FS_Subset
  <1>2. Below(S, i) \in SUBSET Below(S, k)
    <2>1. \A j \in S : j < i => j < k
      OBVIOUS
    <2> QED
      BY <2>1 DEF Below
  <1>3. i \in Below(S, k) /\ i \notin Below(S, i)
    BY DEF Below
  <1>4. /\ Cardinality(Below(S, i)) <= Cardinality(Below(S, k))
        /\ Cardinality(Below(S, k)) # Cardinality(Below(S, i))
    BY <1>1, <1>2, <1>3, FS_Subset
  <1>5. Cardinality(Below(S, i)) \in Nat /\ Cardinality(Below(S, k)) \in Nat
    BY <1>1, <1>2, FS_Subset, FS_CardinalityType
  <1> QED
    BY <1>4, <1>5

\* InOrder lists every member once.
LEMMA InOrderLists ==
  ASSUME NEW S \in SUBSET Int, IsFiniteSet(S)
  PROVE  /\ InOrder(S) \in Seq(S) /\ Len(InOrder(S)) = Cardinality(S)
         /\ \A i \in S : \E n \in 1 .. Cardinality(S) : InOrder(S)[n] = i
         /\ \A m, n \in 1 .. Cardinality(S) : InOrder(S)[m] = InOrder(S)[n] => m = n
  <1> DEFINE N == Cardinality(S)
             f == [i \in S |-> Cardinality(Below(S, i)) + 1]
  <1>1. N \in Nat
    BY FS_CardinalityType
  <1>2. ASSUME NEW i \in S
        PROVE  f[i] \in 1 .. N
    <2>1. Below(S, i) \in SUBSET S /\ i \notin Below(S, i)
      BY DEF Below
    <2>2. /\ Cardinality(Below(S, i)) \in Nat /\ Cardinality(Below(S, i)) <= N
          /\ N # Cardinality(Below(S, i))
      BY <2>1, FS_Subset, FS_CardinalityType
    <2> QED
      BY <1>1, <2>2
  <1>3. \A i, k \in S : f[i] = f[k] => i = k
    <2> SUFFICES ASSUME NEW i \in S, NEW k \in S, i # k
                 PROVE  f[i] # f[k]
      OBVIOUS
    <2>1. i < k \/ k < i
      OBVIOUS
    <2>2. \/ Cardinality(Below(S, i)) < Cardinality(Below(S, k))
          \/ Cardinality(Below(S, k)) < Cardinality(Below(S, i))
      BY <2>1, BelowGrows
    <2>3. /\ Cardinality(Below(S, i)) \in Nat /\ Cardinality(Below(S, k)) \in Nat
      BY FS_Subset, FS_CardinalityType DEF Below
    <2> QED
      BY <2>2, <2>3
  <1>4. f \in Injection(S, 1 .. N)
    <2>1. f \in [S -> 1 .. N]
      BY <1>2
    <2> QED
      BY <1>3, <2>1, Fun_IsInj
  <1>5. \A n \in 1 .. N : \E i \in S : f[i] = n
    <2>1. IsFiniteSet(1 .. N) /\ Cardinality(1 .. N) = N
      BY <1>1, FS_Interval
    <2>2. f \in Surjection(S, 1 .. N)
      BY <1>4, <2>1, FS_Injection
    <2> HIDE DEF f
    <2> QED
      BY <2>2, Fun_SurjectionProperties
  <1>6. ASSUME NEW n \in 1 .. N
        PROVE  InOrder(S)[n] \in S /\ f[InOrder(S)[n]] = n
    <2>1. InOrder(S)[n] = CHOOSE i \in S : Cardinality(Below(S, i)) = n - 1
      BY DEF InOrder, Below
    <2>2. PICK i \in S : f[i] = n
      BY <1>5
    <2>3. Cardinality(Below(S, i)) \in Nat
      BY FS_Subset, FS_CardinalityType DEF Below
    <2>4. Cardinality(Below(S, i)) = n - 1
      BY <2>2, <2>3
    <2>5. InOrder(S)[n] \in S /\ Cardinality(Below(S, InOrder(S)[n])) = n - 1
      BY <2>1, <2>4
    <2> QED
      BY <2>5
  <1> HIDE DEF f
  <1>7. InOrder(S) \in Seq(S) /\ Len(InOrder(S)) = N
    <2>1. \A n \in 1 .. N : (CHOOSE i \in S : Cardinality({j \in S : j < i}) = n - 1) \in S
      BY <1>6 DEF InOrder
    <2>2. InOrder(S) \in [1 .. N -> S]
      BY <2>1 DEF InOrder
    <2> QED
      BY <1>1, <2>2
  <1>8. ASSUME NEW i \in S
        PROVE  \E n \in 1 .. N : InOrder(S)[n] = i
    <2>1. f[i] \in 1 .. N
      BY <1>2
    <2>2. InOrder(S)[f[i]] \in S /\ f[InOrder(S)[f[i]]] = f[i]
      BY <1>6, <2>1
    <2> QED
      BY <1>3, <2>1, <2>2
  <1> QED
    BY <1>6, <1>7, <1>8

\* A number is a multiple of m and a remainder in one way only.
LEMMA OneRemainder ==
  ASSUME NEW m \in Nat \ {0}, NEW a \in Int, NEW b \in Int,
         NEW r \in 0 .. m - 1, NEW s \in 0 .. m - 1, m * a + r = m * b + s
  PROVE  a = b /\ r = s
  <1>1. m * (a - b) = s - r
    OBVIOUS
  <1>2. CASE a > b
    <2>1. m * (a - b) >= m
      BY <1>2
    <2> QED
      BY <1>1, <2>1
  <1>3. CASE a < b
    <2>1. m * (a - b) <= -m
      BY <1>3
    <2> QED
      BY <1>1, <2>1
  <1> QED
    BY <1>2, <1>3

\* The remainder of the next number is the next remainder.
LEMMA NextRemainder ==
  ASSUME NEW x \in Nat, NEW m \in Nat \ {0}
  PROVE  /\ x % m \in 0 .. m - 1
         /\ (x + 1) % m = IF x % m = m - 1 THEN 0 ELSE (x % m) + 1
  <1> DEFINE a == x \div m
             r == x % m
             b == (x + 1) \div m
             s == (x + 1) % m
  <1>1. /\ a \in Int /\ r \in 0 .. m - 1 /\ x = m * a + r
        /\ b \in Int /\ s \in 0 .. m - 1 /\ x + 1 = m * b + s
    OBVIOUS
  <1> HIDE DEF a, b, r, s
  <1>2. CASE r = m - 1
    <2>1. m * (a + 1) + 0 = m * b + s /\ a + 1 \in Int /\ 0 \in 0 .. m - 1
      BY <1>1, <1>2
    <2>2. 0 = s
      BY <1>1, <2>1, OneRemainder
    <2> QED
      BY <1>1, <1>2, <2>2 DEF r, s
  <1>3. CASE r # m - 1
    <2>1. m * a + (r + 1) = m * b + s /\ r + 1 \in 0 .. m - 1
      BY <1>1, <1>3
    <2>2. r + 1 = s
      BY <1>1, <2>1, OneRemainder
    <2> QED
      BY <1>1, <1>3, <2>2 DEF r, s
  <1> QED
    BY <1>2, <1>3

-----------------------------------------------------------------------------
\* A Backend, and the local variables of a selection.
BackendRecord == [address : Addresses, healthy : BOOLEAN, connections : Nat]
ScanRecord == [healthy : Seq(Nat), next : Nat \ {0}, min : Int, selected : Nat]

\* The types of the variables.
BalancerTypeOK ==
    /\ method \in Methods
    /\ \E n \in Nat : Indices = 1 .. n
    /\ backends \in [Indices -> BackendRecord]
    /\ picks \in [Indices -> Nat]
    /\ current \in 0 .. CounterMod - 1
    /\ pc \in [Callers -> {"idle", "scan", "tap", "fix", "use", "proxying"}]
    /\ scan \in [Callers -> ScanRecord]
    /\ chosen \in [Callers -> Addresses \cup {"none"}]
    /\ down \in SUBSET Addresses
    /\ wraps \in Nat /\ marked \in BOOLEAN

\* A balancer does the steps of its own SelectBackend only.
OwnSteps ==
    \A c \in Callers : /\ pc[c] = "scan" => method = "least_conn"
                       /\ pc[c] \in {"tap", "fix", "use"} => method = "random"

\* What getHealthyBackends lists.
Healthy == {i \in Indices : backends[i].healthy}

\* The list a selection works on is the list of the healthy backends, as they
\* are now: the read lock keeps the marks out.
Lists(c) ==
    /\ scan[c].healthy \in Seq(Healthy)
    /\ \A i \in Healthy : \E n \in 1 .. Len(scan[c].healthy) : scan[c].healthy[n] = i

\* The loop's local variables: min is what the selected backend had when it was
\* read, so no backend read so far has less.
Loop(c) ==
    /\ scan[c].healthy # <<>>
    /\ IF scan[c].next = 1 THEN scan[c].min = -1
       ELSE /\ scan[c].min \in Nat /\ scan[c].selected \in Healthy
            /\ \A n \in 1 .. Len(scan[c].healthy) :
                  n < scan[c].next =>
                     scan[c].min <= backends[scan[c].healthy[n]].connections

\* The local variables of every selection under way.
ScanInv ==
    \A c \in Callers : /\ c \in Readers => Lists(c)
                       /\ pc[c] = "scan" => Loop(c)

\* The constructor and UpdateBackends make healthy backends.
UnmarkedHealthy == ~marked => Healthy = Indices

\* The inductive invariant.
BalancerInv == BalancerTypeOK /\ OwnSteps /\ ScanInv /\ UnmarkedHealthy

\* A sequence over a set is one over every larger set.
LEMMA SeqWiden ==
  ASSUME NEW S, NEW T, S \subseteq T, NEW q \in Seq(S)
  PROVE  q \in Seq(T)
  <1>1. Len(q) \in Nat /\ q \in [1 .. Len(q) -> S]
    OBVIOUS
  <1>2. q \in [1 .. Len(q) -> T]
    BY <1>1
  <1> QED
    BY <1>1, <1>2

\* The list of the healthy backends.
LEMMA HealthyList ==
  ASSUME BalancerTypeOK
  PROVE  /\ Healthy \in SUBSET Nat /\ IsFiniteSet(Healthy)
         /\ getHealthyBackends \in Seq(Healthy) /\ getHealthyBackends \in Seq(Nat)
         /\ \A i \in Healthy : \E n \in 1 .. Len(getHealthyBackends) :
               getHealthyBackends[n] = i
         /\ \A m, n \in 1 .. Len(getHealthyBackends) :
               getHealthyBackends[m] = getHealthyBackends[n] => m = n
  <1>1. PICK n \in Nat : Indices = 1 .. n
    BY DEF BalancerTypeOK
  <1>2. Healthy \in SUBSET Nat /\ Healthy \in SUBSET Int /\ \A i \in Healthy : i <= n
    BY <1>1 DEF Healthy
  <1>3. IsFiniteSet(Healthy)
    BY <1>2, FS_BoundedSetOfNaturals
  <1>4. getHealthyBackends = InOrder(Healthy)
    BY DEF getHealthyBackends, Healthy
  <1>5. getHealthyBackends \in Seq(Healthy)
    BY <1>2, <1>3, <1>4, InOrderLists
  <1>6. getHealthyBackends \in Seq(Nat)
    BY <1>2, <1>5, SeqWiden
  <1>7. /\ Len(InOrder(Healthy)) = Cardinality(Healthy)
        /\ \A i \in Healthy : \E k \in 1 .. Cardinality(Healthy) : InOrder(Healthy)[k] = i
        /\ \A l, k \in 1 .. Cardinality(Healthy) :
              InOrder(Healthy)[l] = InOrder(Healthy)[k] => l = k
    BY <1>2, <1>3, InOrderLists
  <1> QED
    BY <1>2, <1>3, <1>4, <1>5, <1>6, <1>7

\* New backends are healthy and have no connections.
LEMMA NewList ==
  ASSUME NEW list \in AddressLists
  PROVE  /\ \E n \in Nat : DOMAIN list = 1 .. n
         /\ DOMAIN NewBackends(list) = DOMAIN list
         /\ NewBackends(list) \in [DOMAIN list -> BackendRecord]
         /\ \A i \in DOMAIN list : /\ NewBackends(list)[i].address = list[i]
                                   /\ NewBackends(list)[i].healthy
                                   /\ NewBackends(list)[i].connections = 0
  <1>1. \E n \in Nat : DOMAIN list = 1 .. n
    BY BalancerAssumption
  <1>2. \A i \in DOMAIN list : list[i] \in Addresses
    BY DEF Addresses
  <1> QED
    BY <1>1, <1>2 DEF NewBackends, BackendRecord

\* The local variables at the start of a loop.
LEMMA NewScanType ==
  ASSUME NEW q \in Seq(Nat)
  PROVE  /\ NewScan(q) \in ScanRecord
         /\ NewScan(q).healthy = q /\ NewScan(q).next = 1 /\ NewScan(q).min = -1
  BY DEF NewScan, ScanRecord

\* A new balancer satisfies it.
LEMMA BalancerInitInv == Init => BalancerInv
  <1> SUFFICES ASSUME Init PROVE BalancerInv
    OBVIOUS
  <1>1. PICK list \in AddressLists : /\ backends = NewBackends(list)
                                     /\ picks = [i \in DOMAIN list |-> 0]
    BY DEF Init
  <1>2. Indices = DOMAIN list
    BY <1>1, NewList DEF Indices
  <1>3. <<>> \in Seq(Nat)
    OBVIOUS
  <1>4. BalancerTypeOK
    <2>1. scan \in [Callers -> ScanRecord]
      BY <1>3, NewScanType DEF Init
    <2>2. current \in 0 .. CounterMod - 1
      BY BalancerAssumption DEF Init
    <2> QED
      BY <1>1, <1>2, <2>1, <2>2, NewList DEF Init, BalancerTypeOK
  <1>5. OwnSteps
    BY DEF Init, OwnSteps
  <1>6. ScanInv
    BY DEF Init, ScanInv, Readers
  <1>7. UnmarkedHealthy
    BY <1>1, <1>2, NewList DEF UnmarkedHealthy, Healthy
  <1> QED
    BY <1>4, <1>5, <1>6, <1>7 DEF BalancerInv

\* A step of caller c that changes no backend's health: what the other callers'
\* loops know stays true, because connections only grow.
LEMMA OthersScan ==
  ASSUME BalancerTypeOK, ScanInv, NEW c \in Callers, Healthy' = Healthy,
         \A d \in Callers : d # c => pc'[d] = pc[d] /\ scan'[d] = scan[d],
         \A i \in Healthy : /\ backends[i].connections \in Nat
                            /\ backends'[i].connections \in Nat
                            /\ backends[i].connections <= backends'[i].connections,
         c \in Readers' => Lists(c)',
         pc'[c] = "scan" => Loop(c)'
  PROVE  ScanInv'
  <1> SUFFICES ASSUME NEW d \in Callers, d # c
               PROVE  /\ d \in Readers' => Lists(d)'
                      /\ pc'[d] = "scan" => Loop(d)'
    BY DEF ScanInv
  <1>1. pc'[d] = pc[d] /\ scan'[d] = scan[d]
    OBVIOUS
  <1>2. d \in Readers' => Lists(d)'
    BY <1>1 DEF ScanInv, Readers, Lists
  <1>3. ASSUME pc'[d] = "scan"
        PROVE  Loop(d)'
    <2>1. Loop(d) /\ Lists(d)
      BY <1>1, <1>3 DEF ScanInv, Readers
    <2>2. CASE scan[d].next = 1
      BY <1>1, <2>1, <2>2 DEF Loop
    <2>3. CASE scan[d].next # 1
      <3>1. ASSUME NEW n \in 1 .. Len(scan[d].healthy), n < scan[d].next
            PROVE  scan[d].min <= backends'[scan[d].healthy[n]].connections
        <4>1. scan[d].healthy[n] \in Healthy
          BY <2>1 DEF Lists
        <4>2. /\ scan[d].min \in Nat
              /\ scan[d].min <= backends[scan[d].healthy[n]].connections
          BY <2>1, <2>3, <3>1 DEF Loop
        <4> QED
          BY <4>1, <4>2
      <3> QED
        BY <1>1, <2>1, <2>3, <3>1 DEF Loop
    <2> QED
      BY <2>2, <2>3
  <1> QED
    BY <1>2, <1>3

\* The same for a step that changes no backend at all.
LEMMA SameBackends ==
  ASSUME BalancerInv, BalancerTypeOK', NEW c \in Callers,
         UNCHANGED <<method, backends, marked>>,
         \A d \in Callers : d # c => pc'[d] = pc[d] /\ scan'[d] = scan[d],
         /\ pc'[c] = "scan" => method = "least_conn"
         /\ pc'[c] \in {"tap", "fix", "use"} => method = "random",
         c \in Readers' => Lists(c)',
         pc'[c] = "scan" => Loop(c)'
  PROVE  BalancerInv'
  <1>1. Healthy' = Healthy /\ Indices' = Indices
    BY DEF Healthy, Indices
  <1>2. \A i \in Healthy : /\ backends[i].connections \in Nat
                           /\ backends'[i].connections \in Nat
                           /\ backends[i].connections <= backends'[i].connections
    BY DEF Healthy, BalancerInv, BalancerTypeOK, BackendRecord
  <1>3. ScanInv'
    BY <1>1, <1>2, OthersScan DEF BalancerInv
  <1>4. OwnSteps' /\ UnmarkedHealthy'
    BY <1>1 DEF BalancerInv, OwnSteps, UnmarkedHealthy
  <1> QED
    BY <1>3, <1>4 DEF BalancerInv

\* SelectBackend returns a backend of the list.
LEMMA SelectedTypes ==
  ASSUME BalancerTypeOK, NEW c \in Callers, NEW i \in Indices, Selected(c, i)
  PROVE  /\ pc' \in [Callers -> {"idle", "scan", "tap", "fix", "use", "proxying"}]
         /\ pc'[c] = "proxying" /\ \A d \in Callers : d # c => pc'[d] = pc[d]
         /\ chosen' \in [Callers -> Addresses \cup {"none"}]
         /\ chosen'[c] = backends[i].address
         /\ picks' \in [Indices -> Nat]
         /\ down' = down /\ marked' = marked
  <1>1. backends[i].address \in Addresses
    BY DEF BalancerTypeOK, BackendRecord
  <1>2. picks' \in [Indices -> Nat]
    BY DEF Selected, BalancerTypeOK
  <1> QED
    BY <1>1, <1>2 DEF Selected, BalancerTypeOK

\* A remainder is the position of a list's member.
LEMMA RemainderInList ==
  ASSUME NEW S, NEW q \in Seq(S), q # <<>>, NEW x \in Nat
  PROVE  (x % Len(q)) + 1 \in 1 .. Len(q) /\ q[(x % Len(q)) + 1] \in S
  <1>1. Len(q) \in Nat \ {0}
    OBVIOUS
  <1>2. x % Len(q) \in 0 .. Len(q) - 1
    BY <1>1, NextRemainder
  <1> QED
    BY <1>1, <1>2

\* RoundRobinBalancer.SelectBackend.
LEMMA RoundRobinInv ==
  ASSUME BalancerInv, NEW c \in Callers, SelectRoundRobin(c), UNCHANGED method
  PROVE  BalancerInv'
  <1> DEFINE h == getHealthyBackends
             i == h[(current' % Len(h)) + 1]
  <1>1. /\ current' = (current + 1) % CounterMod
        /\ wraps' = IF current' = 0 THEN wraps + 1 ELSE wraps
        /\ h # <<>> /\ Selected(c, i) /\ UNCHANGED <<backends, tap, scan>>
    BY DEF SelectRoundRobin
  <1>2. current' \in 0 .. CounterMod - 1 /\ wraps' \in Nat
    <2>1. current + 1 \in Nat
      BY BalancerAssumption DEF BalancerInv, BalancerTypeOK
    <2>2. CounterMod \in Nat \ {0}
      BY BalancerAssumption
    <2>3. (current + 1) % CounterMod \in 0 .. CounterMod - 1
      BY <2>1, <2>2, NextRemainder
    <2>4. wraps \in Nat
      BY DEF BalancerInv, BalancerTypeOK
    <2> QED
      BY <1>1, <2>3, <2>4
  <1>3. h \in Seq(Healthy) /\ current' \in Nat
    BY <1>2, HealthyList DEF BalancerInv
  <1> HIDE DEF h
  <1>4. i \in Indices
    <2>1. i \in Healthy
      BY <1>1, <1>3, RemainderInList
    <2> QED
      BY <2>1 DEF Healthy
  <1> HIDE DEF i
  <1>5. /\ pc' \in [Callers -> {"idle", "scan", "tap", "fix", "use", "proxying"}]
        /\ pc'[c] = "proxying" /\ \A d \in Callers : d # c => pc'[d] = pc[d]
        /\ chosen' \in [Callers -> Addresses \cup {"none"}]
        /\ picks' \in [Indices -> Nat] /\ down' = down /\ marked' = marked
    BY <1>1, <1>4, SelectedTypes DEF BalancerInv
  <1>6. BalancerTypeOK'
    BY <1>1, <1>2, <1>5 DEF BalancerInv, BalancerTypeOK, Indices
  <1> QED
    BY <1>1, <1>5, <1>6, SameBackends DEF Readers

\* LeastConnectionBalancer.SelectBackend and RandomBalancer.SelectBackend make
\* the list of the healthy backends.
LEMMA BeginInv ==
  ASSUME BalancerInv, NEW c \in Callers, UNCHANGED method,
         BeginLeastConn(c) \/ BeginRandom(c)
  PROVE  BalancerInv'
  <1> DEFINE h == getHealthyBackends
  <1>1. PICK at \in {"scan", "tap"} :
          /\ at = "scan" => method = "least_conn"
          /\ at = "tap" => method = "random"
          /\ h # <<>> /\ scan' = [scan EXCEPT ![c] = NewScan(h)]
          /\ pc' = [pc EXCEPT ![c] = at]
          /\ UNCHANGED <<backends, current, tap, chosen, panicked, history>>
    BY DEF BeginLeastConn, BeginRandom
  <1>2. /\ h \in Seq(Healthy) /\ h \in Seq(Nat)
        /\ \A i \in Healthy : \E n \in 1 .. Len(h) : h[n] = i
    BY HealthyList DEF BalancerInv
  <1> HIDE DEF h
  <1>3. /\ scan' \in [Callers -> ScanRecord] /\ scan'[c] = NewScan(h)
        /\ pc' \in [Callers -> {"idle", "scan", "tap", "fix", "use", "proxying"}]
        /\ pc'[c] = at
        /\ \A d \in Callers : d # c => pc'[d] = pc[d] /\ scan'[d] = scan[d]
    BY <1>1, <1>2, NewScanType DEF BalancerInv, BalancerTypeOK
  <1>4. BalancerTypeOK'
    BY <1>1, <1>3 DEF BalancerInv, BalancerTypeOK, history, Indices
  <1>5. Lists(c)' /\ Loop(c)'
    <2>1. Healthy' = Healthy
      BY <1>1 DEF Healthy, Indices
    <2>2. scan'[c].healthy = h /\ scan'[c].next = 1 /\ scan'[c].min = -1
      BY <1>2, <1>3, NewScanType
    <2> QED
      BY <1>1, <1>2, <2>1, <2>2 DEF Lists, Loop
  <1>6. UNCHANGED <<method, backends, marked>>
    BY <1>1 DEF history
  <1> QED
    BY <1>1, <1>3, <1>4, <1>5, <1>6, SameBackends

\* One backend is read: min is the least so far.
LEMMA ScanBackendInv ==
  ASSUME BalancerInv, NEW c \in Callers, ScanBackend(c), UNCHANGED method
  PROVE  BalancerInv'
  <1> DEFINE i == scan[c].healthy[scan[c].next]
             better == scan[c].min = -1 \/ backends[i].connections < scan[c].min
  <1>1. /\ pc[c] = "scan" /\ scan[c].next <= Len(scan[c].healthy)
        /\ scan' = [scan EXCEPT ![c] =
              IF better
              THEN [scan[c] EXCEPT !.next = scan[c].next + 1,
                                   !.min = backends[i].connections, !.selected = i]
              ELSE [scan[c] EXCEPT !.next = scan[c].next + 1]]
        /\ UNCHANGED <<backends, current, tap, pc, chosen, panicked, history>>
    BY DEF ScanBackend
  <1>2. Lists(c) /\ Loop(c)
    BY <1>1 DEF BalancerInv, ScanInv, Readers
  <1>3. scan[c] \in ScanRecord
    BY DEF BalancerInv, BalancerTypeOK
  <1>4. scan[c].next \in 1 .. Len(scan[c].healthy) /\ scan[c].next \in Nat \ {0}
    BY <1>1, <1>3 DEF ScanRecord
  <1>5. i \in Healthy /\ i \in Indices /\ i \in Nat /\ backends[i].connections \in Nat
    <2>1. i \in Healthy
      BY <1>2, <1>4 DEF Lists
    <2>2. backends[i] \in BackendRecord /\ i \in Indices
      BY <2>1 DEF BalancerInv, BalancerTypeOK, Healthy
    <2> QED
      BY <2>1, <2>2, HealthyList DEF BackendRecord, BalancerInv
  <1> HIDE DEF i
  <1>6. /\ scan' \in [Callers -> ScanRecord]
        /\ scan'[c].healthy = scan[c].healthy /\ scan'[c].next = scan[c].next + 1
        /\ better => scan'[c].min = backends[i].connections /\ scan'[c].selected = i
        /\ ~better => scan'[c].min = scan[c].min /\ scan'[c].selected = scan[c].selected
        /\ \A d \in Callers : d # c => scan'[d] = scan[d]
    <2> HIDE DEF better
    <2>1. scan \in [Callers -> ScanRecord]
      BY DEF BalancerInv, BalancerTypeOK
    <2>2. CASE better
      <3>1. scan' = [scan EXCEPT ![c] = [scan[c] EXCEPT !.next = scan[c].next + 1,
                        !.min = backends[i].connections, !.selected = i]]
        BY <1>1, <2>2
      <3>2. [scan[c] EXCEPT !.next = scan[c].next + 1,
                !.min = backends[i].connections, !.selected = i] \in ScanRecord
        <4>1. scan[c].next + 1 \in Nat \ {0} /\ backends[i].connections \in Int
          BY <1>4, <1>5
        <4> QED
          BY <1>3, <1>5, <4>1 DEF ScanRecord
      <3> QED
        BY <1>3, <2>1, <2>2, <3>1, <3>2 DEF ScanRecord
    <2>3. CASE ~better
      <3>1. scan' = [scan EXCEPT ![c] = [scan[c] EXCEPT !.next = scan[c].next + 1]]
        BY <1>1, <2>3
      <3>2. [scan[c] EXCEPT !.next = scan[c].next + 1] \in ScanRecord
        <4>1. scan[c].next + 1 \in Nat \ {0}
          BY <1>4
        <4> QED
          BY <1>3, <4>1 DEF ScanRecord
      <3> QED
        BY <1>3, <2>1, <2>3, <3>1, <3>2 DEF ScanRecord
    <2> QED
      BY <2>2, <2>3
  <1>7. BalancerTypeOK'
    BY <1>1, <1>6 DEF BalancerInv, BalancerTypeOK, history, Indices
  <1>8. Healthy' = Healthy
    BY <1>1 DEF Healthy, Indices
  <1>9. Lists(c)'
    BY <1>2, <1>6, <1>8 DEF Lists
  <1>10. Loop(c)'
    <2>1. scan'[c].min \in Nat /\ scan'[c].selected \in Healthy
      BY <1>2, <1>5, <1>6 DEF Loop
    <2>2. ASSUME NEW n \in 1 .. Len(scan[c].healthy), n < scan[c].next + 1
          PROVE  scan'[c].min <= backends[scan[c].healthy[n]].connections
      <3>1. scan[c].healthy[n] \in Healthy
        BY <1>2 DEF Lists
      <3>2. backends[scan[c].healthy[n]].connections \in Nat
        BY <3>1 DEF Healthy, BalancerInv, BalancerTypeOK, BackendRecord
      <3>3. CASE n = scan[c].next
        <4>1. scan[c].healthy[n] = i
          BY <3>3 DEF i
        <4>2. better => scan'[c].min = backends[i].connections
          BY <1>6
        <4>3. ~better => scan'[c].min = scan[c].min /\ scan[c].min \in Int
          BY <1>3, <1>6 DEF ScanRecord
        <4> QED
          BY <1>5, <4>1, <4>2, <4>3
      <3>4. CASE n # scan[c].next
        <4>1. n < scan[c].next /\ scan[c].next # 1
          BY <1>4, <2>2, <3>4
        <4>2. scan[c].min \in Nat /\ scan[c].min <= backends[scan[c].healthy[n]].connections
          BY <1>2, <4>1 DEF Loop
        <4> QED
          BY <1>5, <1>6, <3>2, <4>2
      <3> QED
        BY <3>3, <3>4
    <2>3. scan'[c].next # 1
      BY <1>4, <1>6
    <2> QED
      BY <1>1, <1>2, <1>6, <1>8, <2>1, <2>2, <2>3 DEF Loop
  <1>11. OwnSteps' /\ UNCHANGED <<method, backends, marked>>
    BY <1>1 DEF BalancerInv, OwnSteps, history
  <1> QED
    BY <1>1, <1>6, <1>7, <1>9, <1>10, <1>11, SameBackends DEF OwnSteps

\* One more connection of a backend.
LEMMA Incremented ==
  ASSUME BalancerTypeOK, NEW i \in Indices, IncrementConnections(i)
  PROVE  /\ Indices' = Indices /\ Healthy' = Healthy
         /\ backends' \in [Indices -> BackendRecord]
         /\ backends'[i].connections = backends[i].connections + 1
         /\ \A j \in Indices : /\ backends'[j].address = backends[j].address
                               /\ backends'[j].healthy = backends[j].healthy
                               /\ j # i => backends'[j] = backends[j]
  <1>1. backends' = [backends EXCEPT ![i].connections = backends[i].connections + 1]
    BY DEF IncrementConnections
  <1>2. backends[i] \in BackendRecord
    BY DEF BalancerTypeOK
  <1>3. [backends[i] EXCEPT !.connections = backends[i].connections + 1] \in BackendRecord
    BY <1>2 DEF BackendRecord
  <1>4. /\ Indices' = Indices /\ backends' \in [Indices -> BackendRecord]
        /\ backends'[i] = [backends[i] EXCEPT !.connections = backends[i].connections + 1]
        /\ \A j \in Indices : j # i => backends'[j] = backends[j]
    BY <1>1, <1>3 DEF BalancerTypeOK, Indices
  <1>5. /\ backends'[i].connections = backends[i].connections + 1
        /\ backends'[i].address = backends[i].address
        /\ backends'[i].healthy = backends[i].healthy
    BY <1>2, <1>4 DEF BackendRecord
  <1>6. Healthy' = Healthy
    BY <1>4, <1>5 DEF Healthy
  <1> QED
    BY <1>4, <1>5, <1>6

\* After the loop: min is at most what any healthy backend has.
LEMMA LoopEnded ==
  ASSUME BalancerInv, NEW c \in Callers, pc[c] = "scan",
         scan[c].next > Len(scan[c].healthy)
  PROVE  /\ scan[c].next # 1 /\ scan[c].selected \in Healthy
         /\ scan[c].selected \in Indices /\ scan[c].min \in Nat
         /\ \A i \in Healthy : scan[c].min <= backends[i].connections
  <1>1. Lists(c) /\ Loop(c)
    BY DEF BalancerInv, ScanInv, Readers
  <1>2. scan[c].next \in Nat /\ Len(scan[c].healthy) \in Nat /\ Len(scan[c].healthy) # 0
    <2>1. scan[c] \in ScanRecord
      BY DEF BalancerInv, BalancerTypeOK
    <2> QED
      BY <1>1, <2>1 DEF ScanRecord, Loop
  <1>3. scan[c].next # 1 /\ scan[c].selected \in Healthy /\ scan[c].min \in Nat
    BY <1>1, <1>2 DEF Loop
  <1>4. ASSUME NEW i \in Healthy
        PROVE  scan[c].min <= backends[i].connections
    <2>1. PICK n \in 1 .. Len(scan[c].healthy) : scan[c].healthy[n] = i
      BY <1>1 DEF Lists
    <2>2. n < scan[c].next
      BY <1>2
    <2> QED
      BY <1>1, <1>3, <2>1, <2>2 DEF Loop
  <1> QED
    BY <1>3, <1>4 DEF Healthy

\* LeastConnectionBalancer.SelectBackend increments and returns.
LEMMA EndLeastConnInv ==
  ASSUME BalancerInv, NEW c \in Callers, EndLeastConn(c), UNCHANGED method
  PROVE  BalancerInv'
  <1>1. PICK i \in Indices : i = scan[c].selected
    BY LoopEnded DEF EndLeastConn
  <1>2. /\ IncrementConnections(i) /\ Selected(c, i)
        /\ scan' = [scan EXCEPT ![c] = NewScan(<<>>)] /\ UNCHANGED <<current, tap, wraps>>
    BY <1>1 DEF EndLeastConn
  <1>3. /\ Indices' = Indices /\ Healthy' = Healthy
        /\ backends' \in [Indices -> BackendRecord]
        /\ backends'[i].connections = backends[i].connections + 1
        /\ \A j \in Indices : j # i => backends'[j] = backends[j]
    BY <1>2, Incremented DEF BalancerInv
  <1>4. /\ pc' \in [Callers -> {"idle", "scan", "tap", "fix", "use", "proxying"}]
        /\ pc'[c] = "proxying" /\ \A d \in Callers : d # c => pc'[d] = pc[d]
        /\ chosen' \in [Callers -> Addresses \cup {"none"}]
        /\ picks' \in [Indices -> Nat] /\ down' = down /\ marked' = marked
    BY <1>2, SelectedTypes DEF BalancerInv
  <1>5. scan' \in [Callers -> ScanRecord] /\ \A d \in Callers : d # c => scan'[d] = scan[d]
    <2>1. NewScan(<<>>) \in ScanRecord
      <3>1. <<>> \in Seq(Nat)
        OBVIOUS
      <3> QED
        BY <3>1, NewScanType
    <2> QED
      BY <1>2, <2>1 DEF BalancerInv, BalancerTypeOK
  <1>6. BalancerTypeOK'
    BY <1>2, <1>3, <1>4, <1>5 DEF BalancerInv, BalancerTypeOK
  <1>7. ScanInv'
    <2>1. \A j \in Healthy : /\ backends[j].connections \in Nat
                             /\ backends'[j].connections \in Nat
                             /\ backends[j].connections <= backends'[j].connections
      <3>1. \A j \in Indices : backends[j] \in BackendRecord /\ backends'[j] \in BackendRecord
        BY <1>3 DEF BalancerInv, BalancerTypeOK
      <3>2. \A j \in Indices : /\ backends[j].connections \in Nat
                               /\ backends'[j].connections \in Nat
        BY <3>1 DEF BackendRecord
      <3>3. \A j \in Indices : backends[j].connections <= backends'[j].connections
        BY <1>3, <3>2
      <3> QED
        BY <3>2, <3>3 DEF Healthy
    <2>2. c \notin Readers' /\ pc'[c] # "scan"
      BY <1>4 DEF Readers
    <2> QED
      BY <1>3, <1>4, <1>5, <2>1, <2>2, OthersScan DEF BalancerInv
  <1>8. OwnSteps' /\ UnmarkedHealthy'
    BY <1>3, <1>4 DEF BalancerInv, OwnSteps, UnmarkedHealthy
  <1> QED
    BY <1>6, <1>7, <1>8 DEF BalancerInv

\* The generator's steps, and a request that ends.
LEMMA TapInv ==
  ASSUME BalancerInv, NEW c \in Callers, UNCHANGED method,
         DecrementTap(c) \/ FixTap(c) \/ FinishRequest(c)
  PROVE  BalancerInv'
  <1>1. PICK at \in {"fix", "use", "idle"} :
          /\ pc' = [pc EXCEPT ![c] = at]
          /\ at \in {"fix", "use"} => c \in Readers /\ method = "random"
          /\ UNCHANGED <<backends, current, scan, picks, wraps, down, marked>>
    BY DEF DecrementTap, FixTap, FinishRequest, history, Readers, BalancerInv, OwnSteps
  <1>2. chosen' \in [Callers -> Addresses \cup {"none"}]
    BY DEF DecrementTap, FixTap, FinishRequest, BalancerInv, BalancerTypeOK
  <1>3. /\ pc' \in [Callers -> {"idle", "scan", "tap", "fix", "use", "proxying"}]
        /\ pc'[c] = at /\ \A d \in Callers : d # c => pc'[d] = pc[d]
    BY <1>1 DEF BalancerInv, BalancerTypeOK
  <1>4. BalancerTypeOK'
    BY <1>1, <1>2, <1>3 DEF BalancerInv, BalancerTypeOK, Indices
  <1>5. c \in Readers' => Lists(c)'
    <2>1. c \in Readers' => c \in Readers
      BY <1>1, <1>3 DEF Readers
    <2>2. Healthy' = Healthy
      BY <1>1 DEF Healthy, Indices
    <2> QED
      BY <1>1, <2>1, <2>2 DEF BalancerInv, ScanInv, Lists
  <1> QED
    BY <1>1, <1>3, <1>4, <1>5, SameBackends

\* RandomBalancer.SelectBackend returns, or panics.
LEMMA UseTapInv ==
  ASSUME BalancerInv, NEW c \in Callers, UseTap(c), UNCHANGED method
  PROVE  BalancerInv'
  <1>1. /\ pc[c] = "use" /\ scan' = [scan EXCEPT ![c] = NewScan(<<>>)]
        /\ UNCHANGED <<backends, current, tap, wraps>>
    BY DEF UseTap
  <1>2. /\ pc' \in [Callers -> {"idle", "scan", "tap", "fix", "use", "proxying"}]
        /\ pc'[c] \in {"idle", "proxying"} /\ \A d \in Callers : d # c => pc'[d] = pc[d]
        /\ chosen' \in [Callers -> Addresses \cup {"none"}]
        /\ picks' \in [Indices -> Nat] /\ down' = down /\ marked' = marked
    <2>1. CASE tap \in 0 .. RngLen - 1
      <3>1. PICK n \in 1 .. Len(scan[c].healthy) : Selected(c, scan[c].healthy[n])
        BY <2>1 DEF UseTap
      <3>2. scan[c].healthy[n] \in Indices
        <4>1. Lists(c)
          BY <1>1 DEF BalancerInv, ScanInv, Readers
        <4>2. scan[c].healthy[n] \in Healthy
          BY <4>1 DEF Lists
        <4> QED
          BY <4>2 DEF Healthy
      <3> QED
        BY <3>1, <3>2, SelectedTypes DEF BalancerInv
    <2>2. CASE tap \notin 0 .. RngLen - 1
      BY <2>2 DEF UseTap, BalancerInv, BalancerTypeOK
    <2> QED
      BY <2>1, <2>2
  <1>3. scan' \in [Callers -> ScanRecord] /\ \A d \in Callers : d # c => scan'[d] = scan[d]
    <2>1. NewScan(<<>>) \in ScanRecord
      <3>1. <<>> \in Seq(Nat)
        OBVIOUS
      <3> QED
        BY <3>1, NewScanType
    <2> QED
      BY <1>1, <2>1 DEF BalancerInv, BalancerTypeOK
  <1>4. BalancerTypeOK'
    BY <1>1, <1>2, <1>3 DEF BalancerInv, BalancerTypeOK, Indices
  <1> QED
    BY <1>1, <1>2, <1>3, <1>4, SameBackends DEF Readers

\* UpdateBackends, when nobody selects.
LEMMA UpdateInv ==
  ASSUME BalancerInv, NEW list \in AddressLists, UpdateBackends(list), UNCHANGED method
  PROVE  BalancerInv'
  <1>1. /\ Readers = {} /\ backends' = NewBackends(list) /\ current' = 0
        /\ picks' = [i \in DOMAIN list |-> 0] /\ wraps' = 0 /\ down' = {} /\ marked' = FALSE
        /\ UNCHANGED <<pc, scan, chosen>>
    BY DEF UpdateBackends, reqVars
  <1>2. Indices' = DOMAIN list
    BY <1>1, NewList DEF Indices
  <1>3. BalancerTypeOK'
    <2>1. 0 \in 0 .. CounterMod - 1
      BY BalancerAssumption
    <2> QED
      BY <1>1, <1>2, <2>1, NewList DEF BalancerInv, BalancerTypeOK
  <1>4. Readers' = {} /\ ScanInv'
    BY <1>1 DEF Readers, ScanInv
  <1>5. UnmarkedHealthy'
    BY <1>1, <1>2, NewList DEF UnmarkedHealthy, Healthy
  <1> QED
    BY <1>1, <1>3, <1>4, <1>5 DEF BalancerInv, OwnSteps

\* MarkHealthy and MarkUnhealthy change the health of the first match.
LEMMA FirstSet ==
  ASSUME BalancerTypeOK, NEW address, NEW healthy \in BOOLEAN,
         backends' = SetFirst(address, healthy)
  PROVE  /\ Indices' = Indices /\ backends' \in [Indices -> BackendRecord]
         /\ \A i \in Indices :
               /\ backends'[i].address = backends[i].address
               /\ backends'[i].connections = backends[i].connections
               /\ backends[i].address # address => backends'[i] = backends[i]
               /\ \/ backends'[i] = backends[i]
                  \/ backends'[i].healthy = healthy
               /\ /\ backends[i].address = address
                  /\ \A j \in Indices : backends[j].address = address => j = i
                  => backends'[i].healthy = healthy
  <1> DEFINE matches == {i \in Indices : backends[i].address = address}
             first == {i \in matches : \A j \in matches : i <= j}
  <1>1. backends' = [i \in Indices |-> IF i \in first
                        THEN [backends[i] EXCEPT !.healthy = healthy] ELSE backends[i]]
    BY DEF SetFirst
  <1>2. \A i \in first : i \in Indices /\ backends[i].address = address
    OBVIOUS
  <1>6. ASSUME NEW i \in Indices, backends[i].address = address,
               \A j \in Indices : backends[j].address = address => j = i
        PROVE  i \in first
    <2>1. i \in Nat
      BY DEF BalancerTypeOK
    <2> QED
      BY <1>6, <2>1
  <1> HIDE DEF first
  <1>3. ASSUME NEW i \in Indices
        PROVE  LET b == [backends[i] EXCEPT !.healthy = healthy]
               IN  /\ b \in BackendRecord /\ backends[i] \in BackendRecord
                   /\ b.address = backends[i].address
                   /\ b.connections = backends[i].connections /\ b.healthy = healthy
    <2>1. backends[i] \in BackendRecord
      BY DEF BalancerTypeOK
    <2> QED
      BY <2>1 DEF BackendRecord
  <1>4. Indices' = Indices
    BY <1>1 DEF Indices
  <1>5. backends' \in [Indices -> BackendRecord]
    BY <1>1, <1>3
  <1> QED
    BY <1>1, <1>2, <1>3, <1>4, <1>5, <1>6

\* A health mark, when nobody selects.
LEMMA MarkInv ==
  ASSUME BalancerInv, NEW address \in Addresses, UNCHANGED method,
         MarkHealthy(address) \/ MarkUnhealthy(address)
  PROVE  BalancerInv'
  <1>1. PICK healthy \in BOOLEAN : backends' = SetFirst(address, healthy)
    BY DEF MarkHealthy, MarkUnhealthy
  <1>2. /\ Readers = {} /\ MarkHistory /\ down' \in SUBSET Addresses
        /\ UNCHANGED <<current, pc, scan, chosen>>
    BY DEF MarkHealthy, MarkUnhealthy, reqVars, BalancerInv, BalancerTypeOK
  <1>3. Indices' = Indices /\ backends' \in [Indices -> BackendRecord]
    BY <1>1, FirstSet DEF BalancerInv
  <1>4. picks' \in [Indices -> Nat] /\ wraps' \in Nat /\ marked'
    BY <1>2 DEF MarkHistory, BalancerInv, BalancerTypeOK
  <1>5. BalancerTypeOK'
    BY <1>2, <1>3, <1>4 DEF BalancerInv, BalancerTypeOK, MarkHistory
  <1>6. Readers' = {} /\ ScanInv'
    BY <1>2 DEF Readers, ScanInv
  <1> QED
    BY <1>2, <1>4, <1>5, <1>6 DEF BalancerInv, OwnSteps, UnmarkedHealthy

\* Every step keeps it.
LEMMA BalancerNextInv == BalancerInv /\ [Next]_vars => BalancerInv'
  <1> SUFFICES ASSUME BalancerInv, [Next]_vars
               PROVE  BalancerInv'
    OBVIOUS
  <1>1. CASE UNCHANGED vars
    <2>1. UNCHANGED <<method, backends, current, pc, scan, chosen, picks, wraps, down, marked>>
      BY <1>1 DEF vars, reqVars, history
    <2>2. BalancerTypeOK' /\ OwnSteps'
      BY <2>1 DEF BalancerInv, BalancerTypeOK, OwnSteps, Indices
    <2>3. Healthy' = Healthy /\ Readers' = Readers
      BY <2>1 DEF Healthy, Indices, Readers
    <2>4. ScanInv'
      BY <2>1, <2>3 DEF BalancerInv, ScanInv, Lists, Loop
    <2>5. UnmarkedHealthy'
      BY <2>1, <2>3 DEF BalancerInv, UnmarkedHealthy, Indices
    <2> QED
      BY <2>2, <2>4, <2>5 DEF BalancerInv
  <1> QED
    BY <1>1, RoundRobinInv, BeginInv, ScanBackendInv, EndLeastConnInv, TapInv,
       UseTapInv,
       UpdateInv, MarkInv
    DEF Next, SelectBackend

\* The invariant of the selections holds in every reachable state.
THEOREM BalancerInvariance == Spec => []BalancerInv
  BY BalancerInitInv, BalancerNextInv, PTL DEF Spec

-----------------------------------------------------------------------------
\* A caller's step changes nobody's health and no history of the marks, and a
\* selection that it ends returns a healthy backend.
LEMMA CallerStep ==
  ASSUME BalancerInv, NEW c \in Callers, SelectBackend(c) \/ FinishRequest(c)
  PROVE  /\ down' = down /\ marked' = marked /\ Indices' = Indices
         /\ \A i \in Indices : /\ backends'[i].address = backends[i].address
                               /\ backends'[i].healthy = backends[i].healthy
         /\ \A d \in Callers : pc[d] # "proxying" /\ pc'[d] = "proxying" =>
               \E i \in Healthy : chosen'[d] = backends[i].address
  <1>1. ASSUME NEW i \in Healthy, Selected(c, i)
        PROVE  /\ down' = down /\ marked' = marked
               /\ \A d \in Callers : pc[d] # "proxying" /\ pc'[d] = "proxying" =>
                     chosen'[d] = backends[i].address
    <2>1. i \in Indices
      BY DEF Healthy
    <2> QED
      BY <1>1, <2>1, SelectedTypes DEF BalancerInv
  <1>2. CASE SelectRoundRobin(c)
    <2>1. current' \in Nat
      <3>1. current + 1 \in Nat /\ CounterMod \in Nat \ {0}
        BY BalancerAssumption DEF BalancerInv, BalancerTypeOK
      <3>2. (current + 1) % CounterMod \in Nat
        BY <3>1, NextRemainder
      <3> QED
        BY <1>2, <3>2 DEF SelectRoundRobin
    <2>2. PICK i \in Healthy : Selected(c, i)
      BY <1>2, <2>1, HealthyList, RemainderInList DEF SelectRoundRobin, BalancerInv
    <2> QED
      BY <1>1, <1>2, <2>2 DEF SelectRoundRobin, Indices
  <1>3. CASE EndLeastConn(c)
    <2>1. PICK i \in Healthy : i = scan[c].selected
      BY <1>3, LoopEnded DEF EndLeastConn
    <2>2. Selected(c, i) /\ IncrementConnections(i) /\ i \in Indices
      BY <1>3, <2>1 DEF EndLeastConn, Healthy
    <2> QED
      BY <1>1, <2>2, Incremented DEF BalancerInv
  <1>4. CASE UseTap(c)
    <2>1. CASE tap \in 0 .. RngLen - 1
      <3>1. PICK n \in 1 .. Len(scan[c].healthy) : Selected(c, scan[c].healthy[n])
        BY <1>4, <2>1 DEF UseTap
      <3>2. Lists(c)
        BY <1>4 DEF UseTap, BalancerInv, ScanInv, Readers
      <3>3. scan[c].healthy[n] \in Healthy
        BY <3>2 DEF Lists
      <3> QED
        BY <1>1, <1>4, <3>1, <3>3 DEF UseTap, Indices
    <2>2. CASE tap \notin 0 .. RngLen - 1
      BY <1>4, <2>2 DEF UseTap, Indices, BalancerInv, BalancerTypeOK
    <2> QED
      BY <2>1, <2>2
  <1>5. CASE \/ BeginLeastConn(c) \/ ScanBackend(c) \/ BeginRandom(c) \/ DecrementTap(c)
             \/ FixTap(c) \/ FinishRequest(c)
    <2>1. UNCHANGED <<backends, down, marked>>
      BY <1>5 DEF BeginLeastConn, ScanBackend, BeginRandom, DecrementTap, FixTap,
                  FinishRequest, history
    <2>2. \A d \in Callers : pc'[d] = "proxying" => pc[d] = "proxying"
      BY <1>5 DEF BeginLeastConn, ScanBackend, BeginRandom, DecrementTap, FixTap,
                  FinishRequest, BalancerInv, BalancerTypeOK
    <2> QED
      BY <2>1, <2>2 DEF Indices
  <1> QED
    BY <1>2, <1>3, <1>4, <1>5 DEF SelectBackend

\* No list names an address twice.
Distinct == \A list \in AddressLists : \A i, j \in DOMAIN list : list[i] = list[j] => i = j

\* The backend of an address that is marked unhealthy is unhealthy.
DownInv ==
    /\ \A i, j \in Indices : backends[i].address = backends[j].address => i = j
    /\ \A i \in Indices : backends[i].address \in down => ~backends[i].healthy

\* A mark reaches the only backend of its address, and an update forgets the
\* marks.
LEMMA DownNextInv ==
  ASSUME Distinct, BalancerInv, DownInv, [Next]_vars
  PROVE  DownInv'
  <1>1. CASE UNCHANGED vars
    BY <1>1 DEF vars, history, DownInv, Indices
  <1>2. ASSUME NEW c \in Callers, SelectBackend(c) \/ FinishRequest(c)
        PROVE  DownInv'
    BY <1>2, CallerStep DEF DownInv
  <1>3. ASSUME NEW list \in AddressLists, UpdateBackends(list)
        PROVE  DownInv'
    <2>1. backends' = NewBackends(list) /\ down' = {}
      BY <1>3 DEF UpdateBackends
    <2> QED
      BY <2>1, NewList DEF DownInv, Indices, Distinct
  <1>4. ASSUME NEW address \in Addresses, MarkHealthy(address) \/ MarkUnhealthy(address)
        PROVE  DownInv'
    <2>1. PICK healthy \in BOOLEAN :
             /\ backends' = SetFirst(address, healthy)
             /\ down' = IF healthy THEN down \ {address} ELSE down \cup {address}
      BY <1>4 DEF MarkHealthy, MarkUnhealthy
    <2>2. /\ Indices' = Indices
          /\ \A i \in Indices :
               /\ backends'[i].address = backends[i].address
               /\ backends[i].address # address => backends'[i] = backends[i]
               /\ backends[i].address = address => backends'[i].healthy = healthy
      BY <2>1, FirstSet DEF BalancerInv, DownInv
    <2>3. ASSUME NEW i \in Indices, backends[i].address \in down'
          PROVE  ~backends'[i].healthy
      <3>1. CASE backends[i].address = address
        BY <2>1, <2>2, <2>3, <3>1
      <3>2. CASE backends[i].address # address
        BY <2>1, <2>2, <2>3, <3>2 DEF DownInv
      <3> QED
        BY <3>1, <3>2
    <2> QED
      BY <2>2, <2>3 DEF DownInv
  <1> QED
    BY <1>1, <1>2, <1>3, <1>4 DEF Next

\* If no list names an address twice, no request is sent to an address whose
\* last mark was unhealthy, with all three balancers and however marks and
\* selections overlap (SelectBackend and MarkUnhealthy of
\* balancer.go).  Without the hypothesis it is false: MarkUnhealthy stops at the
\* first backend of the address.
THEOREM DownNotSelectedCorrect ==
  ASSUME Distinct
  PROVE  Spec => DownNotSelected
  <1>1. Init => DownInv
    <2> SUFFICES ASSUME Init PROVE DownInv
      OBVIOUS
    <2>1. PICK list \in AddressLists : backends = NewBackends(list)
      BY DEF Init
    <2> QED
      BY <2>1, NewList DEF Init, DownInv, Indices, Distinct
  <1>2. BalancerInv /\ DownInv /\ [Next]_vars => DownInv'
    BY DownNextInv
  <1>3. BalancerInv /\ DownInv /\ [Next]_vars =>
          [\A c \in Callers :
              pc[c] # "proxying" /\ pc'[c] = "proxying" => chosen'[c] \notin down]_vars
    <2> SUFFICES ASSUME BalancerInv, DownInv, Next, NEW d \in Callers,
                        pc[d] # "proxying", pc'[d] = "proxying"
                 PROVE  chosen'[d] \notin down
      OBVIOUS
    <2>1. PICK c \in Callers : SelectBackend(c) \/ FinishRequest(c)
      BY DEF Next, UpdateBackends, MarkHealthy, MarkUnhealthy, reqVars
    <2>2. PICK i \in Healthy : chosen'[d] = backends[i].address
      BY <2>1, CallerStep
    <2> QED
      BY <2>2 DEF DownInv, Healthy
  <1> QED
    BY <1>1, <1>2, <1>3, BalancerInvariance, PTL DEF Spec, DownNotSelected

-----------------------------------------------------------------------------
\* The callers whose loop has backend i for the least so far, with at most l
\* connections when it was read.
Bets(i, l) ==
    {c \in Callers : /\ pc[c] = "scan" /\ scan[c].next # 1
                     /\ scan[c].selected = i /\ scan[c].min <= l}

\* From what the least loaded backend has upwards, every level bounds the
\* connections of every backend together with those that callers are about to
\* add because they saw it at or below the level.
LeastInv ==
    method = "least_conn" /\ ~marked =>
        \A i, k \in Indices, l \in Nat :
            backends[k].connections <= l =>
                backends[i].connections + Cardinality(Bets(i, l)) <= l + Cardinality(Callers)

\* There are at most as many bets as callers.
LEMMA FewBets ==
  ASSUME NEW S \in SUBSET Callers
  PROVE  /\ IsFiniteSet(S) /\ Cardinality(S) \in Nat /\ Cardinality(Callers) \in Nat
         /\ Cardinality(S) <= Cardinality(Callers)
         /\ \A T \in SUBSET S : Cardinality(T) \in Nat /\ Cardinality(T) <= Cardinality(S)
  BY BalancerAssumption, FS_Subset, FS_CardinalityType

\* What a backend has is a number.
LEMMA ConnectionsType ==
  ASSUME BalancerTypeOK, NEW i \in Indices
  PROVE  backends[i].connections \in Nat
  BY DEF BalancerTypeOK, BackendRecord

\* A step that adds no connection and no bet.
LEMMA FewerBets ==
  ASSUME BalancerTypeOK, LeastInv, UNCHANGED <<method, marked, backends>>,
         method = "least_conn", ~marked, NEW i \in Indices, NEW k \in Indices, NEW l \in Nat,
         backends[k].connections <= l, Bets(i, l)' \subseteq Bets(i, l)
  PROVE  backends'[i].connections + Cardinality(Bets(i, l)') <= l + Cardinality(Callers)
  <1>1. Bets(i, l) \in SUBSET Callers /\ Bets(i, l)' \in SUBSET Bets(i, l)
    BY DEF Bets
  <1>2. /\ Cardinality(Bets(i, l)) \in Nat /\ Cardinality(Bets(i, l)') \in Nat
        /\ Cardinality(Bets(i, l)') <= Cardinality(Bets(i, l)) /\ Cardinality(Callers) \in Nat
    BY <1>1, FewBets
  <1>3. backends[i].connections + Cardinality(Bets(i, l)) <= l + Cardinality(Callers)
    BY DEF LeastInv
  <1> QED
    BY <1>2, <1>3, ConnectionsType

\* One backend is read: who changes to it saw less than all the levels at hand.
LEMMA ScanLeast ==
  ASSUME BalancerInv, LeastInv, NEW c \in Callers, ScanBackend(c), UNCHANGED method
  PROVE  LeastInv'
  <1> SUFFICES ASSUME method = "least_conn", ~marked, NEW i \in Indices, NEW k \in Indices,
                      NEW l \in Nat, backends[k].connections <= l
               PROVE  backends'[i].connections + Cardinality(Bets(i, l)')
                         <= l + Cardinality(Callers)
    BY DEF LeastInv, ScanBackend, history, Indices
  <1>1. /\ pc[c] = "scan" /\ UNCHANGED <<pc, backends, marked>>
        /\ scan[c].next <= Len(scan[c].healthy) /\ scan[c] \in ScanRecord
        /\ scan \in [Callers -> ScanRecord]
    BY DEF ScanBackend, history, BalancerInv, BalancerTypeOK
  <1>2. Lists(c) /\ Loop(c)
    BY <1>1 DEF BalancerInv, ScanInv, Readers
  <1>3. PICK j \in Indices : j = scan[c].healthy[scan[c].next]
    <2>1. scan[c].next \in 1 .. Len(scan[c].healthy)
      BY <1>1 DEF ScanRecord
    <2> QED
      BY <1>2, <2>1 DEF Lists, Healthy
  <1>4. \A d \in Callers : d # c => scan'[d] = scan[d]
    BY <1>1 DEF ScanBackend
  <1>5. \/ /\ scan'[c].selected = j /\ scan'[c].min = backends[j].connections
        \/ /\ scan'[c].selected = scan[c].selected /\ scan'[c].min = scan[c].min
           /\ scan[c].next # 1
    <2>1. CASE scan[c].min = -1 \/ backends[j].connections < scan[c].min
      BY <1>1, <1>3, <2>1 DEF ScanBackend, ScanRecord
    <2>2. CASE ~(scan[c].min = -1 \/ backends[j].connections < scan[c].min)
      BY <1>1, <1>2, <1>3, <2>2 DEF ScanBackend, ScanRecord, Loop
    <2> QED
      BY <2>1, <2>2
  <1>6. CASE c \in Bets(i, l)' /\ c \notin Bets(i, l)
    <2>1. scan'[c].selected = i /\ scan'[c].min <= l
      BY <1>6 DEF Bets
    <2>2. i = j /\ backends[i].connections <= l
      BY <1>1, <1>5, <1>6, <2>1 DEF Bets
    <2>3. Bets(i, l)' \in SUBSET Callers
      BY DEF Bets
    <2>4. /\ Cardinality(Bets(i, l)') \in Nat /\ Cardinality(Callers) \in Nat
          /\ Cardinality(Bets(i, l)') <= Cardinality(Callers)
      BY <2>3, FewBets
    <2> QED
      BY <1>1, <2>2, <2>4, ConnectionsType DEF BalancerInv
  <1>7. CASE ~(c \in Bets(i, l)' /\ c \notin Bets(i, l))
    <2>1. Bets(i, l)' \subseteq Bets(i, l)
      BY <1>1, <1>4, <1>7 DEF Bets
    <2> QED
      BY <1>1, <2>1, FewerBets DEF BalancerInv
  <1> QED
    BY <1>6, <1>7

\* The increment: it turns a bet at every level at hand into a connection.
LEMMA EndLeast ==
  ASSUME BalancerInv, LeastInv, NEW c \in Callers, EndLeastConn(c), UNCHANGED method
  PROVE  LeastInv'
  <1>1. PICK s \in Indices : s = scan[c].selected
    BY LoopEnded DEF EndLeastConn
  <1>2. IncrementConnections(s) /\ Selected(c, s) /\ pc[c] = "scan"
    BY <1>1 DEF EndLeastConn
  <1>3. /\ pc'[c] = "proxying" /\ \A d \in Callers : d # c => pc'[d] = pc[d]
        /\ marked' = marked
    BY <1>2, SelectedTypes DEF BalancerInv
  <1>4. \A d \in Callers : d # c => scan'[d] = scan[d]
    BY DEF EndLeastConn, BalancerInv, BalancerTypeOK
  <1>5. /\ Indices' = Indices /\ backends'[s].connections = backends[s].connections + 1
        /\ \A j \in Indices : j # s => backends'[j] = backends[j]
    BY <1>2, Incremented DEF BalancerInv
  <1> SUFFICES ASSUME method = "least_conn", ~marked, NEW i \in Indices, NEW k \in Indices,
                      NEW l \in Nat, backends'[k].connections <= l
               PROVE  backends'[i].connections + Cardinality(Bets(i, l)')
                         <= l + Cardinality(Callers)
    BY <1>3, <1>5 DEF LeastInv
  <1>6. backends[k].connections <= l /\ backends[k].connections \in Nat
    <2>1. backends[k].connections \in Nat
      BY ConnectionsType DEF BalancerInv
    <2> QED
      BY <1>5, <2>1
  <1>7. scan[c].min <= l /\ scan[c].next # 1
    <2>1. k \in Healthy
      BY DEF BalancerInv, UnmarkedHealthy
    <2>2. scan[c].min \in Nat /\ scan[c].next # 1 /\ scan[c].min <= backends[k].connections
      BY <2>1, LoopEnded DEF EndLeastConn
    <2> QED
      BY <1>6, <2>2
  <1>8. backends[i].connections + Cardinality(Bets(i, l)) <= l + Cardinality(Callers)
    BY <1>6 DEF LeastInv
  <1>9. Bets(i, l) \in SUBSET Callers /\ Bets(i, l)' = Bets(i, l) \ {c}
    BY <1>3, <1>4 DEF Bets
  <1>10. /\ Cardinality(Bets(i, l)) \in Nat /\ Cardinality(Callers) \in Nat
         /\ IsFiniteSet(Bets(i, l)) /\ backends[i].connections \in Nat
    BY <1>9, FewBets, ConnectionsType DEF BalancerInv
  <1>11. CASE i = s
    <2>1. c \in Bets(i, l)
      BY <1>1, <1>2, <1>7, <1>11 DEF Bets
    <2>2. Cardinality(Bets(i, l)') = Cardinality(Bets(i, l)) - 1
      <3>1. Cardinality(Bets(i, l) \ {c}) = Cardinality(Bets(i, l)) - 1
        BY <1>10, <2>1, FS_RemoveElement
      <3> QED
        BY <1>9, <3>1
    <2> QED
      BY <1>5, <1>8, <1>10, <1>11, <2>2
  <1>12. CASE i # s
    <2>1. c \notin Bets(i, l)
      BY <1>1, <1>12 DEF Bets
    <2>2. Bets(i, l)' = Bets(i, l)
      BY <1>9, <2>1
    <2> QED
      BY <1>5, <1>8, <1>12, <2>2
  <1> QED
    BY <1>11, <1>12

\* Every step keeps LeastInv.
LEMMA LeastNextInv ==
  ASSUME BalancerInv, LeastInv, [Next]_vars
  PROVE  LeastInv'
  <1>1. ASSUME UNCHANGED <<method, marked, backends>>,
               \A c \in Callers : \/ pc'[c] = pc[c] /\ scan'[c] = scan[c]
                                  \/ pc'[c] # "scan"
                                  \/ scan'[c].next = 1
        PROVE  LeastInv'
    <2> SUFFICES ASSUME method = "least_conn", ~marked, NEW i \in Indices,
                        NEW k \in Indices, NEW l \in Nat, backends[k].connections <= l
                 PROVE  backends'[i].connections + Cardinality(Bets(i, l)')
                           <= l + Cardinality(Callers)
      BY <1>1 DEF LeastInv, Indices
    <2>1. Bets(i, l)' \subseteq Bets(i, l)
      BY <1>1 DEF Bets
    <2> QED
      BY <1>1, <2>1, FewerBets DEF BalancerInv
  <1>2. CASE UNCHANGED vars
    BY <1>1, <1>2 DEF vars, reqVars, history
  <1>3. ASSUME NEW c \in Callers, BeginLeastConn(c), UNCHANGED method
        PROVE  LeastInv'
    <2>1. scan'[c].next = 1 /\ \A d \in Callers : d # c => pc'[d] = pc[d] /\ scan'[d] = scan[d]
      BY <1>3 DEF BeginLeastConn, NewScan, BalancerInv, BalancerTypeOK
    <2>2. UNCHANGED <<method, marked, backends>>
      BY <1>3 DEF BeginLeastConn, history
    <2> QED
      BY <1>1, <2>1, <2>2
  <1>4. ASSUME NEW c \in Callers, FinishRequest(c), UNCHANGED method
        PROVE  LeastInv'
    <2>1. pc'[c] = "idle" /\ scan' = scan /\ \A d \in Callers : d # c => pc'[d] = pc[d]
      BY <1>4 DEF FinishRequest, BalancerInv, BalancerTypeOK
    <2>2. UNCHANGED <<method, marked, backends>>
      BY <1>4 DEF FinishRequest, history
    <2> QED
      BY <1>1, <2>1, <2>2
  <1>5. ASSUME NEW c \in Callers, UNCHANGED method,
               \/ SelectRoundRobin(c) \/ BeginRandom(c)
               \/ DecrementTap(c) \/ FixTap(c) \/ UseTap(c)
        PROVE  LeastInv'
    <2>1. method # "least_conn"
      BY <1>5 DEF SelectRoundRobin, BeginRandom, DecrementTap, FixTap, UseTap,
                  BalancerInv, OwnSteps
    <2> QED
      BY <1>5, <2>1 DEF LeastInv
  <1>6. ASSUME NEW list \in AddressLists, UpdateBackends(list), UNCHANGED method
        PROVE  LeastInv'
    <2>1. /\ Readers = {} /\ backends' = NewBackends(list) /\ pc' = pc
      BY <1>6 DEF UpdateBackends, reqVars
    <2> SUFFICES ASSUME NEW i \in Indices', NEW l \in Nat
                 PROVE  backends'[i].connections + Cardinality(Bets(i, l)')
                           <= l + Cardinality(Callers)
      BY DEF LeastInv
    <2>2. Bets(i, l)' = {}
      BY <2>1 DEF Bets, Readers
    <2>3. backends'[i].connections = 0
      BY <2>1, NewList DEF Indices
    <2>4. Cardinality({}) = 0 /\ Cardinality(Callers) \in Nat
      BY BalancerAssumption, FS_EmptySet, FS_CardinalityType
    <2> QED
      BY <2>2, <2>3, <2>4
  <1>7. ASSUME NEW address \in Addresses, MarkHealthy(address) \/ MarkUnhealthy(address)
        PROVE  LeastInv'
    <2>1. marked'
      BY <1>7 DEF MarkHealthy, MarkUnhealthy, MarkHistory
    <2> QED
      BY <2>1 DEF LeastInv
  <1> QED
    BY <1>2, <1>3, <1>4, <1>5, <1>6, <1>7, ScanLeast, EndLeast DEF Next, SelectBackend

\* The connections counted for two backends differ by at most the number of
\* callers, however stale their loops are, until a mark changes the rotation
\* (LeastConnectionBalancer.SelectBackend of balancer.go).
THEOREM LeastConnEvenCorrect == Spec => []LeastConnEven
  <1>1. Init => LeastInv
    <2> SUFFICES ASSUME Init PROVE LeastInv
      OBVIOUS
    <2>1. PICK list \in AddressLists : backends = NewBackends(list)
      BY DEF Init
    <2> SUFFICES ASSUME NEW i \in Indices, NEW l \in Nat
                 PROVE  backends[i].connections + Cardinality(Bets(i, l))
                           <= l + Cardinality(Callers)
      BY DEF LeastInv
    <2>2. backends[i].connections = 0
      BY <2>1, NewList DEF Indices
    <2>3. Bets(i, l) = {}
      BY DEF Init, Bets
    <2>4. Cardinality({}) = 0 /\ Cardinality(Callers) \in Nat
      BY BalancerAssumption, FS_EmptySet, FS_CardinalityType
    <2> QED
      BY <2>2, <2>3, <2>4
  <1>2. BalancerInv /\ LeastInv /\ [Next]_vars => LeastInv'
    BY LeastNextInv
  <1>3. BalancerInv /\ LeastInv => LeastConnEven
    <2> SUFFICES ASSUME BalancerInv, LeastInv, method = "least_conn", ~marked,
                        NEW i \in Indices, NEW j \in Indices
                 PROVE  backends[i].connections - backends[j].connections
                           <= Cardinality(Callers)
      BY DEF LeastConnEven
    <2>1. PICK l \in Nat : l = backends[j].connections
      BY ConnectionsType DEF BalancerInv
    <2>2. backends[i].connections + Cardinality(Bets(i, l)) <= l + Cardinality(Callers)
      BY <2>1 DEF LeastInv
    <2>3. Bets(i, l) \in SUBSET Callers
      BY DEF Bets
    <2>4. Cardinality(Bets(i, l)) \in Nat /\ Cardinality(Callers) \in Nat
      BY <2>3, FewBets
    <2> QED
      BY <2>1, <2>2, <2>4, ConnectionsType DEF BalancerInv
  <1> QED
    BY <1>1, <1>2, <1>3, BalancerInvariance, PTL DEF Spec

-----------------------------------------------------------------------------
\* How many selections ago position q was passed on a round of m positions if p
\* was selected last; positions count from 0.
Behind(p, q, m) == IF q <= p THEN p - q ELSE p - q + m

\* P[q] selections of position q, on a round of m of which p was the last: a
\* position passed later has not fewer, up to one for each of w overflows.
Even(P, w, p, m) ==
    \A q, r \in 1 .. m :
        /\ P[q] - P[r] <= 1 + w
        /\ Behind(p, q - 1, m) <= Behind(p, r - 1, m) => P[r] - P[q] <= w

\* One more for the one that is behind.
LEMMA OneLess ==
  ASSUME NEW a \in Nat, NEW b \in Nat, NEW w \in Nat, a - b <= w, b - a <= 1 + w
  PROVE  (a + 1) - b <= 1 + w /\ b - (a + 1) <= w /\ b - (a + 1) <= 1 + w
  OBVIOUS

\* The next position is selected: the one passed longest ago.
LEMMA EvenNext ==
  ASSUME NEW m \in Nat \ {0}, NEW P \in [1 .. m -> Nat], NEW Q \in [1 .. m -> Nat],
         NEW w \in Nat, NEW p \in 0 .. m - 1, NEW n \in 0 .. m - 1, Even(P, w, p, m),
         n = IF p = m - 1 THEN 0 ELSE p + 1,
         Q[n + 1] = P[n + 1] + 1, \A q \in 1 .. m : q # n + 1 => Q[q] = P[q]
  PROVE  Even(Q, w, n, m)
  <1> SUFFICES ASSUME NEW q \in 1 .. m, NEW r \in 1 .. m
               PROVE  /\ Q[q] - Q[r] <= 1 + w
                      /\ Behind(n, q - 1, m) <= Behind(n, r - 1, m) => Q[r] - Q[q] <= w
    BY DEF Even
  <1>1. /\ P[q] - P[r] <= 1 + w /\ P[r] - P[q] <= 1 + w
        /\ Behind(p, q - 1, m) <= Behind(p, r - 1, m) => P[r] - P[q] <= w
        /\ Behind(p, r - 1, m) <= Behind(p, q - 1, m) => P[q] - P[r] <= w
    BY DEF Even
  <1>2. /\ P[q] \in Nat /\ P[r] \in Nat /\ Q[q] \in Nat /\ Q[r] \in Nat
    OBVIOUS
  <1>3. CASE q = n + 1 /\ r = n + 1
    BY <1>2, <1>3
  <1>4. CASE q = n + 1 /\ r # n + 1
    <2>1. Behind(p, r - 1, m) <= Behind(p, q - 1, m)
      BY <1>4 DEF Behind
    <2>2. Q[q] = P[q] + 1 /\ Q[r] = P[r]
      BY <1>4
    <2>3. P[q] - P[r] <= w /\ P[r] - P[q] <= 1 + w
      BY <1>1, <2>1
    <2>4. Q[q] - Q[r] <= 1 + w /\ Q[r] - Q[q] <= w
      BY <1>2, <2>2, <2>3, OneLess
    <2> QED
      BY <2>4
  <1>5. CASE q # n + 1 /\ r = n + 1
    <2>1. Behind(p, q - 1, m) <= Behind(p, r - 1, m)
      BY <1>5 DEF Behind
    <2>2. Behind(n, q - 1, m) > Behind(n, r - 1, m)
      BY <1>5 DEF Behind
    <2>3. Q[r] = P[r] + 1 /\ Q[q] = P[q]
      BY <1>5
    <2>4. Behind(n, q - 1, m) \in Int /\ Behind(n, r - 1, m) \in Int
      BY DEF Behind
    <2>5. P[r] - P[q] <= w /\ P[q] - P[r] <= 1 + w
      BY <1>1, <2>1
    <2>6. Q[q] - Q[r] <= 1 + w
      BY <1>2, <2>3, <2>5, OneLess
    <2>7. ~(Behind(n, q - 1, m) <= Behind(n, r - 1, m))
      BY <2>2, <2>4
    <2> QED
      BY <2>6, <2>7
  <1>6. CASE q # n + 1 /\ r # n + 1
    <2>1. Q[q] = P[q] /\ Q[r] = P[r]
      BY <1>6
    <2>2. Behind(n, q - 1, m) <= Behind(n, r - 1, m) =>
             Behind(p, q - 1, m) <= Behind(p, r - 1, m)
      BY <1>6 DEF Behind
    <2> QED
      BY <1>1, <2>1, <2>2
  <1> QED
    BY <1>3, <1>4, <1>5, <1>6

\* One more moves a difference by one.
LEMMA OneMore ==
  ASSUME NEW a \in Nat, NEW b \in Nat, NEW w \in Nat, a - b <= 1 + w, b - a <= 1 + w
  PROVE  /\ (a + 1) - b <= 1 + (w + 1) /\ b - (a + 1) <= w + 1
         /\ a - (b + 1) <= 1 + (w + 1)
         /\ a - b <= 1 + (w + 1) /\ b - a <= w + 1
  OBVIOUS

\* Any position is selected, and that is counted as an overflow.
LEMMA EvenWrap ==
  ASSUME NEW m \in Nat \ {0}, NEW P \in [1 .. m -> Nat], NEW Q \in [1 .. m -> Nat],
         NEW w \in Nat, NEW p \in 0 .. m - 1, NEW n \in 0 .. m - 1, Even(P, w, p, m),
         Q[n + 1] = P[n + 1] + 1, \A q \in 1 .. m : q # n + 1 => Q[q] = P[q]
  PROVE  Even(Q, w + 1, n, m)
  <1> SUFFICES ASSUME NEW q \in 1 .. m, NEW r \in 1 .. m
               PROVE  /\ Q[q] - Q[r] <= 1 + (w + 1)
                      /\ Behind(n, q - 1, m) <= Behind(n, r - 1, m) =>
                            Q[r] - Q[q] <= w + 1
    BY DEF Even
  <1>1. P[q] - P[r] <= 1 + w /\ P[r] - P[q] <= 1 + w
    BY DEF Even
  <1>2. P[q] \in Nat /\ P[r] \in Nat /\ Q[q] \in Nat /\ Q[r] \in Nat
    OBVIOUS
  <1>3. CASE r = n + 1 /\ q # n + 1
    <2>1. Behind(n, q - 1, m) > Behind(n, r - 1, m)
      BY <1>3 DEF Behind
    <2>2. Behind(n, q - 1, m) \in Int /\ Behind(n, r - 1, m) \in Int
      BY DEF Behind
    <2>3. Q[q] = P[q] /\ Q[r] = P[r] + 1
      BY <1>3
    <2>4. Q[q] - Q[r] <= 1 + (w + 1)
      BY <1>1, <1>2, <2>3, OneMore
    <2>5. ~(Behind(n, q - 1, m) <= Behind(n, r - 1, m))
      BY <2>1, <2>2
    <2> QED
      BY <2>4, <2>5
  <1>4. CASE q = n + 1 /\ r # n + 1
    <2>1. Q[q] = P[q] + 1 /\ Q[r] = P[r]
      BY <1>4
    <2>2. Q[q] - Q[r] <= 1 + (w + 1) /\ Q[r] - Q[q] <= w + 1
      BY <1>1, <1>2, <2>1, OneMore
    <2> QED
      BY <2>2
  <1>5. CASE q # n + 1 /\ r # n + 1
    <2>1. Q[q] = P[q] /\ Q[r] = P[r]
      BY <1>5
    <2>2. Q[q] - Q[r] <= 1 + (w + 1) /\ Q[r] - Q[q] <= w + 1
      BY <1>1, <1>2, <2>1, OneMore
    <2> QED
      BY <2>2
  <1>6. CASE q = n + 1 /\ r = n + 1
    BY <1>2, <1>6
  <1> QED
    BY <1>3, <1>4, <1>5, <1>6

\* The selections of the positions of list h.
PicksOf(h) == [q \in 1 .. Len(h) |-> picks[h[q]]]

\* The rotation of the round robin balancer is even.
RotationInv ==
    method = "round_robin" /\ getHealthyBackends # <<>> =>
        LET h == getHealthyBackends
        IN  Even(PicksOf(h), wraps, current % Len(h), Len(h))

\* No backend has been picked since the last change of the list.
NoPicks == \A i \in Indices : picks[i] = 0

\* A rotation that begins is even.
LEMMA RotationBegins == BalancerTypeOK /\ NoPicks => RotationInv
  <1> SUFFICES ASSUME BalancerTypeOK, \A i \in Indices : picks[i] = 0,
                      getHealthyBackends # <<>>
               PROVE  LET h == getHealthyBackends
                      IN  Even(PicksOf(h), wraps, current % Len(h), Len(h))
    BY DEF RotationInv, NoPicks
  <1> DEFINE h == getHealthyBackends
  <1>1. h \in Seq(Healthy)
    BY HealthyList
  <1> HIDE DEF h
  <1>2. \A q \in 1 .. Len(h) : PicksOf(h)[q] = 0
    <2>1. \A q \in 1 .. Len(h) : h[q] \in Indices
      BY <1>1 DEF Healthy
    <2> QED
      BY <2>1 DEF PicksOf
  <1>3. wraps \in Nat
    BY DEF BalancerTypeOK
  <1>4. Even(PicksOf(h), wraps, current % Len(h), Len(h))
    BY <1>2, <1>3 DEF Even
  <1> QED
    BY <1>4 DEF h

\* RoundRobinBalancer.SelectBackend.
LEMMA RoundRobinRotation ==
  ASSUME BalancerInv, RotationInv, NEW c \in Callers, SelectRoundRobin(c)
  PROVE  RotationInv'
  <1> DEFINE h == getHealthyBackends
             m == Len(h)
             p == current % m
             n == current' % m
  <1>1. /\ method = "round_robin" /\ h # <<>> /\ UNCHANGED backends
        /\ current' = (current + 1) % CounterMod
        /\ wraps' = IF current' = 0 THEN wraps + 1 ELSE wraps
        /\ picks' = [picks EXCEPT ![h[n + 1]] = picks[h[n + 1]] + 1]
    BY DEF SelectRoundRobin, Selected
  <1>2. getHealthyBackends' = h
    BY <1>1 DEF getHealthyBackends, Indices
  <1>3. /\ h \in Seq(Healthy)
        /\ \A q, r \in 1 .. Len(h) : h[q] = h[r] => q = r
    BY HealthyList DEF BalancerInv
  <1>4. Even(PicksOf(h), wraps, p, m)
    BY <1>1 DEF RotationInv
  <1> HIDE DEF h
  <1>5. m \in Nat \ {0}
    BY <1>1, <1>3
  <1>6. /\ current \in Nat /\ CounterMod \in Nat \ {0} /\ current < CounterMod
        /\ wraps \in Nat /\ picks \in [Indices -> Nat]
    BY BalancerAssumption DEF BalancerInv, BalancerTypeOK
  <1>7. current' \in Nat /\ (current' = 0 \/ current' = current + 1)
    <2>1. current % CounterMod = current
      BY <1>6
    <2>2. (current + 1) % CounterMod \in {0, current + 1}
      BY <1>6, <2>1, NextRemainder
    <2> QED
      BY <1>1, <1>6, <2>2
  <1> HIDE DEF m
  <1>8. p \in 0 .. m - 1 /\ n \in 0 .. m - 1
    BY <1>5, <1>6, <1>7, NextRemainder
  <1>9. \A q \in 1 .. m : h[q] \in Indices
    BY <1>3 DEF Healthy, m
  <1>10. PicksOf(h) \in [1 .. m -> Nat] /\ \A q \in 1 .. m : PicksOf(h)[q] = picks[h[q]]
    BY <1>6, <1>9 DEF PicksOf, m
  <1>11. PICK Q \in [1 .. m -> Nat] : Q = [q \in 1 .. m |-> picks'[h[q]]]
    <2>1. h[n + 1] \in Indices
      <3>1. n + 1 \in 1 .. m
        BY <1>5, <1>8
      <3> QED
        BY <1>9, <3>1
    <2>2. picks' \in [Indices -> Nat]
      BY <1>1, <1>6, <2>1
    <2> QED
      BY <1>9, <2>2
  <1>12. /\ Q[n + 1] = PicksOf(h)[n + 1] + 1
         /\ \A q \in 1 .. m : q # n + 1 => Q[q] = PicksOf(h)[q]
    BY <1>1, <1>3, <1>6, <1>8, <1>9, <1>10, <1>11 DEF m
  <1>13. Even(Q, wraps', n, m)
    <2>1. CASE current' = 0
      BY <1>1, <1>4, <1>5, <1>6, <1>8, <1>10, <1>12, <2>1, EvenWrap
    <2>2. CASE current' # 0
      <3>1. n = IF p = m - 1 THEN 0 ELSE p + 1
        BY <1>5, <1>6, <1>7, <2>2, NextRemainder
      <3> HIDE DEF n, p
      <3> QED
        BY <1>1, <1>4, <1>5, <1>6, <1>8, <1>10, <1>12, <2>2, <3>1, EvenNext
    <2> QED
      BY <2>1, <2>2
  <1>14. PicksOf(h)' = Q
    <2>1. h' = h
      BY <1>2 DEF h
    <2> QED
      BY <1>11, <2>1 DEF PicksOf, m
  <1> QED
    BY <1>2, <1>13, <1>14 DEF RotationInv, m, h

\* Every step keeps the rotation even: it goes on, or begins again.
LEMMA RotationNextInv ==
  ASSUME BalancerInv, RotationInv, [Next]_vars
  PROVE  RotationInv'
  <1>0. BalancerTypeOK'
    BY BalancerNextInv DEF BalancerInv
  <1>1. ASSUME UNCHANGED <<method, backends, current, picks, wraps>>
        PROVE  RotationInv'
    <2>1. getHealthyBackends' = getHealthyBackends
      BY <1>1 DEF getHealthyBackends, Indices
    <2> QED
      BY <1>1, <2>1 DEF RotationInv, PicksOf
  <1>2. CASE UNCHANGED vars
    BY <1>1, <1>2 DEF vars, reqVars, history
  <1>3. ASSUME NEW c \in Callers, UNCHANGED method, SelectBackend(c) \/ FinishRequest(c)
        PROVE  RotationInv'
    <2>1. CASE SelectRoundRobin(c)
      BY <2>1, RoundRobinRotation
    <2>2. CASE FinishRequest(c)
      BY <1>1, <1>3, <2>2 DEF FinishRequest, history
    <2>3. CASE SelectBackend(c) /\ ~SelectRoundRobin(c)
      <3>1. method # "round_robin"
        BY <2>3
        DEF SelectBackend, BeginLeastConn, ScanBackend, EndLeastConn, BeginRandom,
                    DecrementTap, FixTap, UseTap, BalancerInv, OwnSteps
      <3> QED
        BY <1>3, <3>1 DEF RotationInv
    <2> QED
      BY <1>3, <2>1, <2>2, <2>3
  <1>4. ASSUME \A i \in Indices' : picks'[i] = 0
        PROVE  RotationInv'
    <2>1. BalancerTypeOK' /\ NoPicks' => RotationInv'
      BY RotationBegins, PTL
    <2> QED
      BY <1>0, <1>4, <2>1 DEF NoPicks
  <1>5. ASSUME NEW list \in AddressLists, UpdateBackends(list)
        PROVE  RotationInv'
    <2>1. backends' = NewBackends(list) /\ picks' = [i \in DOMAIN list |-> 0]
      BY <1>5 DEF UpdateBackends
    <2> QED
      BY <1>4, <2>1, NewList DEF Indices
  <1>6. ASSUME NEW address \in Addresses, UNCHANGED method,
               MarkHealthy(address) \/ MarkUnhealthy(address)
        PROVE  RotationInv'
    <2>1. current' = current /\ MarkHistory
      BY <1>6 DEF MarkHealthy, MarkUnhealthy
    <2>2. CASE backends' = backends
      BY <1>1, <1>6, <2>1, <2>2 DEF MarkHistory
    <2>3. CASE backends' # backends
      <3>1. PICK healthy \in BOOLEAN : backends' = SetFirst(address, healthy)
        BY <1>6 DEF MarkHealthy, MarkUnhealthy
      <3>2. Indices' = Indices
        BY <3>1, FirstSet DEF BalancerInv
      <3> QED
        BY <1>4, <2>1, <2>3, <3>2 DEF MarkHistory
    <2> QED
      BY <2>2, <2>3
  <1> QED
    BY <1>2, <1>3, <1>5, <1>6 DEF Next

\* Between two changes of the rotation no healthy backend is more than one
\* selection ahead of another, and one more for each overflow of the uint64
\* counter, for any number of backends and callers, whatever the counter stood
\* at when the rotation changed (RoundRobinBalancer.SelectBackend).
THEOREM RotationEvenCorrect == Spec => []RotationEven
  <1>1. Init => RotationInv
    <2> SUFFICES ASSUME Init PROVE RotationInv
      OBVIOUS
    <2>1. PICK list \in AddressLists : /\ backends = NewBackends(list)
                                       /\ picks = [i \in DOMAIN list |-> 0]
      BY DEF Init
    <2> QED
      BY <2>1, NewList, BalancerInitInv, RotationBegins
      DEF Indices, BalancerInv, NoPicks
  <1>2. BalancerInv /\ RotationInv /\ [Next]_vars => RotationInv'
    BY RotationNextInv
  <1>3. BalancerInv /\ RotationInv => RotationEven
    <2> SUFFICES ASSUME BalancerInv, RotationInv, method = "round_robin",
                        NEW i \in Healthy, NEW j \in Healthy
                 PROVE  picks[i] - picks[j] <= 1 + wraps
      BY DEF RotationEven, Healthy
    <2> DEFINE h == getHealthyBackends
    <2>1. PICK q \in 1 .. Len(h) : h[q] = i
      BY HealthyList DEF BalancerInv
    <2>2. PICK r \in 1 .. Len(h) : h[r] = j
      BY HealthyList DEF BalancerInv
    <2>3. h \in Seq(Healthy)
      BY HealthyList DEF BalancerInv
    <2>4. h # <<>>
      BY <2>1, <2>3
    <2>5. Even(PicksOf(h), wraps, current % Len(h), Len(h))
      BY <2>4 DEF RotationInv
    <2> HIDE DEF h
    <2>6. PicksOf(h)[q] - PicksOf(h)[r] <= 1 + wraps
      BY <2>5 DEF Even
    <2> QED
      BY <2>1, <2>2, <2>6 DEF PicksOf
  <1> QED
    BY <1>1, <1>2, <1>3, BalancerInvariance, PTL DEF Spec

=============================================================================
