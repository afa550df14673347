---------------------------- MODULE KetamaProofs ----------------------------
(***************************************************************************)
(* Proofs about KetamaRing, for any backends, lists, weights, number of    *)
(* replicas and hash function, and any order of the balancers' operations. *)
(***************************************************************************)
EXTENDS KetamaRing, FunctionTheorems, FiniteSetTheorems, TLAPS

-----------------------------------------------------------------------------
(***************************************************************************)
(* Sorting.  A strict total order is a set of pairs; the members of a      *)
(* finite set come in the order of how many others come before them.       *)
(***************************************************************************)

\* R orders any two members of S, in one way only.
TotalOrder(S, R) ==
    /\ \A i \in S : <<i, i>> \notin R
    /\ \A i, j \in S : i # j => <<i, j>> \in R \/ <<j, i>> \in R
    /\ \A i, j, k \in S : <<i, j>> \in R /\ <<j, k>> \in R => <<i, k>> \in R

\* Those that come before i.
Before(S, R, i) == {j \in S : <<j, i>> \in R}

\* What comes later has more before it, and every place is taken.
LEMMA Ranks ==
  ASSUME NEW S, IsFiniteSet(S), NEW R, TotalOrder(S, R)
  PROVE  /\ Cardinality(S) \in Nat
         /\ \A i \in S : /\ Cardinality(Before(S, R, i)) \in Nat
                         /\ Cardinality(Before(S, R, i)) < Cardinality(S)
         /\ \A i, j \in S : <<i, j>> \in R =>
               Cardinality(Before(S, R, i)) < Cardinality(Before(S, R, j))
         /\ \A n \in 1 .. Cardinality(S) :
               \E i \in S : Cardinality(Before(S, R, i)) = n - 1
  <1> DEFINE N == Cardinality(S)
             f == [i \in S |-> Cardinality(Before(S, R, i)) + 1]
  <1>1. N \in Nat
    BY FS_CardinalityType
  <1>2. \A i \in S : /\ Before(S, R, i) \in SUBSET S /\ i \notin Before(S, R, i)
                     /\ IsFiniteSet(Before(S, R, i))
    BY FS_Subset DEF Before, TotalOrder
  <1>3. ASSUME NEW i \in S
        PROVE  /\ Cardinality(Before(S, R, i)) \in Nat
               /\ Cardinality(Before(S, R, i)) < N
               /\ f[i] \in 1 .. N
    <2>1. /\ Cardinality(Before(S, R, i)) \in Nat /\ Cardinality(Before(S, R, i)) <= N
          /\ N # Cardinality(Before(S, R, i))
      BY <1>2, FS_Subset, FS_CardinalityType
    <2> QED
      BY <1>1, <2>1
  <1>4. ASSUME NEW i \in S, NEW j \in S, <<i, j>> \in R
        PROVE  Cardinality(Before(S, R, i)) < Cardinality(Before(S, R, j))
    <2>1. Before(S, R, i) \in SUBSET Before(S, R, j)
      BY <1>4 DEF Before, TotalOrder
    <2>2. i \in Before(S, R, j) /\ i \notin Before(S, R, i)
      BY <1>2, <1>4 DEF Before
    <2>3. /\ Cardinality(Before(S, R, i)) <= Cardinality(Before(S, R, j))
          /\ Cardinality(Before(S, R, j)) # Cardinality(Before(S, R, i))
      BY <1>2, <2>1, <2>2, FS_Subset
    <2> QED
      BY <1>3, <2>3
  <1>5. f \in Injection(S, 1 .. N)
    <2>1. f \in [S -> 1 .. N]
      BY <1>3
    <2>2. ASSUME NEW i \in S, NEW j \in S, i # j
          PROVE  f[i] # f[j]
      <3>1. <<i, j>> \in R \/ <<j, i>> \in R
        BY <2>2 DEF TotalOrder
      <3> QED
        BY <1>3, <1>4, <3>1
    <2> QED
      BY <2>1, <2>2, Fun_IsInj
  <1>6. ASSUME NEW n \in 1 .. N
        PROVE  \E i \in S : Cardinality(Before(S, R, i)) = n - 1
    <2>1. IsFiniteSet(1 .. N) /\ Cardinality(1 .. N) = N
      BY <1>1, FS_Interval
    <2>2. f \in Surjection(S, 1 .. N)
      BY <1>5, <2>1, FS_Injection
    <2>3. PICK i \in S : f[i] = n
      <3> HIDE DEF f
      <3> QED
        BY <2>2 DEF Surjection
    <2> QED
      BY <1>3, <2>3
  <1> QED
    BY <1>1, <1>3, <1>4, <1>6

\* InOrder lists every member, in ascending order.
LEMMA InOrderLists ==
  ASSUME NEW S \in SUBSET Int, IsFiniteSet(S)
  PROVE  /\ Cardinality(S) \in Nat
         /\ InOrder(S) \in [1 .. Cardinality(S) -> S]
         /\ \A i \in S : \E n \in 1 .. Cardinality(S) : InOrder(S)[n] = i
         /\ \A m, n \in 1 .. Cardinality(S) : m < n => InOrder(S)[m] < InOrder(S)[n]
  <1> DEFINE N == Cardinality(S)
             R == {p \in S \X S : p[1] < p[2]}
             B(i) == {j \in S : j < i}
  <1>1. TotalOrder(S, R)
    <2>1. \A i, j \in S : <<i, j>> \in R <=> i < j
      OBVIOUS
    <2> QED
      BY <2>1 DEF TotalOrder
  <1>2. \A i \in S : Before(S, R, i) = B(i)
    BY DEF Before
  <1> HIDE DEF R, B
  <1>3. /\ N \in Nat
        /\ \A i \in S : Cardinality(B(i)) \in Nat /\ Cardinality(B(i)) < N
        /\ \A n \in 1 .. N : \E i \in S : Cardinality(B(i)) = n - 1
    BY <1>1, <1>2, Ranks
  <1>4. \A i, j \in S : i < j => Cardinality(B(i)) < Cardinality(B(j))
    <2>1. \A i, j \in S : i < j => <<i, j>> \in R
      BY DEF R
    <2>2. \A i, j \in S : <<i, j>> \in R =>
             Cardinality(Before(S, R, i)) < Cardinality(Before(S, R, j))
      BY <1>1, Ranks
    <2>3. \A i, j \in S : <<i, j>> \in R => Cardinality(B(i)) < Cardinality(B(j))
      BY <1>2, <2>2
    <2> QED
      BY <2>1, <2>3
  <1>5. InOrder(S) = [n \in 1 .. N |-> CHOOSE i \in S : Cardinality(B(i)) = n - 1]
    BY DEF InOrder, B
  <1> HIDE DEF N
  <1>6. \A n \in 1 .. N : InOrder(S)[n] \in S /\ Cardinality(B(InOrder(S)[n])) = n - 1
    BY <1>3, <1>5
  <1>7. InOrder(S) \in [1 .. N -> S]
    BY <1>3, <1>5
  <1>8. ASSUME NEW m \in 1 .. N, NEW n \in 1 .. N, m < n
        PROVE  InOrder(S)[m] < InOrder(S)[n]
    <2>1. PICK i \in S, j \in S : /\ i = InOrder(S)[m] /\ j = InOrder(S)[n]
                                  /\ Cardinality(B(i)) = m - 1 /\ Cardinality(B(j)) = n - 1
      BY <1>6
    <2>2. i # j /\ ~(j < i)
      <3>1. m - 1 # n - 1 /\ ~(n - 1 < m - 1)
        BY <1>3, <1>8
      <3> QED
        BY <1>4, <2>1, <3>1
    <2> QED
      BY <2>1, <2>2
  <1>9. ASSUME NEW i \in S
        PROVE  \E n \in 1 .. N : InOrder(S)[n] = i
    <2>1. PICK n \in 1 .. N : n - 1 = Cardinality(B(i))
      <3>1. Cardinality(B(i)) + 1 \in 1 .. N /\ (Cardinality(B(i)) + 1) - 1 = Cardinality(B(i))
        BY <1>3
      <3> QED
        BY <3>1
    <2>2. PICK j \in S : j = InOrder(S)[n] /\ Cardinality(B(j)) = Cardinality(B(i))
      BY <1>6, <2>1
    <2>3. ~(i < j) /\ ~(j < i)
      <3>1. \A x \in Nat : ~(x < x)
        OBVIOUS
      <3> QED
        BY <1>3, <1>4, <2>2, <3>1
    <2>4. i = j
      BY <2>3
    <2> QED
      BY <2>2, <2>4
  <1> QED
    BY <1>3, <1>7, <1>8, <1>9 DEF N

\* A finite set of numbers that is not empty has a least member.
LEMMA Least ==
  ASSUME NEW S \in SUBSET Int, IsFiniteSet(S), S # {}
  PROVE  Min(S) \in S /\ \A i \in S : Min(S) <= i
  <1>1. PICK N \in Nat : N = Cardinality(S)
    BY InOrderLists
  <1>2. /\ \A n \in 1 .. N : InOrder(S)[n] \in S
        /\ \A i \in S : \E n \in 1 .. N : InOrder(S)[n] = i
        /\ \A m, n \in 1 .. N : m < n => InOrder(S)[m] < InOrder(S)[n]
    BY <1>1, InOrderLists
  <1>3. 1 \in 1 .. N
    <2>1. PICK n \in 1 .. N : TRUE
      BY <1>2
    <2> QED
      BY <2>1
  <1>4. ASSUME NEW i \in S
        PROVE  InOrder(S)[1] <= i
    <2>1. PICK n \in 1 .. N : InOrder(S)[n] = i
      BY <1>2
    <2>2. CASE n = 1
      BY <2>1, <2>2
    <2>3. CASE n > 1
      <3>1. InOrder(S)[1] < InOrder(S)[n]
        BY <1>2, <1>3, <2>3
      <3>2. InOrder(S)[1] \in Int /\ i \in Int
        BY <1>2, <1>3
      <3> QED
        BY <2>1, <3>1, <3>2
    <2> QED
      BY <2>2, <2>3
  <1>5. InOrder(S)[1] \in S
    BY <1>2, <1>3
  <1> QED
    BY <1>4, <1>5 DEF Min

\* A list of numbers, in ascending order: the same numbers, none before a smaller one.
LEMMA SortedLists ==
  ASSUME NEW n \in Nat, NEW q \in [1 .. n -> Int]
  PROVE  /\ SortedList(q) \in [1 .. n -> Range(q)]
         /\ \A i \in 1 .. n : \E m \in 1 .. n : SortedList(q)[m] = q[i]
         /\ \A l, m \in 1 .. n : l < m => SortedList(q)[l] <= SortedList(q)[m]
  <1> DEFINE S == 1 .. n
             R == {p \in S \X S : q[p[1]] < q[p[2]] \/ (q[p[1]] = q[p[2]] /\ p[1] < p[2])}
             B(j) == {i \in S : q[i] < q[j] \/ (q[i] = q[j] /\ i < j)}
             at(m) == CHOOSE j \in S : Cardinality(B(j)) = m - 1
  <1>0. IsFiniteSet(S) /\ Cardinality(S) = n
    BY FS_Interval
  <1>1. TotalOrder(S, R)
    <2>1. \A i, j \in S : <<i, j>> \in R <=> q[i] < q[j] \/ (q[i] = q[j] /\ i < j)
      OBVIOUS
    <2> HIDE DEF R
    <2>2. \A i \in S : q[i] \in Int /\ i \in Int
      OBVIOUS
    <2> QED
      BY <2>1, <2>2 DEF TotalOrder
  <1>2. \A i \in S : Before(S, R, i) = B(i)
    BY DEF Before
  <1> HIDE DEF R, B
  <1>3. /\ \A i \in S : Cardinality(B(i)) \in Nat /\ Cardinality(B(i)) < n
        /\ \A m \in 1 .. n : \E i \in S : Cardinality(B(i)) = m - 1
    <2>1. /\ \A i \in S : /\ Cardinality(Before(S, R, i)) \in Nat
                          /\ Cardinality(Before(S, R, i)) < Cardinality(S)
          /\ \A m \in 1 .. Cardinality(S) :
                \E i \in S : Cardinality(Before(S, R, i)) = m - 1
      <3> HIDE DEF S
      <3> QED
        BY <1>0, <1>1, Ranks
    <2> QED
      BY <1>0, <1>2, <2>1
  <1>4. \A i, j \in S : <<i, j>> \in R => Cardinality(B(i)) < Cardinality(B(j))
    <2>1. \A i, j \in S : <<i, j>> \in R =>
             Cardinality(Before(S, R, i)) < Cardinality(Before(S, R, j))
      <3> HIDE DEF S
      <3> QED
        BY <1>0, <1>1, Ranks
    <2> QED
      BY <1>2, <2>1
  <1>5. \A i, j \in S : Cardinality(B(i)) = Cardinality(B(j)) => i = j
    <2> SUFFICES ASSUME NEW i \in S, NEW j \in S, i # j
                 PROVE  Cardinality(B(i)) # Cardinality(B(j))
      OBVIOUS
    <2>1. <<i, j>> \in R \/ <<j, i>> \in R
      BY <1>1 DEF TotalOrder
    <2> QED
      BY <1>3, <1>4, <2>1
  <1>6. \A m \in 1 .. n : at(m) \in S /\ Cardinality(B(at(m))) = m - 1
    BY <1>3
  <1>7. SortedList(q) = [m \in 1 .. n |-> q[at(m)]]
    BY DEF SortedList, B
  <1> HIDE DEF at
  <1>8. SortedList(q) \in [1 .. n -> Range(q)]
    <2>1. \A m \in 1 .. n : q[at(m)] \in Range(q)
      BY <1>6 DEF Range
    <2> QED
      BY <1>7, <2>1
  <1>9. ASSUME NEW i \in 1 .. n
        PROVE  \E m \in 1 .. n : SortedList(q)[m] = q[i]
    <2>1. PICK m \in 1 .. n : m - 1 = Cardinality(B(i))
      <3>1. Cardinality(B(i)) + 1 \in 1 .. n /\ (Cardinality(B(i)) + 1) - 1 = Cardinality(B(i))
        BY <1>3
      <3> QED
        BY <3>1
    <2>2. at(m) = i
      BY <1>5, <1>6, <2>1
    <2> QED
      BY <1>7, <2>2
  <1>10. ASSUME NEW l \in 1 .. n, NEW m \in 1 .. n, l < m
         PROVE  SortedList(q)[l] <= SortedList(q)[m]
    <2>1. PICK i \in S, j \in S : /\ i = at(l) /\ j = at(m)
                                  /\ Cardinality(B(i)) = l - 1 /\ Cardinality(B(j)) = m - 1
      BY <1>6
    <2>2. ~(q[j] < q[i])
      <3>1. ~(m - 1 < l - 1)
        BY <1>10
      <3>2. q[j] < q[i] => <<j, i>> \in R
        BY DEF R
      <3> QED
        BY <1>4, <2>1, <3>1, <3>2
    <2>3. q[i] \in Int /\ q[j] \in Int
      OBVIOUS
    <2>4. SortedList(q)[l] = q[i] /\ SortedList(q)[m] = q[j]
      BY <1>7, <2>1
    <2> QED
      BY <2>2, <2>3, <2>4
  <1> QED
    BY <1>8, <1>9, <1>10

-----------------------------------------------------------------------------
(***************************************************************************)
(* The ring.  RingOK relates the two halves of a ring: sortedKeys lists    *)
(* the keys of nodes, in order, perhaps some of them several times.        *)
(***************************************************************************)

\* r.sortedKeys lists the keys of r.nodes in ascending order.
RingOK(r) ==
    /\ \E l \in Nat : r.sortedKeys \in [1 .. l -> HashValues]
    /\ \A i \in DOMAIN r.sortedKeys : r.sortedKeys[i] \in DOMAIN r.nodes
    /\ \A k \in DOMAIN r.nodes : \E i \in DOMAIN r.sortedKeys : r.sortedKeys[i] = k
    /\ \A i, j \in DOMAIN r.sortedKeys : i < j => r.sortedKeys[i] <= r.sortedKeys[j]

\* Every key of the ring is a point of its node.
OwnKeys(r) ==
    /\ DOMAIN r.nodes \subseteq HashValues
    /\ \A k \in DOMAIN r.nodes : r.nodes[k] \in Nodes /\ k \in Range(Points(r.nodes[k]))

\* A node that is in the ring is there with all its points.
Whole(r) ==
    \A n \in Nodes : n \in getUniqueNodes(r) =>
        \A k \in Range(Points(n)) : k \in DOMAIN r.nodes /\ r.nodes[k] = n

\* The first key at or after h, or the first of all if there is none.
Clockwise(D, h, k) ==
    /\ k \in D
    /\ \/ k >= h /\ \A j \in D : j >= h => k <= j
       \/ \A j \in D : j < h /\ k <= j

\* A list as a function.
LEMMA ListOf ==
  ASSUME NEW S, NEW q \in Seq(S)
  PROVE  Len(q) \in Nat /\ DOMAIN q = 1 .. Len(q) /\ q \in [1 .. Len(q) -> S]
  OBVIOUS

\* The points of a node are hash values.
LEMMA PointsType ==
  ASSUME hash \in HashFunctions, NEW n \in Nodes
  PROVE  /\ Points(n) \in [1 .. replicas -> HashValues]
         /\ Points(n) \in Seq(HashValues) /\ Len(Points(n)) = replicas
         /\ Range(Points(n)) \subseteq HashValues
         /\ Range(Points(n)) # {}
         /\ replicas \in Nat /\ replicas >= 1
  <1>1. replicas \in Nat /\ replicas >= 1
        /\ hash \in [Nodes \X (0 .. replicas - 1) -> 0 .. HashMod - 1]
    <2>1. HashFunctions \subseteq [Nodes \X (0 .. replicas - 1) -> 0 .. HashMod - 1]
      BY KetamaAssumption
    <2>2. replicas \in Nat /\ replicas >= 1
      BY KetamaAssumption
    <2> QED
      BY <2>1, <2>2
  <1>2. \A i \in 1 .. replicas : hash[<<n, i - 1>>] \in HashValues
    BY <1>1 DEF HashValues
  <1>3. Points(n) \in [1 .. replicas -> HashValues]
    BY <1>2 DEF Points
  <1>4. DOMAIN Points(n) = 1 .. replicas
    BY DEF Points
  <1>5. Range(Points(n)) \subseteq HashValues /\ Points(n)[1] \in Range(Points(n))
    BY <1>1, <1>3, <1>4 DEF Range
  <1> QED
    BY <1>1, <1>3, <1>5

\* search finds the first place with a key at or after h.
LEMMA SearchFinds ==
  ASSUME NEW r, NEW l \in Nat, r.sortedKeys \in [1 .. l -> HashValues], NEW h \in HashValues
  PROVE  /\ search(r, h) \in 1 .. l + 1
         /\ search(r, h) <= l => r.sortedKeys[search(r, h)] >= h
         /\ \A i \in 1 .. l : r.sortedKeys[i] >= h => search(r, h) <= i
  <1> DEFINE S == {i \in DOMAIN r.sortedKeys : r.sortedKeys[i] >= h}
                     \cup {Len(r.sortedKeys) + 1}
  <1>1. DOMAIN r.sortedKeys = 1 .. l /\ Len(r.sortedKeys) = l
    OBVIOUS
  <1>2. S \in SUBSET (1 .. l + 1) /\ l + 1 \in S
    BY <1>1
  <1>3. S \in SUBSET Int /\ IsFiniteSet(S) /\ S # {}
    <2>1. IsFiniteSet(1 .. l + 1)
      BY FS_Interval
    <2>2. 1 .. l + 1 \subseteq Int
      OBVIOUS
    <2> QED
      BY <1>2, <2>1, <2>2, FS_Subset
  <1>4. search(r, h) = Min(S)
    BY DEF search
  <1>5. search(r, h) \in S /\ \A i \in S : search(r, h) <= i
    <2> HIDE DEF S
    <2> QED
      BY <1>3, <1>4, Least
  <1>6. \A i \in 1 .. l : r.sortedKeys[i] >= h => i \in S
    BY <1>1
  <1>7. \A i \in S : i <= l => r.sortedKeys[i] >= h
    BY <1>1
  <1> HIDE DEF S
  <1> QED
    BY <1>2, <1>5, <1>6, <1>7

\* A place counted round the ring.
LEMMA RoundTheRing ==
  ASSUME NEW l \in Nat, l >= 1, NEW i \in 1 .. 2 * l
  PROVE  ((i - 1) % l) + 1 = IF i <= l THEN i ELSE i - l
  OBVIOUS

\* The node at a place of the ring, counted round it.
LEMMA NodeAtPlace ==
  ASSUME NEW r, RingOK(r), NEW l \in Nat, l >= 1, DOMAIN r.sortedKeys = 1 .. l,
         NEW i \in 1 .. 2 * l
  PROVE  /\ (IF i <= l THEN i ELSE i - l) \in 1 .. l
         /\ NodeAt(r, i) = r.nodes[r.sortedKeys[IF i <= l THEN i ELSE i - l]]
  <1>1. PICK p \in 1 .. l : p = IF i <= l THEN i ELSE i - l
    <2>1. (IF i <= l THEN i ELSE i - l) \in 1 .. l
      OBVIOUS
    <2> QED
      BY <2>1
  <1>2. ((i - 1) % l) + 1 = p
    BY <1>1, RoundTheRing
  <1>3. Len(r.sortedKeys) = l
    BY DEF RingOK
  <1>4. r.sortedKeys[p] \in DOMAIN r.nodes
    BY <1>1 DEF RingOK
  <1>5. NodeAt(r, i) = r.nodes[r.sortedKeys[p]]
    BY <1>2, <1>3, <1>4 DEF NodeAt
  <1> QED
    BY <1>1, <1>5

\* The length of the list of keys.
LEMMA RingLength ==
  ASSUME NEW r, RingOK(r)
  PROVE  \E l \in Nat : /\ r.sortedKeys \in [1 .. l -> HashValues]
                        /\ DOMAIN r.sortedKeys = 1 .. l
                        /\ Len(r.sortedKeys) = l
                        /\ l = 0 <=> DOMAIN r.nodes = {}
  <1>1. PICK l \in Nat : r.sortedKeys \in [1 .. l -> HashValues]
    BY DEF RingOK
  <1>2. DOMAIN r.sortedKeys = 1 .. l /\ Len(r.sortedKeys) = l
    BY <1>1
  <1>3. CASE l = 0
    <2>1. DOMAIN r.nodes = {}
      BY <1>2, <1>3 DEF RingOK
    <2> QED
      BY <1>1, <1>2, <1>3, <2>1
  <1>4. CASE l # 0
    <2>1. 1 \in 1 .. l
      BY <1>4
    <2>2. DOMAIN r.nodes # {}
      BY <1>2, <2>1 DEF RingOK
    <2> QED
      BY <1>1, <1>2, <1>4, <2>2
  <1> QED
    BY <1>3, <1>4

\* GetNode is the node of the first key clockwise.
LEMMA GetNodeIs ==
  ASSUME NEW r, RingOK(r), NEW h \in HashValues, DOMAIN r.nodes # {}
  PROVE  \E k \in DOMAIN r.nodes : Clockwise(DOMAIN r.nodes, h, k) /\ GetNode(r, h) = r.nodes[k]
  <1>1. PICK l \in Nat : /\ r.sortedKeys \in [1 .. l -> HashValues]
                         /\ DOMAIN r.sortedKeys = 1 .. l /\ l # 0
    BY RingLength
  <1>2. PICK s \in 1 .. l + 1 :
           /\ s = search(r, h)
           /\ s <= l => r.sortedKeys[s] >= h
           /\ \A i \in 1 .. l : r.sortedKeys[i] >= h => s <= i
    BY <1>1, SearchFinds
  <1>3. PICK p \in 1 .. l : p = IF s <= l THEN s ELSE 1
    BY <1>1
  <1>4. GetNode(r, h) = r.nodes[r.sortedKeys[p]]
    <2>1. s \in 1 .. 2 * l /\ l >= 1 /\ p = IF s <= l THEN s ELSE s - l
      BY <1>1, <1>3
    <2>2. NodeAt(r, s) = r.nodes[r.sortedKeys[p]]
      BY <1>1, <2>1, NodeAtPlace
    <2> QED
      BY <1>2, <2>2 DEF GetNode
  <1>5. PICK k \in DOMAIN r.nodes : k = r.sortedKeys[p]
    BY <1>1 DEF RingOK
  <1>6. \A j \in DOMAIN r.nodes : \E i \in 1 .. l : r.sortedKeys[i] = j
    BY <1>1 DEF RingOK
  <1>7. \A i \in 1 .. l : r.sortedKeys[i] \in Int /\ h \in Int
    BY <1>1, KetamaAssumption DEF HashValues
  <1>8. \A i, j \in 1 .. l : i <= j => r.sortedKeys[i] <= r.sortedKeys[j]
    <2>1. \A i, j \in 1 .. l : i < j => r.sortedKeys[i] <= r.sortedKeys[j]
      BY <1>1 DEF RingOK
    <2>2. \A i \in 1 .. l : r.sortedKeys[i] <= r.sortedKeys[i]
      BY <1>7
    <2>3. \A i, j \in 1 .. l : i <= j => i < j \/ i = j
      OBVIOUS
    <2> QED
      BY <2>1, <2>2, <2>3
  <1>9. CASE s <= l
    <2>1. k >= h /\ \A j \in DOMAIN r.nodes : j >= h => k <= j
      BY <1>2, <1>3, <1>5, <1>6, <1>8, <1>9
    <2> QED
      BY <1>4, <1>5, <2>1 DEF Clockwise
  <1>10. CASE s = l + 1
    <2>1. \A i \in 1 .. l : r.sortedKeys[i] < h
      BY <1>2, <1>7, <1>10
    <2>2. \A i \in 1 .. l : r.sortedKeys[p] <= r.sortedKeys[i]
      BY <1>3, <1>8, <1>10
    <2>3. \A j \in DOMAIN r.nodes : j < h /\ k <= j
      BY <1>5, <1>6, <2>1, <2>2
    <2> QED
      BY <1>4, <1>5, <2>3 DEF Clockwise
  <1> QED
    BY <1>9, <1>10

\* There is only one such key.
LEMMA OneClockwise ==
  ASSUME NEW D \in SUBSET Int, NEW h \in Int, NEW j, NEW k,
         Clockwise(D, h, j), Clockwise(D, h, k)
  PROVE  j = k
  BY DEF Clockwise

\* The first key clockwise is also the first of fewer keys, if it is one of them.
LEMMA ClockwiseOfFewer ==
  ASSUME NEW D \in SUBSET Int, NEW E \in SUBSET D, NEW h \in Int, NEW k \in E,
         Clockwise(D, h, k)
  PROVE  Clockwise(E, h, k)
  BY DEF Clockwise

\* What AddNode does to the map.
LEMMA AddNodeMap ==
  ASSUME NEW r, NEW n
  PROVE  /\ DOMAIN AddNode(r, n).nodes = Range(Points(n)) \cup DOMAIN r.nodes
         /\ \A k \in Range(Points(n)) : AddNode(r, n).nodes[k] = n
         /\ \A k \in DOMAIN r.nodes \ Range(Points(n)) : AddNode(r, n).nodes[k] = r.nodes[k]
         /\ AddNode(r, n).sortedKeys = SortedList(r.sortedKeys \o Points(n))
  BY DEF AddNode

\* What RemoveNode does to the map.
LEMMA RemoveNodeMap ==
  ASSUME NEW r, NEW n
  PROVE  /\ DOMAIN RemoveNode(r, n).nodes = DOMAIN r.nodes \ Range(Points(n))
         /\ \A k \in DOMAIN r.nodes \ Range(Points(n)) : RemoveNode(r, n).nodes[k] = r.nodes[k]
         /\ RemoveNode(r, n).sortedKeys = InOrder(DOMAIN r.nodes \ Range(Points(n)))
  BY DEF RemoveNode, Restrict

\* The keys stay sorted and complete when a node comes, also one that is there.
LEMMA AddNodeOK ==
  ASSUME hash \in HashFunctions, NEW n \in Nodes, NEW r, RingOK(r)
  PROVE  RingOK(AddNode(r, n))
  <1> DEFINE p == Points(n)
             q == r.sortedKeys \o p
             a == AddNode(r, n)
  <1>1. PICK l \in Nat : r.sortedKeys \in [1 .. l -> HashValues] /\ DOMAIN r.sortedKeys = 1 .. l
    BY RingLength
  <1>2. p \in [1 .. replicas -> HashValues] /\ replicas \in Nat
    BY PointsType
  <1>3. /\ q \in [1 .. l + replicas -> HashValues]
        /\ \A i \in 1 .. l + replicas : q[i] = IF i <= l THEN r.sortedKeys[i] ELSE p[i - l]
    <2>1. /\ r.sortedKeys \in Seq(HashValues) /\ Len(r.sortedKeys) = l
          /\ p \in Seq(HashValues) /\ Len(p) = replicas
      BY <1>1, <1>2
    <2> HIDE DEF p
    <2>2. q \in Seq(HashValues) /\ Len(q) = l + replicas
      BY <2>1
    <2>3. \A i \in 1 .. l + replicas : q[i] = IF i <= l THEN r.sortedKeys[i] ELSE p[i - l]
      BY <1>2, <2>1
    <2> HIDE DEF q
    <2> QED
      BY <2>2, <2>3
  <1>4. l + replicas \in Nat /\ q \in [1 .. l + replicas -> Int]
    <2>1. HashValues \subseteq Int
      BY DEF HashValues
    <2>2. l + replicas \in Nat
      BY <1>2
    <2> HIDE DEF p, q
    <2> QED
      BY <1>3, <2>1, <2>2
  <1>5. a.sortedKeys = SortedList(q) /\ DOMAIN a.nodes = Range(p) \cup DOMAIN r.nodes
    BY AddNodeMap
  <1>6. \A k : k \in DOMAIN a.nodes <=> \E i \in 1 .. l + replicas : q[i] = k
    <2>1. ASSUME NEW i \in 1 .. l + replicas
          PROVE  q[i] \in DOMAIN a.nodes
      <3>1. CASE i <= l
        <4>1. i \in 1 .. l
          BY <3>1, <1>2
        <4>2. r.sortedKeys[i] \in DOMAIN r.nodes
          BY <1>1, <4>1 DEF RingOK
        <4> QED
          BY <1>3, <1>5, <3>1, <4>2
      <3>2. CASE i > l
        <4>1. i - l \in 1 .. replicas /\ ~(i <= l)
          BY <3>2, <1>2
        <4>2. p[i - l] \in Range(p)
          BY <1>2, <4>1 DEF Range
        <4> QED
          BY <1>3, <1>5, <4>1, <4>2
      <3>3. i <= l \/ i > l
        BY <1>2
      <3> QED
        BY <3>1, <3>2, <3>3
    <2>2. ASSUME NEW k \in DOMAIN r.nodes
          PROVE  \E i \in 1 .. l + replicas : q[i] = k
      <3>1. PICK i \in 1 .. l : r.sortedKeys[i] = k
        BY <1>1 DEF RingOK
      <3>2. i \in 1 .. l + replicas /\ i <= l
        BY <1>2
      <3> QED
        BY <1>3, <3>1, <3>2
    <2>3. ASSUME NEW k \in Range(p)
          PROVE  \E i \in 1 .. l + replicas : q[i] = k
      <3>1. PICK i \in 1 .. replicas : p[i] = k
        BY <1>2 DEF Range
      <3>2. l + i \in 1 .. l + replicas /\ ~(l + i <= l) /\ (l + i) - l = i
        BY <1>2
      <3> QED
        BY <1>3, <3>1, <3>2
    <2> HIDE DEF q, a, p
    <2> QED
      BY <1>5, <2>1, <2>2, <2>3
  <1> HIDE DEF q, a, p
  <1>7. PICK m \in Nat : m = l + replicas
    BY <1>4
  <1>8. /\ SortedList(q) \in [1 .. m -> Range(q)]
        /\ \A i \in 1 .. m : \E j \in 1 .. m : SortedList(q)[j] = q[i]
        /\ \A i, j \in 1 .. m : i < j => SortedList(q)[i] <= SortedList(q)[j]
    BY <1>4, <1>7, SortedLists
  <1>9. \A k : k \in Range(q) <=> \E i \in 1 .. m : q[i] = k
    BY <1>4, <1>7 DEF Range
  <1>10. Range(q) \subseteq HashValues
    BY <1>3, <1>7, <1>9
  <1>11. a.sortedKeys \in [1 .. m -> HashValues] /\ DOMAIN a.sortedKeys = 1 .. m
    BY <1>5, <1>8, <1>10
  <1>12. ASSUME NEW i \in 1 .. m
         PROVE  a.sortedKeys[i] \in DOMAIN a.nodes
    <2>1. SortedList(q)[i] \in Range(q)
      BY <1>8
    <2>2. PICK j \in 1 .. m : q[j] = SortedList(q)[i]
      BY <1>9, <2>1
    <2> QED
      BY <1>5, <1>6, <1>7, <2>2
  <1>13. ASSUME NEW k \in DOMAIN a.nodes
         PROVE  \E i \in 1 .. m : a.sortedKeys[i] = k
    <2>1. PICK i \in 1 .. m : q[i] = k
      BY <1>6, <1>7
    <2>2. PICK j \in 1 .. m : SortedList(q)[j] = q[i]
      BY <1>8
    <2> QED
      BY <1>5, <2>1, <2>2
  <1>14. RingOK(a)
    BY <1>5, <1>8, <1>11, <1>12, <1>13 DEF RingOK
  <1> QED
    BY <1>14 DEF a

\* The keys are sorted and complete again when a node has gone.
LEMMA RemoveNodeOK ==
  ASSUME NEW n, NEW r, DOMAIN r.nodes \subseteq HashValues
  PROVE  RingOK(RemoveNode(r, n))
  <1> DEFINE left == DOMAIN r.nodes \ Range(Points(n))
             a == RemoveNode(r, n)
  <1>1. left \in SUBSET Int /\ IsFiniteSet(left) /\ left \subseteq HashValues
    <2>1. IsFiniteSet(HashValues) /\ HashValues \subseteq Int
      BY KetamaAssumption, FS_Interval DEF HashValues
    <2> QED
      BY <2>1, FS_Subset
  <1>2. DOMAIN a.nodes = left /\ a.sortedKeys = InOrder(left)
    BY RemoveNodeMap
  <1> HIDE DEF left, a
  <1>3. PICK m \in Nat : m = Cardinality(left)
    BY <1>1, InOrderLists
  <1>4. /\ InOrder(left) \in [1 .. m -> left]
        /\ \A k \in left : \E i \in 1 .. m : InOrder(left)[i] = k
        /\ \A i, j \in 1 .. m : i < j => InOrder(left)[i] < InOrder(left)[j]
    BY <1>1, <1>3, InOrderLists
  <1>5. a.sortedKeys \in [1 .. m -> HashValues] /\ DOMAIN a.sortedKeys = 1 .. m
    BY <1>1, <1>2, <1>4
  <1>6. ASSUME NEW i \in 1 .. m, NEW j \in 1 .. m, i < j
        PROVE  a.sortedKeys[i] <= a.sortedKeys[j]
    <2>1. InOrder(left)[i] < InOrder(left)[j]
      BY <1>4, <1>6
    <2>2. InOrder(left)[i] \in Int /\ InOrder(left)[j] \in Int
      BY <1>1, <1>4
    <2> QED
      BY <1>2, <2>1, <2>2
  <1>7. RingOK(a)
    BY <1>2, <1>4, <1>5, <1>6 DEF RingOK
  <1> QED
    BY <1>7 DEF a

\* The keys stay points of their nodes.
LEMMA AddNodeOwn ==
  ASSUME hash \in HashFunctions, NEW n \in Nodes, NEW r, OwnKeys(r)
  PROVE  OwnKeys(AddNode(r, n))
  <1>1. Range(Points(n)) \subseteq HashValues
    BY PointsType
  <1> QED
    BY <1>1, AddNodeMap DEF OwnKeys

\* RemoveNode leaves every key that stays with its node.
LEMMA RemoveNodeOwn ==
  ASSUME NEW n, NEW r, OwnKeys(r)
  PROVE  OwnKeys(RemoveNode(r, n))
  <1> DEFINE a == RemoveNode(r, n)
             P == Range(Points(n))
  <1>1. /\ DOMAIN a.nodes = DOMAIN r.nodes \ P
        /\ \A k \in DOMAIN r.nodes \ P : a.nodes[k] = r.nodes[k]
    BY RemoveNodeMap
  <1> HIDE DEF a, P
  <1>2. OwnKeys(a)
    BY <1>1 DEF OwnKeys
  <1> QED
    BY <1>2 DEF a

\* Without collisions AddNode adds the node, whole, and nothing else.
LEMMA AddNodeWhole ==
  ASSUME hash \in HashFunctions, NoCollisions, NEW n \in Nodes, NEW r, OwnKeys(r), Whole(r)
  PROVE  /\ Whole(AddNode(r, n))
         /\ getUniqueNodes(AddNode(r, n)) = getUniqueNodes(r) \cup {n}
  <1> DEFINE a == AddNode(r, n)
             P == Range(Points(n))
  <1>1. P # {}
    BY PointsType
  <1>2. /\ DOMAIN a.nodes = P \cup DOMAIN r.nodes
        /\ \A k \in P : a.nodes[k] = n
        /\ \A k \in DOMAIN r.nodes \ P : a.nodes[k] = r.nodes[k]
    BY AddNodeMap
  <1> HIDE DEF a
  <1>3. ASSUME NEW m \in Nodes, m # n
        PROVE  Range(Points(m)) \cap P = {}
    BY <1>3 DEF NoCollisions
  <1>4. getUniqueNodes(a) = getUniqueNodes(r) \cup {n}
    <2>1. ASSUME NEW k \in DOMAIN a.nodes
          PROVE  a.nodes[k] \in getUniqueNodes(r) \cup {n}
      BY <1>2 DEF getUniqueNodes, Range
    <2>2. n \in getUniqueNodes(a)
      BY <1>1, <1>2 DEF getUniqueNodes, Range
    <2>3. ASSUME NEW k \in DOMAIN r.nodes, r.nodes[k] # n
          PROVE  r.nodes[k] \in getUniqueNodes(a)
      <3>1. k \notin P
        BY <1>3, <2>3 DEF OwnKeys
      <3> QED
        BY <1>2, <3>1 DEF getUniqueNodes, Range
    <2> QED
      BY <2>1, <2>2, <2>3 DEF getUniqueNodes, Range
  <1>5. Whole(a)
    <2> SUFFICES ASSUME NEW m \in Nodes, m \in getUniqueNodes(a), NEW k \in Range(Points(m))
                 PROVE  k \in DOMAIN a.nodes /\ a.nodes[k] = m
      BY DEF Whole
    <2>1. CASE m = n
      BY <1>2, <2>1
    <2>2. CASE m # n
      <3>1. m \in getUniqueNodes(r) /\ k \notin P
        BY <1>3, <1>4, <2>2
      <3> QED
        BY <1>2, <3>1 DEF Whole
    <2> QED
      BY <2>1, <2>2
  <1> QED
    BY <1>4, <1>5 DEF a

\* Without collisions RemoveNode removes the node and leaves the others whole.
LEMMA RemoveNodeWhole ==
  ASSUME hash \in HashFunctions, NoCollisions, NEW n \in Nodes, NEW r, OwnKeys(r), Whole(r)
  PROVE  /\ Whole(RemoveNode(r, n))
         /\ getUniqueNodes(RemoveNode(r, n)) = getUniqueNodes(r) \ {n}
  <1> DEFINE a == RemoveNode(r, n)
             P == Range(Points(n))
  <1>1. \A m \in Nodes : Range(Points(m)) # {}
    BY PointsType
  <1>2. /\ DOMAIN a.nodes = DOMAIN r.nodes \ P
        /\ \A k \in DOMAIN r.nodes \ P : a.nodes[k] = r.nodes[k]
    BY RemoveNodeMap
  <1> HIDE DEF a
  <1>3. ASSUME NEW m \in Nodes, m # n
        PROVE  Range(Points(m)) \cap P = {}
    BY <1>3 DEF NoCollisions
  <1>4. ASSUME NEW m \in Nodes, m # n, m \in getUniqueNodes(r), NEW k \in Range(Points(m))
        PROVE  k \in DOMAIN a.nodes /\ a.nodes[k] = m
    <2>1. k \in DOMAIN r.nodes /\ r.nodes[k] = m /\ k \notin P
      BY <1>3, <1>4 DEF Whole
    <2> QED
      BY <1>2, <2>1
  <1>5. getUniqueNodes(a) = getUniqueNodes(r) \ {n}
    <2>1. ASSUME NEW k \in DOMAIN a.nodes
          PROVE  a.nodes[k] \in getUniqueNodes(r) \ {n}
      <3>1. k \in DOMAIN r.nodes /\ k \notin P /\ a.nodes[k] = r.nodes[k]
        BY <1>2
      <3>2. r.nodes[k] # n
        BY <3>1 DEF OwnKeys
      <3> QED
        BY <3>1, <3>2 DEF getUniqueNodes, Range
    <2>2. ASSUME NEW k \in DOMAIN r.nodes, r.nodes[k] # n
          PROVE  r.nodes[k] \in getUniqueNodes(a)
      <3>1. PICK m \in Nodes : m = r.nodes[k]
        BY DEF OwnKeys
      <3>2. m \in getUniqueNodes(r) /\ m # n
        BY <2>2, <3>1 DEF getUniqueNodes, Range
      <3>3. PICK j \in Range(Points(m)) : TRUE
        BY <1>1
      <3>4. j \in DOMAIN a.nodes /\ a.nodes[j] = m
        BY <1>4, <3>2
      <3> QED
        BY <3>1, <3>4 DEF getUniqueNodes, Range
    <2> QED
      BY <2>1, <2>2 DEF getUniqueNodes, Range
  <1>6. Whole(a)
    <2> SUFFICES ASSUME NEW m \in Nodes, m \in getUniqueNodes(a), NEW k \in Range(Points(m))
                 PROVE  k \in DOMAIN a.nodes /\ a.nodes[k] = m
      BY DEF Whole
    <2>1. m \in getUniqueNodes(r) /\ m # n
      BY <1>5
    <2> QED
      BY <1>4, <2>1
  <1> QED
    BY <1>5, <1>6 DEF a

-----------------------------------------------------------------------------
(***************************************************************************)
(* The balancers.  RingInv holds with any hash function; what is known of  *)
(* whole nodes needs one without collisions.                               *)
(***************************************************************************)

\* The variable update of one goroutine.
UpdateRecord ==
    [running : BOOLEAN, backends : Seq(RingBackends), toRemove : SUBSET RingBackends,
     old : SUBSET RingBackends, target : SUBSET RingBackends, alone : BOOLEAN]

\* The weights that AddBackend stores.
StoredWeights == {weightOf(w) : w \in Weights}

\* The types, and which balancer is at which point of its code.
BalancerTypeOK ==
    /\ hash \in HashFunctions
    /\ balancer \in {"plain", "weighted"}
    /\ building \in Seq(RingBackends)
    /\ update \in [Updaters -> UpdateRecord]
    /\ \A u \in Updaters : ~update[u].running => update[u] = NoUpdate
    /\ building # <<>> => balancer = "plain" /\ \A u \in Updaters : ~update[u].running
    /\ balancer = "weighted" => \A u \in Updaters : ~update[u].running
    /\ DOMAIN weights \subseteq WeightedNames
    /\ weights \in [DOMAIN weights -> StoredWeights]
    /\ \/ wop = NoOp
       \/ /\ balancer = "weighted"
          /\ wop \in [op : {"add", "remove"}, backend : DOMAIN weights,
                      next : Nat, weight : StoredWeights]
          /\ wop.weight = weights[wop.backend]
          /\ wop.next < wop.weight

\* What every ring satisfies.
RingInv ==
    /\ RingOK(ring)
    /\ OwnKeys(ring)
    /\ NoCollisions => Whole(ring)

\* A stored weight is positive, and its virtual nodes are nodes.
LEMMA WeightType ==
  ASSUME NEW w \in StoredWeights
  PROVE  /\ w \in Nat /\ w >= 1
         /\ \A b \in RingBackends : \A i \in 0 .. w - 1 : <<b, i>> \in Nodes
  <1>1. PICK v \in Weights : w = weightOf(v)
    BY DEF StoredWeights
  <1>2. w \in Nat /\ w >= 1
    BY <1>1, KetamaAssumption DEF weightOf
  <1>3. \A i \in 0 .. w - 1 : i \in {0} \cup UNION {0 .. weightOf(x) - 1 : x \in Weights}
    BY <1>1
  <1> QED
    BY <1>2, <1>3 DEF Nodes

\* The plain balancer's nodes are nodes.
LEMMA PlainNodes ==
  \A b \in RingBackends : <<b, 0>> \in Nodes
  BY DEF Nodes

\* The tail of a list.
LEMMA TailOf ==
  ASSUME NEW S, NEW q \in Seq(S), q # <<>>
  PROVE  /\ Tail(q) \in Seq(S) /\ Head(q) \in S
         /\ Head(q) \in Range(q)
         /\ Range(q) = {Head(q)} \cup Range(Tail(q))
         /\ Range(q) \subseteq S
  <1>1. Len(q) \in Nat /\ Len(q) >= 1 /\ q \in [1 .. Len(q) -> S] /\ DOMAIN q = 1 .. Len(q)
    OBVIOUS
  <1>2. Head(q) = q[1] /\ Tail(q) \in Seq(S) /\ Len(Tail(q)) = Len(q) - 1
        /\ DOMAIN Tail(q) = 1 .. Len(q) - 1
        /\ \A i \in 1 .. Len(q) - 1 : Tail(q)[i] = q[i + 1]
    BY <1>1
  <1> DEFINE t == Tail(q)
             l == Len(q)
  <1> HIDE DEF t, l
  <1>3. /\ l \in Nat /\ l >= 1 /\ q \in [1 .. l -> S] /\ DOMAIN q = 1 .. l
        /\ Head(q) = q[1] /\ t \in Seq(S) /\ DOMAIN t = 1 .. l - 1
        /\ \A i \in 1 .. l - 1 : t[i] = q[i + 1]
    BY <1>1, <1>2 DEF t, l
  <1>4. q[1] \in Range(q) /\ Range(q) \subseteq S
    BY <1>3 DEF Range
  <1>5. ASSUME NEW i \in 1 .. l, i # 1
        PROVE  q[i] \in Range(t)
    <2>1. i - 1 \in 1 .. l - 1 /\ (i - 1) + 1 = i
      BY <1>3, <1>5
    <2>2. t[i - 1] = q[i] /\ i - 1 \in DOMAIN t
      BY <1>3, <2>1
    <2> QED
      BY <2>2 DEF Range
  <1>6. ASSUME NEW i \in 1 .. l - 1
        PROVE  t[i] \in Range(q)
    <2>1. i + 1 \in 1 .. l
      BY <1>3
    <2> QED
      BY <1>3, <2>1 DEF Range
  <1>7. Range(q) = {q[1]} \cup Range(t)
    <2>1. Range(q) \subseteq {q[1]} \cup Range(t)
      BY <1>3, <1>5 DEF Range
    <2>2. Range(t) \subseteq Range(q)
      <3>1. \A x \in Range(t) : \E i \in 1 .. l - 1 : x = t[i]
        BY <1>3 DEF Range
      <3> QED
        BY <1>6, <3>1
    <2> QED
      BY <1>4, <2>1, <2>2
  <1> QED
    BY <1>3, <1>4, <1>7 DEF t

\* Updates of the plain balancer: what a record is after a step.
LEMMA UpdateTypes ==
  ASSUME NEW d \in UpdateRecord
  PROVE  /\ [d EXCEPT !.alone = FALSE] \in UpdateRecord
         /\ \A list \in Seq(RingBackends), S \in SUBSET RingBackends :
               /\ [d EXCEPT !.backends = list, !.toRemove = S] \in UpdateRecord
               /\ [d EXCEPT !.backends = list, !.toRemove = S].running = d.running
         /\ [d EXCEPT !.alone = FALSE].running = d.running
  BY DEF UpdateRecord

\* A new balancer satisfies the types.
LEMMA InitTypes == KetamaInit => BalancerTypeOK
  <1> SUFFICES ASSUME KetamaInit PROVE BalancerTypeOK
    OBVIOUS
  <1>1. NoUpdate \in UpdateRecord /\ ~NoUpdate.running
    BY DEF NoUpdate, UpdateRecord
  <1>2. building \in Seq(RingBackends)
    <2>1. building \in BackendLists => building \in Seq(RingBackends)
      BY KetamaAssumption
    <2>2. <<>> \in Seq(RingBackends)
      OBVIOUS
    <2> QED
      BY <2>1, <2>2 DEF KetamaInit
  <1>3. update \in [Updaters -> UpdateRecord] /\ \A u \in Updaters : update[u] = NoUpdate
    BY <1>1 DEF KetamaInit
  <1>4. DOMAIN weights = {} /\ weights \in [DOMAIN weights -> StoredWeights]
    BY DEF KetamaInit
  <1> QED
    BY <1>1, <1>2, <1>3, <1>4 DEF KetamaInit, BalancerTypeOK

\* The names in the ring are backends.
LEMMA NamesType ==
  ASSUME OwnKeys(ring)
  PROVE  /\ getUniqueNodes(ring) \subseteq Nodes
         /\ RingNames \subseteq RingBackends
  <1>1. getUniqueNodes(ring) \subseteq Nodes
    BY DEF OwnKeys, getUniqueNodes, Range
  <1>2. \A n \in Nodes : n[1] \in RingBackends
    BY DEF Nodes
  <1> QED
    BY <1>1, <1>2 DEF RingNames

\* A step of the plain balancer, or of its constructor, that keeps the updates'
\* records in order keeps the types.
LEMMA PlainTypes ==
  ASSUME BalancerTypeOK, UNCHANGED <<balancer, hash, weights, wop>>,
         building' \in Seq(RingBackends),
         update' \in [Updaters -> UpdateRecord],
         \A u \in Updaters : ~update'[u].running => update'[u] = NoUpdate,
         building' # <<>> => balancer = "plain" /\ \A u \in Updaters : ~update'[u].running,
         balancer = "weighted" => \A u \in Updaters : ~update'[u].running
  PROVE  BalancerTypeOK'
  BY DEF BalancerTypeOK

\* Every step keeps the types and adds or removes at most one node.
LEMMA TypesStep ==
  ASSUME BalancerTypeOK, OwnKeys(ring), KetamaNext
  PROVE  /\ BalancerTypeOK'
         /\ \/ ring' = ring
            \/ \E n \in Nodes : ring' = AddNode(ring, n) \/ ring' = RemoveNode(ring, n)
  <1>0. /\ hash' = hash /\ balancer' = balancer
        /\ hash \in HashFunctions /\ balancer \in {"plain", "weighted"}
        /\ building \in Seq(RingBackends)
        /\ update \in [Updaters -> UpdateRecord]
        /\ \A u \in Updaters : ~update[u].running => update[u] = NoUpdate
        /\ balancer = "weighted" => \A u \in Updaters : ~update[u].running
    BY DEF BalancerTypeOK, KetamaNext
  <1>n. NoUpdate \in UpdateRecord /\ ~NoUpdate.running
        /\ NoUpdate.backends = <<>> /\ NoUpdate.toRemove = {}
    BY DEF NoUpdate, UpdateRecord
  <1>1. CASE Construct
    <2>1. /\ building # <<>> /\ ring' = AddNode(ring, <<Head(building), 0>>)
          /\ building' = Tail(building) /\ UNCHANGED <<update, weights, wop, shrunk>>
      BY <1>1 DEF Construct
    <2>2. Head(building) \in RingBackends /\ building' \in Seq(RingBackends)
      BY <1>0, <2>1, TailOf
    <2>3. balancer = "plain" /\ \A u \in Updaters : ~update[u].running
      BY <2>1 DEF BalancerTypeOK
    <2>4. BalancerTypeOK'
      BY <1>0, <2>1, <2>2, <2>3 DEF BalancerTypeOK
    <2> QED
      BY <2>1, <2>2, <2>4, PlainNodes
  <1>2. ASSUME building = <<>>, building' = building, NEW b \in RingBackends,
               AddBackend(b) \/ RemoveBackend(b)
        PROVE  /\ BalancerTypeOK'
               /\ \E n \in Nodes : ring' = AddNode(ring, n) \/ ring' = RemoveNode(ring, n)
    <2>1. /\ UNCHANGED <<weights, wop, shrunk>> /\ balancer = "plain"
          /\ ring' = AddNode(ring, <<b, 0>>) \/ ring' = RemoveNode(ring, <<b, 0>>)
          /\ update' = [u \in Updaters |->
                          IF u \in Updaters /\ update[u].running
                          THEN [update[u] EXCEPT !.alone = FALSE] ELSE update[u]]
      BY <1>2 DEF AddBackend, RemoveBackend, ChangeRing
    <2>2. \A u \in Updaters : /\ update'[u] \in UpdateRecord
                              /\ update'[u].running = update[u].running
                              /\ ~update[u].running => update'[u] = update[u]
      BY <1>0, <2>1, UpdateTypes
    <2>3. update' \in [Updaters -> UpdateRecord]
      BY <2>1, <2>2
    <2>4. BalancerTypeOK'
      BY <1>0, <1>2, <2>1, <2>2, <2>3, PlainTypes
    <2> QED
      BY <2>1, <2>4, PlainNodes
  <1>3. ASSUME building = <<>>, building' = building, NEW u \in Updaters,
               NEW list \in BackendLists, UpdateBegin(u, list)
        PROVE  BalancerTypeOK' /\ ring' = ring
    <2> DEFINE d == [running |-> TRUE, backends |-> list, toRemove |-> RingNames,
                     old |-> RingNames, target |-> Range(list), alone |-> TRUE]
    <2>1. /\ UNCHANGED <<ring, weights, wop, shrunk>> /\ balancer = "plain"
          /\ update' = [update EXCEPT ![u] = d]
      BY <1>3 DEF UpdateBegin, RingNames
    <2>2. d \in UpdateRecord /\ d.running
      <3>1. list \in Seq(RingBackends) /\ Range(list) \subseteq RingBackends
        <4>1. list \in Seq(RingBackends)
          BY KetamaAssumption
        <4>2. Range(<<>>) = {}
          BY DEF Range
        <4> QED
          BY <4>1, <4>2, TailOf
      <3> QED
        BY <3>1, NamesType DEF UpdateRecord
    <2> HIDE DEF d
    <2>3. /\ update' \in [Updaters -> UpdateRecord]
          /\ \A v \in Updaters : ~update'[v].running => update'[v] = NoUpdate
      BY <1>0, <2>1, <2>2
    <2>4. BalancerTypeOK'
      BY <1>0, <1>3, <2>1, <2>3, PlainTypes
    <2> QED
      BY <2>1, <2>4
  <1>4. ASSUME building = <<>>, building' = building, NEW u \in Updaters, update[u].running,
               NEW r, NEW list \in Seq(RingBackends), NEW S \in SUBSET RingBackends,
               UpdateStep(u, r, list, S)
        PROVE  BalancerTypeOK' /\ ring' = r
    <2>1. /\ UNCHANGED <<weights, wop, shrunk>> /\ ring' = r
          /\ update' = [v \in Updaters |->
                IF v = u THEN [update[u] EXCEPT !.backends = list, !.toRemove = S]
                ELSE IF update[v].running /\ r # ring THEN [update[v] EXCEPT !.alone = FALSE]
                ELSE update[v]]
      BY <1>4 DEF UpdateStep
    <2>2. ASSUME NEW v \in Updaters
          PROVE  /\ update'[v] \in UpdateRecord
                 /\ update'[v].running = update[v].running
                 /\ ~update[v].running => update'[v] = update[v]
      <3>1. CASE v = u
        <4>1. PICK d \in UpdateRecord : d = update[u]
          BY <1>0
        <4>2. update'[v] = [d EXCEPT !.backends = list, !.toRemove = S]
          BY <2>1, <3>1, <4>1
        <4>3. /\ [d EXCEPT !.backends = list, !.toRemove = S] \in UpdateRecord
              /\ [d EXCEPT !.backends = list, !.toRemove = S].running = d.running
          BY <1>4, UpdateTypes
        <4> QED
          BY <1>4, <3>1, <4>1, <4>2, <4>3
      <3>2. CASE v # u
        BY <1>0, <1>4, <2>1, <3>2, UpdateTypes
      <3> QED
        BY <3>1, <3>2
    <2>3. update' \in [Updaters -> UpdateRecord]
      BY <2>1, <2>2
    <2>4. BalancerTypeOK'
      BY <1>0, <1>4, <2>1, <2>2, <2>3, PlainTypes
    <2> QED
      BY <2>1, <2>4
  <1>5. ASSUME building = <<>>, building' = building, NEW u \in Updaters, UpdateNext(u)
        PROVE  /\ BalancerTypeOK'
               /\ ring' = ring \/ \E n \in Nodes : ring' = AddNode(ring, n)
    <2>1. PICK d \in UpdateRecord : d = update[u]
      BY <1>0
    <2>2. d.backends # <<>> /\ d.backends \in Seq(RingBackends)
          /\ d.toRemove \in SUBSET RingBackends
      BY <1>5, <2>1 DEF UpdateNext, UpdateRecord
    <2>3. update[u].running
      BY <1>0, <1>n, <2>1, <2>2
    <2>4. Tail(d.backends) \in Seq(RingBackends) /\ Head(d.backends) \in RingBackends
      BY <2>2, TailOf
    <2>5. \/ UpdateStep(u, ring, Tail(d.backends), d.toRemove \ {Head(d.backends)})
          \/ UpdateStep(u, AddNode(ring, <<Head(d.backends), 0>>), Tail(d.backends), d.toRemove)
      BY <1>5, <2>1 DEF UpdateNext
    <2>6. d.toRemove \ {Head(d.backends)} \in SUBSET RingBackends
      BY <2>2
    <2>7. \/ BalancerTypeOK' /\ ring' = ring
          \/ BalancerTypeOK' /\ ring' = AddNode(ring, <<Head(d.backends), 0>>)
      BY <1>4, <1>5, <2>2, <2>3, <2>4, <2>5, <2>6
    <2> QED
      BY <2>4, <2>7, PlainNodes
  <1>6. ASSUME building = <<>>, building' = building, NEW u \in Updaters,
               NEW b \in RingBackends, UpdateRemove(u, b)
        PROVE  /\ BalancerTypeOK'
               /\ \E n \in Nodes : ring' = RemoveNode(ring, n)
    <2>1. PICK d \in UpdateRecord : d = update[u]
      BY <1>0
    <2>2. b \in d.toRemove /\ d.toRemove \in SUBSET RingBackends
      BY <1>6, <2>1 DEF UpdateRemove, UpdateRecord
    <2>3. update[u].running
      BY <1>0, <1>n, <2>1, <2>2
    <2>4. d.toRemove \ {b} \in SUBSET RingBackends /\ <<>> \in Seq(RingBackends)
      BY <2>2
    <2>5. UpdateStep(u, RemoveNode(ring, <<b, 0>>), <<>>, d.toRemove \ {b})
      BY <1>6, <2>1 DEF UpdateRemove
    <2>6. BalancerTypeOK' /\ ring' = RemoveNode(ring, <<b, 0>>)
      BY <1>4, <1>6, <2>3, <2>4, <2>5
    <2> QED
      BY <2>6, PlainNodes
  <1>7. ASSUME building = <<>>, building' = building, NEW u \in Updaters, UpdateReturn(u)
        PROVE  BalancerTypeOK' /\ ring' = ring
    <2>1. /\ UNCHANGED <<ring, weights, wop, shrunk>>
          /\ update' = [update EXCEPT ![u] = NoUpdate]
      BY <1>7 DEF UpdateReturn
    <2>2. /\ update' \in [Updaters -> UpdateRecord]
          /\ \A v \in Updaters : ~update'[v].running => update'[v] = NoUpdate
          /\ \A v \in Updaters : ~update[v].running => ~update'[v].running
      BY <1>0, <1>n, <2>1
    <2>3. BalancerTypeOK'
      BY <1>0, <1>7, <2>1, <2>2, PlainTypes
    <2> QED
      BY <2>1, <2>3
  <1>8. ASSUME building = <<>>, building' = building, NEW b \in WeightedNames,
               NEW weight \in Weights, WeightedAdd(b, weight)
        PROVE  BalancerTypeOK' /\ ring' = ring
    <2>1. PICK w \in StoredWeights : w = weightOf(weight)
      BY DEF StoredWeights
    <2>2. /\ UNCHANGED <<ring, update>> /\ balancer = "weighted"
          /\ weights' = [c \in DOMAIN weights \cup {b} |-> IF c = b THEN w ELSE weights[c]]
          /\ wop' = [op |-> "add", backend |-> b, next |-> 0, weight |-> w]
      BY <1>8, <2>1 DEF WeightedAdd
    <2>3. /\ DOMAIN weights' \subseteq WeightedNames
          /\ weights' \in [DOMAIN weights' -> StoredWeights]
          /\ weights'[b] = w /\ b \in DOMAIN weights'
      BY <2>2 DEF BalancerTypeOK
    <2>4. 0 < w
      BY WeightType
    <2> QED
      BY <1>8, <1>0, <2>2, <2>3, <2>4 DEF BalancerTypeOK
  <1>9. ASSUME building = <<>>, building' = building, NEW b \in WeightedNames, WeightedRemove(b)
        PROVE  BalancerTypeOK' /\ ring' = ring
    <2>1. /\ UNCHANGED <<ring, update, weights>> /\ balancer = "weighted" /\ b \in DOMAIN weights
          /\ wop' = [op |-> "remove", backend |-> b, next |-> 0, weight |-> weights[b]]
      BY <1>9 DEF WeightedRemove
    <2>2. weights[b] \in StoredWeights
      BY <2>1 DEF BalancerTypeOK
    <2>3. 0 < weights[b]
      BY <2>2, WeightType
    <2> QED
      BY <1>9, <1>0, <2>1, <2>2, <2>3 DEF BalancerTypeOK
  <1>10. ASSUME building = <<>>, building' = building, WeightedAddNode \/ WeightedRemoveNode
         PROVE  /\ BalancerTypeOK'
                /\ \E n \in Nodes : ring' = AddNode(ring, n) \/ ring' = RemoveNode(ring, n)
    <2>1. /\ balancer = "weighted"
          /\ wop \in [op : {"add", "remove"}, backend : DOMAIN weights,
                      next : Nat, weight : StoredWeights]
          /\ wop.weight = weights[wop.backend]
          /\ wop.next < wop.weight
          /\ DOMAIN weights \subseteq WeightedNames /\ weights \in [DOMAIN weights -> StoredWeights]
      <3>1. wop.op \in {"add", "remove"}
        BY <1>10 DEF WeightedAddNode, WeightedRemoveNode
      <3>2. NoOp.op = "none"
        BY DEF NoOp
      <3>3. wop # NoOp
        BY <3>1, <3>2
      <3> QED
        BY <3>3 DEF BalancerTypeOK
    <2>2. PICK b \in WeightedNames, i \in Nat, w \in StoredWeights :
             b = wop.backend /\ i = wop.next /\ w = wop.weight /\ i < w
      BY <2>1
    <2>3. w \in Nat /\ b \in RingBackends /\ <<b, i>> \in Nodes
      BY <2>2, KetamaAssumption, WeightType
    <2>4. ring' = AddNode(ring, <<b, i>>) \/ ring' = RemoveNode(ring, <<b, i>>)
      BY <1>10, <2>2 DEF WeightedAddNode, WeightedRemoveNode
    <2>5. /\ wop' = NextNode /\ update' = update
          /\ \/ weights' = weights
             \/ wop' = NoOp /\ weights' = Restrict(weights, DOMAIN weights \ {wop.backend})
      BY <1>10 DEF WeightedAddNode, WeightedRemoveNode
    <2>6. CASE wop' = NoOp
      <3>1. /\ DOMAIN weights' \subseteq WeightedNames
            /\ weights' \in [DOMAIN weights' -> StoredWeights]
        BY <2>1, <2>5 DEF Restrict
      <3>2. BalancerTypeOK'
        BY <1>0, <1>10, <2>5, <2>6, <3>1 DEF BalancerTypeOK
      <3> QED
        BY <2>3, <2>4, <3>2
    <2>7. CASE wop' # NoOp
      <3>1. wop' = [wop EXCEPT !.next = wop.next + 1] /\ wop.next + 1 # wop.weight
        BY <2>5, <2>7 DEF NextNode
      <3>2. weights' = weights
        BY <2>5, <2>7
      <3>3. /\ wop' \in [op : {"add", "remove"}, backend : DOMAIN weights,
                         next : Nat, weight : StoredWeights]
            /\ wop'.weight = wop.weight /\ wop'.backend = wop.backend
            /\ wop'.next = wop.next + 1
        BY <2>1, <3>1
      <3>4. wop'.next < wop'.weight
        BY <2>2, <2>3, <3>1, <3>3
      <3>5. BalancerTypeOK'
        BY <1>0, <1>10, <2>1, <2>5, <3>2, <3>3, <3>4 DEF BalancerTypeOK
      <3> QED
        BY <2>3, <2>4, <3>5
    <2> QED
      BY <2>6, <2>7
  <1>11. CASE building = <<>> /\ building' = building /\ Operate
    BY <1>2, <1>3, <1>5, <1>6, <1>7, <1>8, <1>9, <1>10, <1>11 DEF Operate
  <1> QED
    BY <1>1, <1>11 DEF KetamaNext

\* What holds of the ring holds of the ring after a step.
LEMMA RingStep ==
  ASSUME BalancerTypeOK, RingInv, hash' = hash,
         \/ ring' = ring
         \/ \E n \in Nodes : ring' = AddNode(ring, n) \/ ring' = RemoveNode(ring, n)
  PROVE  /\ RingOK(ring') /\ OwnKeys(ring') /\ (NoCollisions => Whole(ring'))
         /\ RingInv'
  <1>1. hash \in HashFunctions /\ RingOK(ring) /\ OwnKeys(ring) /\ (NoCollisions => Whole(ring))
    BY DEF BalancerTypeOK, RingInv
  <1>2. DOMAIN ring.nodes \subseteq HashValues
    BY <1>1 DEF OwnKeys
  <1>3. RingOK(ring') /\ OwnKeys(ring') /\ (NoCollisions => Whole(ring'))
    <2>1. CASE ring' = ring
      BY <1>1, <2>1
    <2>2. ASSUME NEW n \in Nodes, ring' = AddNode(ring, n)
          PROVE  RingOK(ring') /\ OwnKeys(ring') /\ (NoCollisions => Whole(ring'))
      BY <1>1, <2>2, AddNodeOK, AddNodeOwn, AddNodeWhole
    <2>3. ASSUME NEW n \in Nodes, ring' = RemoveNode(ring, n)
          PROVE  RingOK(ring') /\ OwnKeys(ring') /\ (NoCollisions => Whole(ring'))
      BY <1>1, <1>2, <2>3, RemoveNodeOK, RemoveNodeOwn, RemoveNodeWhole
    <2> QED
      BY <2>1, <2>2, <2>3
  <1>4. \A n : Points(n)' = Points(n)
    BY DEF Points
  <1>5. RingOK(ring)' /\ OwnKeys(ring)' /\ (NoCollisions => Whole(ring))'
    <2>1. RingOK(ring)'
      BY <1>3 DEF RingOK
    <2>2. OwnKeys(ring)'
      BY <1>3 DEF OwnKeys, Points
    <2>3. NoCollisions' <=> NoCollisions
      BY DEF NoCollisions, Points
    <2>4. Whole(ring') => Whole(ring)'
      BY DEF Whole, Points, getUniqueNodes
    <2> QED
      BY <1>3, <2>1, <2>2, <2>3, <2>4
  <1> QED
    BY <1>3, <1>5 DEF RingInv

\* The empty ring is a ring.
LEMMA EmptyRingOK ==
  ASSUME KetamaInit
  PROVE  RingInv
  <1>1. /\ ring.nodes = <<>> /\ ring.sortedKeys = <<>>
        /\ DOMAIN ring.nodes = {} /\ DOMAIN ring.sortedKeys = {}
    BY DEF KetamaInit, EmptyRing
  <1>2. ring.sortedKeys \in [1 .. 0 -> HashValues]
    BY <1>1
  <1>3. RingOK(ring)
    BY <1>1, <1>2 DEF RingOK
  <1>4. OwnKeys(ring)
    BY <1>1 DEF OwnKeys
  <1>5. getUniqueNodes(ring) = {}
    BY <1>1 DEF getUniqueNodes, Range
  <1>6. Whole(ring)
    BY <1>5 DEF Whole
  <1> QED
    BY <1>3, <1>4, <1>6 DEF RingInv

\* The invariant that the other invariants rest on.
KetamaInv == BalancerTypeOK /\ RingInv

\* A step that changes nothing changes nothing of it.
LEMMA KetamaStutter ==
  ASSUME KetamaInv, UNCHANGED ketamaVars
  PROVE  KetamaInv'
  BY DEF KetamaInv, ketamaVars, BalancerTypeOK, RingInv, RingOK, OwnKeys, Whole, Points,
         NoCollisions, getUniqueNodes

\* After any operations of either balancer and with any hash function the list
\* of keys is sorted and lists the keys of the map, which are points of their nodes.
THEOREM KetamaInvariance == KetamaSpec => []KetamaInv
  <1>1. KetamaInit => KetamaInv
    BY InitTypes, EmptyRingOK DEF KetamaInv
  <1>2. KetamaInv /\ [KetamaNext]_ketamaVars => KetamaInv'
    <2> SUFFICES ASSUME KetamaInv, [KetamaNext]_ketamaVars
                 PROVE  KetamaInv'
      OBVIOUS
    <2>1. CASE KetamaNext
      <3>1. BalancerTypeOK /\ RingInv /\ OwnKeys(ring) /\ hash' = hash
        BY <2>1 DEF KetamaInv, RingInv, KetamaNext
      <3> QED
        BY <2>1, <3>1, TypesStep, RingStep DEF KetamaInv
    <2>2. CASE UNCHANGED ketamaVars
      BY <2>2, KetamaStutter
    <2> QED
      BY <2>1, <2>2
  <1> QED
    BY <1>1, <1>2, PTL DEF KetamaSpec

\* GetNode on an empty ring is the error, and on any other a node of the ring.
LEMMA GetNodeOf ==
  ASSUME NEW r, RingOK(r), NEW h \in HashValues
  PROVE  /\ DOMAIN r.nodes = {} <=> getUniqueNodes(r) = {}
         /\ DOMAIN r.nodes # {} => GetNode(r, h) \in getUniqueNodes(r)
  BY GetNodeIs DEF getUniqueNodes, Range

\* Adding a node moves keys to that node only, and none if it was there.
LEMMA AddMovesLittle ==
  ASSUME hash \in HashFunctions, NoCollisions, NEW n \in Nodes, NEW r,
         RingOK(r), OwnKeys(r), Whole(r), NEW h \in HashValues
  PROVE  \/ GetNode(r, h) = GetNode(AddNode(r, n), h)
         \/ GetNode(AddNode(r, n), h) \notin getUniqueNodes(r)
  <1> DEFINE a == AddNode(r, n)
             P == Range(Points(n))
  <1>1. /\ DOMAIN a.nodes = P \cup DOMAIN r.nodes
        /\ \A k \in P : a.nodes[k] = n
        /\ \A k \in DOMAIN r.nodes \ P : a.nodes[k] = r.nodes[k]
        /\ P # {}
    BY AddNodeMap, PointsType
  <1>2. RingOK(a) /\ OwnKeys(a)
    BY AddNodeOK, AddNodeOwn
  <1> HIDE DEF a
  <1>3. DOMAIN a.nodes \in SUBSET Int /\ h \in Int /\ DOMAIN a.nodes # {}
    <2>1. HashValues \subseteq Int
      BY DEF HashValues
    <2> QED
      BY <1>1, <1>2, <2>1 DEF OwnKeys
  <1>4. PICK k \in DOMAIN a.nodes : Clockwise(DOMAIN a.nodes, h, k) /\ GetNode(a, h) = a.nodes[k]
    BY <1>2, <1>3, GetNodeIs
  <1>5. CASE getUniqueNodes(r) = {}
    BY <1>5 DEF a
  <1>6. CASE getUniqueNodes(r) # {} /\ k \in DOMAIN r.nodes
    <2>1. Clockwise(DOMAIN r.nodes, h, k)
      BY <1>1, <1>3, <1>4, <1>6, ClockwiseOfFewer
    <2>2. PICK j \in DOMAIN r.nodes :
             Clockwise(DOMAIN r.nodes, h, j) /\ GetNode(r, h) = r.nodes[j]
      BY <1>6, GetNodeIs
    <2>3. j = k
      <3>1. DOMAIN r.nodes \in SUBSET Int
        BY <1>1, <1>3
      <3> QED
        BY <1>3, <2>1, <2>2, <3>1, OneClockwise
    <2>4. a.nodes[k] = r.nodes[k]
      <3>1. CASE k \notin P
        BY <1>1, <1>6, <3>1
      <3>2. CASE k \in P
        <4>1. PICK m \in Nodes : m = r.nodes[k] /\ k \in Range(Points(m))
          BY <1>6 DEF OwnKeys
        <4>2. m = n
          BY <3>2, <4>1 DEF NoCollisions
        <4> QED
          BY <1>1, <3>2, <4>1, <4>2
      <3> QED
        BY <3>1, <3>2
    <2> QED
      BY <1>4, <2>2, <2>3, <2>4 DEF a
  <1>7. CASE k \notin DOMAIN r.nodes
    <2>1. k \in P /\ GetNode(a, h) = n
      BY <1>1, <1>4, <1>7
    <2>2. n \notin getUniqueNodes(r)
      BY <1>7, <2>1 DEF Whole
    <2> QED
      BY <2>1, <2>2 DEF a
  <1> QED
    BY <1>5, <1>6, <1>7

\* Removing a node moves the keys of that node only.
LEMMA RemoveMovesLittle ==
  ASSUME hash \in HashFunctions, NoCollisions, NEW n \in Nodes, NEW r,
         RingOK(r), OwnKeys(r), Whole(r), NEW h \in HashValues
  PROVE  \/ GetNode(r, h) = GetNode(RemoveNode(r, n), h)
         \/ GetNode(r, h) \notin getUniqueNodes(RemoveNode(r, n))
  <1> DEFINE a == RemoveNode(r, n)
             P == Range(Points(n))
  <1>1. /\ DOMAIN a.nodes = DOMAIN r.nodes \ P
        /\ \A k \in DOMAIN r.nodes \ P : a.nodes[k] = r.nodes[k]
    BY RemoveNodeMap
  <1>2. RingOK(a) /\ getUniqueNodes(a) = getUniqueNodes(r) \ {n}
    BY RemoveNodeOK, RemoveNodeWhole DEF OwnKeys
  <1> HIDE DEF a
  <1>3. DOMAIN r.nodes \in SUBSET Int /\ h \in Int
    BY DEF HashValues, OwnKeys
  <1>4. CASE getUniqueNodes(a) = {}
    BY <1>4 DEF a
  <1>5. CASE getUniqueNodes(a) # {}
    <2>1. DOMAIN a.nodes # {} /\ DOMAIN r.nodes # {}
      BY <1>1, <1>2, <1>5, GetNodeOf
    <2>2. PICK k \in DOMAIN r.nodes :
             Clockwise(DOMAIN r.nodes, h, k) /\ GetNode(r, h) = r.nodes[k]
      BY <2>1, GetNodeIs
    <2>3. CASE k \in P
      <3>1. PICK m \in Nodes : m = r.nodes[k] /\ k \in Range(Points(m))
        BY DEF OwnKeys
      <3>2. m = n
        BY <2>3, <3>1 DEF NoCollisions
      <3> QED
        BY <1>2, <2>2, <3>1, <3>2 DEF a
    <2>4. CASE k \notin P
      <3>1. k \in DOMAIN a.nodes /\ DOMAIN a.nodes \in SUBSET DOMAIN r.nodes
        BY <1>1, <2>4
      <3>2. Clockwise(DOMAIN a.nodes, h, k)
        BY <1>3, <2>2, <3>1, ClockwiseOfFewer
      <3>3. PICK j \in DOMAIN a.nodes :
               Clockwise(DOMAIN a.nodes, h, j) /\ GetNode(a, h) = a.nodes[j]
        BY <1>2, <2>1, GetNodeIs
      <3>4. j = k
        <4>1. DOMAIN a.nodes \in SUBSET Int
          BY <1>3, <3>1
        <4> QED
          BY <1>3, <3>2, <3>3, <4>1, OneClockwise
      <3> QED
        BY <1>1, <2>2, <2>4, <3>3, <3>4 DEF a
    <2> QED
      BY <2>3, <2>4
  <1> QED
    BY <1>4, <1>5

\* The promise of consistent hashing, for every change of the ring by either
\* balancer: without collisions a key moves only away from a node that has left
\* the ring or to a node that is new in it.
THEOREM MinimalDisruptionCorrect == KetamaSpec => MinimalDisruption
  <1> DEFINE Moves == ring' # ring /\ NoCollisions =>
                        \A h \in HashValues :
                            \/ GetNode(ring, h) = GetNode(ring', h)
                            \/ GetNode(ring, h) \notin getUniqueNodes(ring')
                            \/ GetNode(ring', h) \notin getUniqueNodes(ring)
  <1>1. KetamaInv /\ [KetamaNext]_ketamaVars => [Moves]_ring
    <2> SUFFICES ASSUME KetamaInv, [KetamaNext]_ketamaVars, ring' # ring, NoCollisions,
                        NEW h \in HashValues
                 PROVE  \/ GetNode(ring, h) = GetNode(ring', h)
                        \/ GetNode(ring, h) \notin getUniqueNodes(ring')
                        \/ GetNode(ring', h) \notin getUniqueNodes(ring)
      OBVIOUS
    <2>1. KetamaNext
      BY DEF ketamaVars
    <2>2. /\ BalancerTypeOK /\ hash \in HashFunctions
          /\ RingOK(ring) /\ OwnKeys(ring) /\ Whole(ring)
      BY DEF KetamaInv, RingInv, BalancerTypeOK
    <2>3. PICK n \in Nodes : ring' = AddNode(ring, n) \/ ring' = RemoveNode(ring, n)
      BY <2>1, <2>2, TypesStep
    <2>4. CASE ring' = AddNode(ring, n)
      BY <2>2, <2>4, AddMovesLittle
    <2>5. CASE ring' = RemoveNode(ring, n)
      BY <2>2, <2>5, RemoveMovesLittle
    <2> QED
      BY <2>3, <2>4, <2>5
  <1> QED
    BY <1>1, KetamaInvariance, PTL DEF KetamaSpec, MinimalDisruption

-----------------------------------------------------------------------------
(***************************************************************************)
(* UpdateBackends.  While the loops of an update that nothing overlaps     *)
(* run, ServesInv relates what they have still to do with what is in the   *)
(* ring: the new list has been added except for its rest, what is to be    *)
(* removed is still there, and nothing else has to go.                     *)
(***************************************************************************)

\* The backends in a ring of the plain balancer.
NamesOf(r) == {n[1] : n \in getUniqueNodes(r)}

\* The nodes of the plain balancer have number 0.
PlainRing(r) == \A n \in getUniqueNodes(r) : n[2] = 0

\* What the loops know of the ring's backends R, in terms of their variables.
Between(d, R) ==
    /\ d.toRemove \subseteq d.old \cap R
    /\ d.old \cap d.target \subseteq R
    /\ R \subseteq d.old \cup d.target
    /\ Range(d.backends) \subseteq d.target
    /\ d.target \ Range(d.backends) \subseteq R
    /\ R \ d.target \subseteq d.toRemove
    /\ d.toRemove \cap d.target \subseteq Range(d.backends)
    /\ d.backends # <<>> => d.old \ d.toRemove \subseteq d.target

\* The invariant of UpdateServes: what every update that runs alone has done.
ServesInv ==
    NoCollisions /\ balancer = "plain" =>
        /\ PlainRing(ring)
        /\ \A u \in Updaters :
              update[u].running /\ update[u].alone => Between(update[u], RingNames)

\* Between is what UpdateServes needs.
LEMMA BetweenServes ==
  ASSUME NEW d \in UpdateRecord, NEW R, Between(d, R)
  PROVE  /\ d.old \cap d.target \subseteq R
         /\ R \subseteq d.old \cup d.target
         /\ d.old # {} /\ d.target # {} => R # {}
         /\ d.backends = <<>> /\ d.toRemove = {} => R = d.target
  <1>1. CASE d.backends = <<>>
    <2>1. Range(d.backends) = {}
      BY <1>1 DEF Range
    <2> QED
      BY <1>1, <2>1 DEF Between
  <1>2. CASE d.backends # <<>>
    BY <1>2 DEF Between
  <1> QED
    BY <1>1, <1>2

\* The loops begin.
LEMMA BetweenBegin ==
  ASSUME NEW list \in Seq(RingBackends), NEW R
  PROVE  Between([running |-> TRUE, backends |-> list, toRemove |-> R, old |-> R,
                  target |-> Range(list), alone |-> TRUE], R)
  BY DEF Between

\* The first loop skips a backend that is there.
LEMMA BetweenSkip ==
  ASSUME NEW d \in UpdateRecord, NEW R, Between(d, R), d.backends # <<>>,
         Head(d.backends) \in d.toRemove
  PROVE  Between([d EXCEPT !.backends = Tail(d.backends),
                           !.toRemove = d.toRemove \ {Head(d.backends)}], R)
  <1> DEFINE h == Head(d.backends)
             t == Tail(d.backends)
             e == [d EXCEPT !.backends = t, !.toRemove = d.toRemove \ {h}]
  <1>1. d.backends \in Seq(RingBackends)
    BY DEF UpdateRecord
  <1>2. Range(d.backends) = {h} \cup Range(t)
    BY <1>1, TailOf
  <1>3. /\ e.backends = t /\ e.toRemove = d.toRemove \ {h}
        /\ e.old = d.old /\ e.target = d.target
    BY DEF UpdateRecord
  <1> HIDE DEF h, t, e
  <1>4. h \in d.toRemove
    BY DEF h
  <1>5. Between(e, R)
    BY <1>2, <1>3, <1>4 DEF Between
  <1> QED
    BY <1>5 DEF e, h, t

\* The first loop adds a backend.
LEMMA BetweenAdd ==
  ASSUME NEW d \in UpdateRecord, NEW R, Between(d, R), d.backends # <<>>,
         Head(d.backends) \notin d.toRemove
  PROVE  Between([d EXCEPT !.backends = Tail(d.backends), !.toRemove = d.toRemove],
                 R \cup {Head(d.backends)})
  <1> DEFINE h == Head(d.backends)
             t == Tail(d.backends)
             e == [d EXCEPT !.backends = t, !.toRemove = d.toRemove]
  <1>1. d.backends \in Seq(RingBackends)
    BY DEF UpdateRecord
  <1>2. Range(d.backends) = {h} \cup Range(t)
    BY <1>1, TailOf
  <1>3. /\ e.backends = t /\ e.toRemove = d.toRemove
        /\ e.old = d.old /\ e.target = d.target
    BY DEF UpdateRecord
  <1> HIDE DEF h, t, e
  <1>4. h \notin d.toRemove
    BY DEF h
  <1>5. Between(e, R \cup {h})
    BY <1>2, <1>3, <1>4 DEF Between
  <1> QED
    BY <1>5 DEF e, h, t

\* The second loop removes a backend.
LEMMA BetweenRemove ==
  ASSUME NEW d \in UpdateRecord, NEW R, Between(d, R), d.backends = <<>>,
         NEW b \in d.toRemove
  PROVE  Between([d EXCEPT !.backends = <<>>, !.toRemove = d.toRemove \ {b}], R \ {b})
  <1> DEFINE e == [d EXCEPT !.backends = <<>>, !.toRemove = d.toRemove \ {b}]
  <1>1. Range(<<>>) = {}
    BY DEF Range
  <1>2. /\ e.backends = <<>> /\ e.toRemove = d.toRemove \ {b}
        /\ e.old = d.old /\ e.target = d.target
    BY DEF UpdateRecord
  <1> HIDE DEF e
  <1>3. Between(e, R \ {b})
    BY <1>1, <1>2 DEF Between
  <1> QED
    BY <1>3 DEF e

\* AddNode and RemoveNode of the plain balancer add and remove a backend.
LEMMA PlainAdd ==
  ASSUME hash \in HashFunctions, NoCollisions, NEW b \in RingBackends, NEW r,
         OwnKeys(r), Whole(r), PlainRing(r)
  PROVE  /\ PlainRing(AddNode(r, <<b, 0>>))
         /\ NamesOf(AddNode(r, <<b, 0>>)) = NamesOf(r) \cup {b}
  <1>1. getUniqueNodes(AddNode(r, <<b, 0>>)) = getUniqueNodes(r) \cup {<<b, 0>>}
    BY PlainNodes, AddNodeWhole
  <1> QED
    BY <1>1 DEF PlainRing, NamesOf

\* RemoveNode of a whole ring takes the node off, and no other.
LEMMA PlainRemove ==
  ASSUME hash \in HashFunctions, NoCollisions, NEW b \in RingBackends, NEW r,
         OwnKeys(r), Whole(r), PlainRing(r)
  PROVE  /\ PlainRing(RemoveNode(r, <<b, 0>>))
         /\ NamesOf(RemoveNode(r, <<b, 0>>)) = NamesOf(r) \ {b}
  <1>1. getUniqueNodes(RemoveNode(r, <<b, 0>>)) = getUniqueNodes(r) \ {<<b, 0>>}
    BY PlainNodes, RemoveNodeWhole
  <1>2. \A n \in getUniqueNodes(r) : n[1] = b => n = <<b, 0>>
    <2> SUFFICES ASSUME NEW n \in getUniqueNodes(r), n[1] = b
                 PROVE  n = <<b, 0>>
      OBVIOUS
    <2>1. n \in Nodes
      BY DEF OwnKeys, getUniqueNodes, Range
    <2>2. n[2] = 0
      BY DEF PlainRing
    <2> QED
      BY <2>1, <2>2 DEF Nodes
  <1>3. PlainRing(RemoveNode(r, <<b, 0>>))
    BY <1>1 DEF PlainRing
  <1>4. NamesOf(RemoveNode(r, <<b, 0>>)) = {n[1] : n \in getUniqueNodes(r) \ {<<b, 0>>}}
    BY <1>1 DEF NamesOf
  <1>5. {n[1] : n \in getUniqueNodes(r) \ {<<b, 0>>}} = {n[1] : n \in getUniqueNodes(r)} \ {b}
    BY <1>2
  <1> QED
    BY <1>3, <1>4, <1>5 DEF NamesOf

\* One step of an update: those of the others are disturbed or see the same ring.
LEMMA ServesUpdate ==
  ASSUME BalancerTypeOK, ServesInv, NoCollisions, balancer = "plain",
         NEW u \in Updaters, NEW r, NEW list, NEW S, UpdateStep(u, r, list, S),
         PlainRing(r),
         update[u].alone /\ update[u].running =>
            Between([update[u] EXCEPT !.backends = list, !.toRemove = S], NamesOf(r))
  PROVE  /\ PlainRing(ring')
         /\ \A v \in Updaters :
               update'[v].running /\ update'[v].alone => Between(update'[v], NamesOf(ring'))
  <1>1. /\ ring' = r
        /\ update' = [v \in Updaters |->
              IF v = u THEN [update[u] EXCEPT !.backends = list, !.toRemove = S]
              ELSE IF update[v].running /\ r # ring THEN [update[v] EXCEPT !.alone = FALSE]
              ELSE update[v]]
    BY DEF UpdateStep
  <1>2. update \in [Updaters -> UpdateRecord]
    BY DEF BalancerTypeOK
  <1>3. ASSUME NEW v \in Updaters, update'[v].running, update'[v].alone
        PROVE  Between(update'[v], NamesOf(r))
    <2>1. PICK d \in UpdateRecord : d = update[v]
      BY <1>2
    <2>2. CASE v = u
      <3>1. update'[v] = [d EXCEPT !.backends = list, !.toRemove = S]
        BY <1>1, <2>1, <2>2
      <3>2. d.running /\ d.alone
        BY <1>3, <3>1 DEF UpdateRecord
      <3> QED
        BY <2>1, <2>2, <3>1, <3>2
    <2>3. CASE v # u /\ d.running /\ r # ring
      <3>1. update'[v] = [d EXCEPT !.alone = FALSE]
        BY <1>1, <2>1, <2>3
      <3>2. ~update'[v].alone
        BY <3>1 DEF UpdateRecord
      <3> QED
        BY <1>3, <3>2
    <2>4. CASE v # u /\ ~(d.running /\ r # ring)
      <3>1. update'[v] = d
        BY <1>1, <2>1, <2>4
      <3>2. d.running /\ d.alone /\ r = ring
        BY <1>3, <2>4, <3>1
      <3>3. Between(d, RingNames)
        BY <2>1, <3>2 DEF ServesInv
      <3> QED
        BY <3>1, <3>2, <3>3 DEF RingNames, NamesOf
    <2> QED
      BY <2>2, <2>3, <2>4
  <1> QED
    BY <1>1, <1>3

\* Every step of the plain balancer keeps it.
LEMMA ServesStep ==
  ASSUME KetamaInv, ServesInv, KetamaNext, NoCollisions, balancer = "plain"
  PROVE  /\ PlainRing(ring')
         /\ \A v \in Updaters :
               update'[v].running /\ update'[v].alone => Between(update'[v], NamesOf(ring'))
  <1> DEFINE Goal == /\ PlainRing(ring')
                     /\ \A v \in Updaters : update'[v].running /\ update'[v].alone =>
                           Between(update'[v], NamesOf(ring'))
  <1>0. /\ hash \in HashFunctions /\ OwnKeys(ring) /\ Whole(ring) /\ PlainRing(ring)
        /\ update \in [Updaters -> UpdateRecord] /\ BalancerTypeOK
        /\ \A u \in Updaters : ~update[u].running => update[u] = NoUpdate
        /\ \A u \in Updaters :
              update[u].running /\ update[u].alone => Between(update[u], NamesOf(ring))
    BY DEF KetamaInv, RingInv, BalancerTypeOK, ServesInv, RingNames, NamesOf
  <1>n. ~NoUpdate.running /\ NoUpdate.backends = <<>> /\ NoUpdate.toRemove = {}
    BY DEF NoUpdate
  <1>1. CASE Construct
    <2>1. /\ building # <<>> /\ ring' = AddNode(ring, <<Head(building), 0>>) /\ update' = update
      BY <1>1 DEF Construct
    <2>2. building \in Seq(RingBackends) /\ \A u \in Updaters : ~update[u].running
      BY <2>1 DEF KetamaInv, BalancerTypeOK
    <2>3. Head(building) \in RingBackends
      BY <2>1, <2>2, TailOf
    <2>4. PlainRing(ring')
      BY <1>0, <2>1, <2>3, PlainAdd
    <2> QED
      BY <2>1, <2>2, <2>4
  <1>2. ASSUME NEW b \in RingBackends, AddBackend(b) \/ RemoveBackend(b)
        PROVE  Goal
    <2>1. /\ ring' = AddNode(ring, <<b, 0>>) \/ ring' = RemoveNode(ring, <<b, 0>>)
          /\ update' = [u \in Updaters |->
                          IF u \in Updaters /\ update[u].running
                          THEN [update[u] EXCEPT !.alone = FALSE] ELSE update[u]]
      BY <1>2 DEF AddBackend, RemoveBackend, ChangeRing
    <2>2. PlainRing(ring')
      BY <1>0, <2>1, PlainAdd, PlainRemove
    <2>3. ASSUME NEW v \in Updaters
          PROVE  ~(update'[v].running /\ update'[v].alone)
      <3>1. PICK d \in UpdateRecord : d = update[v]
        BY <1>0
      <3>2. update'[v] = IF d.running THEN [d EXCEPT !.alone = FALSE] ELSE d
        BY <2>1, <3>1
      <3> QED
        BY <3>2 DEF UpdateRecord
    <2> QED
      BY <2>2, <2>3
  <1>3. ASSUME NEW u \in Updaters, NEW list \in BackendLists, UpdateBegin(u, list)
        PROVE  Goal
    <2> DEFINE d == [running |-> TRUE, backends |-> list, toRemove |-> NamesOf(ring),
                     old |-> NamesOf(ring), target |-> Range(list), alone |-> TRUE]
    <2>1. ring' = ring /\ update' = [update EXCEPT ![u] = d]
      BY <1>3 DEF UpdateBegin, NamesOf
    <2>2. Between(d, NamesOf(ring))
      BY KetamaAssumption, BetweenBegin
    <2> HIDE DEF d
    <2>3. \A v \in Updaters : v # u => update'[v] = update[v]
      BY <1>0, <2>1
    <2>4. update'[u] = d
      BY <1>0, <2>1
    <2> QED
      BY <1>0, <2>1, <2>2, <2>3, <2>4
  <1>4. ASSUME NEW u \in Updaters, UpdateNext(u)
        PROVE  Goal
    <2>1. PICK d \in UpdateRecord : d = update[u]
      BY <1>0
    <2>2. d.backends # <<>> /\ d.backends \in Seq(RingBackends)
      BY <1>4, <2>1 DEF UpdateNext, UpdateRecord
    <2>3. Head(d.backends) \in RingBackends
      BY <2>2, TailOf
    <2>4. CASE /\ Head(d.backends) \in d.toRemove
               /\ UpdateStep(u, ring, Tail(d.backends), d.toRemove \ {Head(d.backends)})
      <3>1. d.alone /\ d.running =>
               Between([d EXCEPT !.backends = Tail(d.backends),
                                 !.toRemove = d.toRemove \ {Head(d.backends)}], NamesOf(ring))
        BY <1>0, <2>1, <2>2, <2>4, BetweenSkip
      <3> QED
        BY <1>0, <2>1, <2>4, <3>1, ServesUpdate
    <2>5. CASE /\ Head(d.backends) \notin d.toRemove
               /\ UpdateStep(u, AddNode(ring, <<Head(d.backends), 0>>), Tail(d.backends),
                             d.toRemove)
      <3>1. /\ PlainRing(AddNode(ring, <<Head(d.backends), 0>>))
            /\ NamesOf(AddNode(ring, <<Head(d.backends), 0>>)) =
                  NamesOf(ring) \cup {Head(d.backends)}
        BY <1>0, <2>3, PlainAdd
      <3>2. d.alone /\ d.running =>
               Between([d EXCEPT !.backends = Tail(d.backends), !.toRemove = d.toRemove],
                       NamesOf(ring) \cup {Head(d.backends)})
        BY <1>0, <2>1, <2>2, <2>5, BetweenAdd
      <3> QED
        BY <1>0, <2>1, <2>5, <3>1, <3>2, ServesUpdate
    <2> QED
      BY <1>4, <2>1, <2>4, <2>5 DEF UpdateNext
  <1>5. ASSUME NEW u \in Updaters, NEW b \in RingBackends, UpdateRemove(u, b)
        PROVE  Goal
    <2>1. PICK d \in UpdateRecord : d = update[u]
      BY <1>0
    <2>2. /\ d.backends = <<>> /\ b \in d.toRemove
          /\ UpdateStep(u, RemoveNode(ring, <<b, 0>>), <<>>, d.toRemove \ {b})
      BY <1>5, <2>1 DEF UpdateRemove
    <2>3. /\ PlainRing(RemoveNode(ring, <<b, 0>>))
          /\ NamesOf(RemoveNode(ring, <<b, 0>>)) = NamesOf(ring) \ {b}
      BY <1>0, PlainRemove
    <2>4. d.alone /\ d.running =>
             Between([d EXCEPT !.backends = <<>>, !.toRemove = d.toRemove \ {b}],
                     NamesOf(ring) \ {b})
      BY <1>0, <2>1, <2>2, BetweenRemove
    <2> QED
      BY <1>0, <2>1, <2>2, <2>3, <2>4, ServesUpdate
  <1>6. ASSUME NEW u \in Updaters, UpdateReturn(u)
        PROVE  Goal
    <2>1. ring' = ring /\ update' = [update EXCEPT ![u] = NoUpdate]
      BY <1>6 DEF UpdateReturn
    <2> QED
      BY <1>0, <1>n, <2>1
  <1>7. ASSUME WeightedAddNode \/ WeightedRemoveNode
        PROVE  FALSE
    <2>1. wop.op \in {"add", "remove"}
      BY <1>7 DEF WeightedAddNode, WeightedRemoveNode
    <2>2. NoOp.op = "none"
      BY DEF NoOp
    <2>3. wop # NoOp
      BY <2>1, <2>2
    <2> QED
      BY <1>0, <2>3 DEF BalancerTypeOK
  <1>8. CASE Operate
    BY <1>2, <1>3, <1>4, <1>5, <1>6, <1>7, <1>8 DEF Operate, WeightedAdd, WeightedRemove
  <1> QED
    BY <1>1, <1>8 DEF KetamaNext

\* A change of the backends serves throughout: without collisions and unless
\* another change overlaps it, UpdateBackends never takes a backend out that
\* stays, nor empties the ring, and it ends with exactly the new list.
THEOREM UpdateServesCorrect == KetamaSpec => []UpdateServes
  <1>1. KetamaInit => ServesInv
    <2> SUFFICES ASSUME KetamaInit PROVE ServesInv
      OBVIOUS
    <2>1. getUniqueNodes(ring) = {}
      BY DEF KetamaInit, EmptyRing, getUniqueNodes, Range
    <2>2. \A u \in Updaters : ~update[u].running
      BY DEF KetamaInit, NoUpdate
    <2> QED
      BY <2>1, <2>2 DEF ServesInv, PlainRing
  <1>2. KetamaInv /\ ServesInv /\ [KetamaNext]_ketamaVars => ServesInv'
    <2> SUFFICES ASSUME KetamaInv, ServesInv, [KetamaNext]_ketamaVars
                 PROVE  ServesInv'
      OBVIOUS
    <2>1. CASE KetamaNext
      <3>1. hash' = hash /\ balancer' = balancer
        BY <2>1 DEF KetamaNext
      <3>2. NoCollisions' <=> NoCollisions
        BY <3>1 DEF NoCollisions, Points
      <3>3. CASE NoCollisions /\ balancer = "plain"
        <4>1. /\ PlainRing(ring')
              /\ \A v \in Updaters : update'[v].running /\ update'[v].alone =>
                    Between(update'[v], NamesOf(ring'))
          BY <2>1, <3>3, ServesStep
        <4> QED
          BY <4>1 DEF ServesInv, RingNames, NamesOf, PlainRing, Between, getUniqueNodes
      <3> QED
        BY <3>1, <3>2, <3>3 DEF ServesInv
    <2>2. CASE UNCHANGED ketamaVars
      BY <2>2 DEF ServesInv, RingNames, PlainRing, Between, getUniqueNodes, ketamaVars,
                  NoCollisions, Points
    <2> QED
      BY <2>1, <2>2
  <1>3. KetamaInv /\ ServesInv => UpdateServes
    <2> SUFFICES ASSUME KetamaInv, ServesInv, NoCollisions, NEW u \in Updaters,
                        update[u].running, update[u].alone
                 PROVE  /\ update[u].old \cap update[u].target \subseteq RingNames
                        /\ RingNames \subseteq update[u].old \cup update[u].target
                        /\ update[u].old # {} /\ update[u].target # {} => RingNames # {}
                        /\ Updated(u) => RingNames = update[u].target
      BY DEF UpdateServes
    <2>1. PICK d \in UpdateRecord : d = update[u]
      BY DEF KetamaInv, BalancerTypeOK
    <2>2. balancer = "plain"
      BY DEF KetamaInv, BalancerTypeOK
    <2>3. Between(d, RingNames)
      BY <2>1, <2>2 DEF ServesInv
    <2> QED
      BY <2>1, <2>3, BetweenServes DEF Updated
  <1> QED
    BY <1>1, <1>2, <1>3, KetamaInvariance, PTL DEF KetamaSpec

-----------------------------------------------------------------------------
(***************************************************************************)
(* The weighted balancer.  In the middle of AddBackend a backend has its   *)
(* first nodes and no more than its weight, in the middle of RemoveBackend *)
(* its last ones.                                                          *)
(***************************************************************************)

\* Backend b has number i among its nodes U, as the operation o and the weights say.
NumbersOK(U, w, o, b, i) ==
    /\ o = NoOp \/ o.backend # b =>
          (<<b, i>> \in U <=> b \in DOMAIN w /\ i < w[b])
    /\ o # NoOp /\ o.backend = b /\ o.op = "add" =>
          /\ <<b, i>> \in U => i < o.weight
          /\ i < o.next => <<b, i>> \in U
    /\ o # NoOp /\ o.backend = b /\ o.op = "remove" =>
          (<<b, i>> \in U <=> o.next <= i /\ i < o.weight)

\* The invariant of WeightedExact.
WeightedInv ==
    NoCollisions /\ balancer = "weighted" =>
        /\ \A n \in getUniqueNodes(ring) : n[1] \in DOMAIN weights \cup shrunk
        /\ \A b \in WeightedNames \ shrunk, i \in Nat :
              NumbersOK(getUniqueNodes(ring), weights, wop, b, i)

\* A node is its backend and its number.
LEMMA NodeParts ==
  ASSUME NEW n \in Nodes
  PROVE  n = <<n[1], n[2]>> /\ n[1] \in RingBackends /\ n[2] \in Nat
  <1>1. \A w \in Weights : 0 .. weightOf(w) - 1 \subseteq Nat
    BY KetamaAssumption DEF weightOf
  <1>2. {0} \cup UNION {0 .. weightOf(w) - 1 : w \in Weights} \subseteq Nat
    BY <1>1
  <1> QED
    BY <1>2 DEF Nodes

\* Every step of the weighted balancer keeps it.
LEMMA WeightedStep ==
  ASSUME KetamaInv, WeightedInv, KetamaNext, NoCollisions, balancer = "weighted"
  PROVE  /\ \A n \in getUniqueNodes(ring') : n[1] \in DOMAIN weights' \cup shrunk'
         /\ \A b \in WeightedNames \ shrunk', i \in Nat :
               NumbersOK(getUniqueNodes(ring'), weights', wop', b, i)
  <1> DEFINE U == getUniqueNodes(ring)
             V == getUniqueNodes(ring')
             Goal == /\ \A n \in V : n[1] \in DOMAIN weights' \cup shrunk'
                     /\ \A b \in WeightedNames \ shrunk', i \in Nat :
                           NumbersOK(V, weights', wop', b, i)
  <1>0. /\ hash \in HashFunctions /\ OwnKeys(ring) /\ Whole(ring) /\ BalancerTypeOK
        /\ \A n \in U : n[1] \in DOMAIN weights \cup shrunk
        /\ \A b \in WeightedNames \ shrunk, i \in Nat : NumbersOK(U, weights, wop, b, i)
        /\ weights \in [DOMAIN weights -> StoredWeights] /\ DOMAIN weights \subseteq WeightedNames
        /\ U \subseteq Nodes /\ building = <<>>
    BY NamesType DEF KetamaInv, RingInv, BalancerTypeOK, WeightedInv
  <1>w. \A b \in DOMAIN weights : weights[b] \in Nat
    BY <1>0, WeightType
  <1>1. ASSUME NEW b \in WeightedNames, NEW weight \in Weights, WeightedAdd(b, weight)
        PROVE  Goal
    <2>1. PICK w \in StoredWeights : w = weightOf(weight)
      BY DEF StoredWeights
    <2>2. /\ ring' = ring /\ wop = NoOp
          /\ weights' = [c \in DOMAIN weights \cup {b} |-> IF c = b THEN w ELSE weights[c]]
          /\ wop' = [op |-> "add", backend |-> b, next |-> 0, weight |-> w]
          /\ shrunk' = IF b \in DOMAIN weights /\ w < weights[b] THEN shrunk \cup {b} ELSE shrunk
      BY <1>1, <2>1 DEF WeightedAdd
    <2>3. w \in Nat /\ V = U /\ shrunk \subseteq shrunk' /\ wop' # NoOp
          /\ wop'.backend = b /\ wop'.op = "add" /\ wop'.weight = w /\ wop'.next = 0
      <3>1. wop'.op = "add" /\ NoOp.op = "none"
        BY <2>2 DEF NoOp
      <3>2. wop' # NoOp
        BY <3>1
      <3> QED
        BY <2>2, <3>2, WeightType
    <2>4. \A n \in V : n[1] \in DOMAIN weights' \cup shrunk'
      BY <1>0, <2>2, <2>3
    <2>5. ASSUME NEW c \in WeightedNames \ shrunk', NEW i \in Nat
          PROVE  NumbersOK(V, weights', wop', c, i)
      <3>1. <<c, i>> \in U <=> c \in DOMAIN weights /\ i < weights[c]
        <4>1. NumbersOK(U, weights, wop, c, i)
          BY <1>0, <2>3
        <4> QED
          BY <2>2, <4>1 DEF NumbersOK
      <3>2. CASE c # b
        <4>1. (c \in DOMAIN weights' <=> c \in DOMAIN weights)
              /\ (c \in DOMAIN weights => weights'[c] = weights[c])
          BY <2>2, <3>2
        <4> QED
          BY <2>3, <3>1, <3>2, <4>1 DEF NumbersOK
      <3>3. CASE c = b
        <4>1. b \in DOMAIN weights => ~(w < weights[b])
          BY <2>2, <3>3
        <4>2. <<c, i>> \in V => i < w
          BY <1>w, <2>3, <3>1, <3>3, <4>1
        <4>3. ~(i < 0)
          OBVIOUS
        <4> QED
          BY <2>3, <3>3, <4>2, <4>3 DEF NumbersOK
      <3> QED
        BY <3>2, <3>3
    <2> QED
      BY <2>4, <2>5
  <1>2. ASSUME NEW b \in WeightedNames, WeightedRemove(b)
        PROVE  Goal
    <2>1. /\ ring' = ring /\ wop = NoOp /\ weights' = weights /\ shrunk' = shrunk
          /\ b \in DOMAIN weights
          /\ wop' = [op |-> "remove", backend |-> b, next |-> 0, weight |-> weights[b]]
      BY <1>2 DEF WeightedRemove
    <2>2. wop' # NoOp /\ wop'.backend = b /\ wop'.op = "remove" /\ wop'.next = 0
          /\ wop'.weight = weights[b] /\ V = U
      <3>1. wop'.op = "remove" /\ NoOp.op = "none"
        BY <2>1 DEF NoOp
      <3>2. wop' # NoOp
        BY <3>1
      <3> QED
        BY <2>1, <3>2
    <2>3. ASSUME NEW c \in WeightedNames \ shrunk', NEW i \in Nat
          PROVE  NumbersOK(V, weights', wop', c, i)
      <3>1. NumbersOK(U, weights, wop, c, i) /\ 0 <= i
        BY <1>0, <2>1
      <3> QED
        BY <2>1, <2>2, <3>1 DEF NumbersOK
    <2> QED
      BY <1>0, <2>1, <2>2, <2>3
  <1>3. ASSUME WeightedAddNode \/ WeightedRemoveNode
        PROVE  Goal
    <2>1. wop # NoOp /\ wop.op \in {"add", "remove"}
      <3>1. wop.op \in {"add", "remove"}
        BY <1>3 DEF WeightedAddNode, WeightedRemoveNode
      <3>2. NoOp.op = "none"
        BY DEF NoOp
      <3> QED
        BY <3>1, <3>2
    <2>2. /\ wop \in [op : {"add", "remove"}, backend : DOMAIN weights,
                      next : Nat, weight : StoredWeights]
          /\ wop.weight = weights[wop.backend] /\ wop.next < wop.weight
      BY <1>0, <2>1 DEF BalancerTypeOK
    <2>3. PICK b \in DOMAIN weights, j \in Nat, w \in StoredWeights :
             /\ b = wop.backend /\ j = wop.next /\ w = wop.weight
             /\ j < w /\ weights[b] = w
      BY <2>2
    <2>4. w \in Nat /\ b \in WeightedNames /\ b \in RingBackends /\ <<b, j>> \in Nodes
      BY <1>0, <2>3, KetamaAssumption, WeightType
    <2>5. /\ wop' = NextNode /\ shrunk' = shrunk
          /\ \/ /\ wop.op = "add" /\ ring' = AddNode(ring, <<b, j>>) /\ weights' = weights
             \/ /\ wop.op = "remove" /\ ring' = RemoveNode(ring, <<b, j>>)
                /\ weights' = IF wop' = NoOp THEN Restrict(weights, DOMAIN weights \ {b})
                              ELSE weights
      BY <1>3, <2>3 DEF WeightedAddNode, WeightedRemoveNode
    <2>6. \/ j + 1 = w /\ wop' = NoOp
          \/ /\ j + 1 < w /\ wop' # NoOp /\ wop'.backend = b /\ wop'.op = wop.op
             /\ wop'.weight = w /\ wop'.next = j + 1
      <3>1. CASE j + 1 = w
        BY <2>3, <2>5, <3>1 DEF NextNode
      <3>2. CASE j + 1 # w
        <4>1. wop' = [wop EXCEPT !.next = wop.next + 1]
          BY <2>3, <2>5, <3>2 DEF NextNode
        <4>2. /\ wop'.backend = b /\ wop'.op = wop.op /\ wop'.weight = w /\ wop'.next = j + 1
          BY <2>2, <2>3, <4>1
        <4>3. wop' # NoOp
          <5>1. NoOp.op = "none"
            BY DEF NoOp
          <5> QED
            BY <2>1, <4>2, <5>1
        <4>4. j + 1 < w
          BY <2>3, <2>4, <3>2
        <4> QED
          BY <4>2, <4>3, <4>4
      <3> QED
        BY <3>1, <3>2
    <2>7. ASSUME NEW i \in Nat, b \notin shrunk
          PROVE  /\ wop.op = "add" => (<<b, i>> \in U => i < w) /\ (i < j => <<b, i>> \in U)
                 /\ wop.op = "remove" => (<<b, i>> \in U <=> j <= i /\ i < w)
      <3>1. NumbersOK(U, weights, wop, b, i)
        BY <1>0, <2>4, <2>7
      <3> QED
        BY <2>1, <2>3, <3>1 DEF NumbersOK
    <2>8. ASSUME NEW c \in WeightedNames \ shrunk, c # b, NEW i \in Nat
          PROVE  <<c, i>> \in U <=> c \in DOMAIN weights /\ i < weights[c]
      <3>1. NumbersOK(U, weights, wop, c, i)
        BY <1>0
      <3> QED
        BY <2>3, <2>8, <3>1 DEF NumbersOK
    <2>9. CASE wop.op = "add"
      <3>1. V = U \cup {<<b, j>>} /\ weights' = weights
        BY <1>0, <2>4, <2>5, <2>9, AddNodeWhole
      <3>2. \A n \in V : n[1] \in DOMAIN weights' \cup shrunk'
        BY <1>0, <2>5, <3>1
      <3>3. ASSUME NEW i \in Nat, b \notin shrunk
            PROVE  NumbersOK(V, weights', wop', b, i)
        <4>1. CASE j + 1 = w /\ wop' = NoOp
          <5>1. <<b, i>> \in V <=> i < w
            BY <2>7, <2>9, <3>1, <3>3, <4>1
          <5> QED
            BY <2>3, <3>1, <4>1, <5>1 DEF NumbersOK
        <4>2. CASE j + 1 < w /\ wop' # NoOp
          <5>1. <<b, i>> \in V => i < w
            BY <2>3, <2>7, <2>9, <3>1, <3>3
          <5>2. i < j + 1 => <<b, i>> \in V
            BY <2>7, <2>9, <3>1, <3>3
          <5> QED
            BY <2>6, <2>9, <4>2, <5>1, <5>2 DEF NumbersOK
        <4> QED
          BY <2>6, <4>1, <4>2
      <3>4. ASSUME NEW c \in WeightedNames \ shrunk, c # b, NEW i \in Nat
            PROVE  NumbersOK(V, weights', wop', c, i)
        <4>1. <<c, i>> \in V <=> <<c, i>> \in U
          BY <3>1, <3>4
        <4>2. wop' = NoOp \/ wop'.backend # c
          BY <2>6, <3>4
        <4> QED
          BY <2>8, <3>1, <3>4, <4>1, <4>2 DEF NumbersOK
      <3> QED
        BY <2>5, <3>2, <3>3, <3>4
    <2>10. CASE wop.op = "remove"
      <3>1. V = U \ {<<b, j>>}
        BY <1>0, <2>4, <2>5, <2>10, RemoveNodeWhole
      <3>2. /\ wop' = NoOp => DOMAIN weights' = DOMAIN weights \ {b}
            /\ wop' # NoOp => weights' = weights
            /\ \A c \in DOMAIN weights \ {b} : c \in DOMAIN weights' /\ weights'[c] = weights[c]
        BY <2>5, <2>10 DEF Restrict
      <3>3. ASSUME NEW i \in Nat, b \notin shrunk, wop' = NoOp
            PROVE  <<b, i>> \notin V
        <4>1. j + 1 = w
          BY <2>6, <3>3
        <4>2. <<b, i>> \in V => i # j /\ j <= i /\ i < w
          BY <2>7, <2>10, <3>1, <3>3
        <4> QED
          BY <4>1, <4>2
      <3>4. ASSUME NEW n \in V
            PROVE  n[1] \in DOMAIN weights' \cup shrunk'
        <4>1. n \in U /\ n = <<n[1], n[2]>> /\ n[2] \in Nat
          BY <1>0, <3>1, NodeParts
        <4>2. CASE n[1] = b
          BY <2>3, <2>5, <3>2, <3>3, <4>1, <4>2
        <4>3. CASE n[1] # b
          BY <1>0, <2>5, <3>2, <4>1, <4>3
        <4> QED
          BY <4>2, <4>3
      <3>5. ASSUME NEW i \in Nat, b \notin shrunk
            PROVE  NumbersOK(V, weights', wop', b, i)
        <4>1. CASE wop' = NoOp
          BY <3>2, <3>3, <3>5, <4>1 DEF NumbersOK
        <4>2. CASE j + 1 < w /\ wop' # NoOp
          <5>1. <<b, i>> \in V <=> j + 1 <= i /\ i < w
            BY <2>7, <2>10, <3>1, <3>5
          <5> QED
            BY <2>6, <2>10, <4>2, <5>1 DEF NumbersOK
        <4> QED
          BY <2>6, <4>1, <4>2
      <3>6. ASSUME NEW c \in WeightedNames \ shrunk, c # b, NEW i \in Nat
            PROVE  NumbersOK(V, weights', wop', c, i)
        <4>1. <<c, i>> \in V <=> <<c, i>> \in U
          BY <3>1, <3>6
        <4>2. wop' = NoOp \/ wop'.backend # c
          BY <2>6, <3>6
        <4>3. c \in DOMAIN weights' <=> c \in DOMAIN weights
          BY <3>2, <3>6
        <4> QED
          BY <2>8, <3>2, <3>6, <4>1, <4>2, <4>3 DEF NumbersOK
      <3> QED
        BY <2>5, <3>4, <3>5, <3>6
    <2> QED
      BY <2>1, <2>9, <2>10
  <1>4. ASSUME NEW u \in Updaters, UpdateNext(u) \/ UpdateReturn(u)
                                     \/ \E b \in RingBackends : UpdateRemove(u, b)
        PROVE  FALSE
    <2>1. update[u] = NoUpdate
      BY <1>0 DEF BalancerTypeOK
    <2>2. ~update[u].running /\ update[u].backends = <<>> /\ update[u].toRemove = {}
      BY <2>1 DEF NoUpdate
    <2> QED
      BY <1>4, <2>2 DEF UpdateNext, UpdateReturn, Updated, UpdateRemove
  <1>5. Operate
    BY <1>0 DEF KetamaNext, Construct
  <1> HIDE DEF Goal
  <1>6. Goal
    BY <1>1, <1>2, <1>3, <1>4, <1>5 DEF Operate, AddBackend, RemoveBackend, UpdateBegin
  <1> QED
    BY <1>6 DEF Goal

\* The weighted balancer's ring, without collisions: selections find only
\* backends with a weight, in the middle of an operation too, and between the
\* operations every backend has exactly the nodes of its weight, except for one
\* that was added again with a smaller weight.
THEOREM WeightedExactCorrect == KetamaSpec => []WeightedExact
  <1>1. KetamaInit => WeightedInv
    <2> SUFFICES ASSUME KetamaInit PROVE WeightedInv
      OBVIOUS
    <2>1. getUniqueNodes(ring) = {} /\ wop = NoOp /\ DOMAIN weights = {}
      BY DEF KetamaInit, EmptyRing, getUniqueNodes, Range
    <2> QED
      BY <2>1 DEF WeightedInv, NumbersOK
  <1>2. KetamaInv /\ WeightedInv /\ [KetamaNext]_ketamaVars => WeightedInv'
    <2> SUFFICES ASSUME KetamaInv, WeightedInv, [KetamaNext]_ketamaVars
                 PROVE  WeightedInv'
      OBVIOUS
    <2>1. CASE KetamaNext
      <3>1. hash' = hash /\ balancer' = balancer
        BY <2>1 DEF KetamaNext
      <3>2. NoCollisions' <=> NoCollisions
        BY <3>1 DEF NoCollisions, Points
      <3>3. CASE NoCollisions /\ balancer = "weighted"
        <4>1. /\ \A n \in getUniqueNodes(ring') : n[1] \in DOMAIN weights' \cup shrunk'
              /\ \A b \in WeightedNames \ shrunk', i \in Nat :
                    NumbersOK(getUniqueNodes(ring'), weights', wop', b, i)
          BY <2>1, <3>3, WeightedStep
        <4> QED
          BY <4>1 DEF WeightedInv, NumbersOK, getUniqueNodes
      <3> QED
        BY <3>1, <3>2, <3>3 DEF WeightedInv
    <2>2. CASE UNCHANGED ketamaVars
      BY <2>2 DEF WeightedInv, NumbersOK, getUniqueNodes, ketamaVars, NoCollisions, Points
    <2> QED
      BY <2>1, <2>2
  <1>3. KetamaInv /\ WeightedInv => WeightedExact
    <2> SUFFICES ASSUME KetamaInv, WeightedInv, NoCollisions, balancer = "weighted"
                 PROVE  WeightedExact
      BY DEF WeightedExact
    <2>1. RingOK(ring) /\ getUniqueNodes(ring) \subseteq Nodes
      BY NamesType DEF KetamaInv, RingInv
    <2>2. ASSUME NEW h \in HashValues, DOMAIN ring.nodes # {}
          PROVE  SelectBackendOf(ring, h) \in DOMAIN weights \cup shrunk
      BY <2>1, <2>2, GetNodeOf DEF WeightedInv, SelectBackendOf
    <2>3. ASSUME wop = NoOp, NEW b \in WeightedNames \ shrunk
          PROVE  {n \in getUniqueNodes(ring) : n[1] = b} =
                    IF b \in DOMAIN weights THEN {b} \X (0 .. weights[b] - 1) ELSE {}
      <3> DEFINE U == getUniqueNodes(ring)
      <3>1. \A i \in Nat : <<b, i>> \in U <=> b \in DOMAIN weights /\ i < weights[b]
        BY <2>3 DEF WeightedInv, NumbersOK
      <3>2. \A n \in U : n = <<n[1], n[2]>> /\ n[2] \in Nat
        BY <2>1, NodeParts
      <3> HIDE DEF U
      <3>3. CASE b \in DOMAIN weights
        <4>1. weights[b] \in Nat
          BY <3>3, WeightType DEF KetamaInv, BalancerTypeOK
        <4>2. \A i \in Nat : i \in 0 .. weights[b] - 1 <=> i < weights[b]
          BY <4>1
        <4>3. \A n : n \in {m \in U : m[1] = b} => n \in {b} \X (0 .. weights[b] - 1)
          BY <3>1, <3>2, <3>3, <4>2
        <4>4. \A i \in 0 .. weights[b] - 1 : <<b, i>> \in {m \in U : m[1] = b}
          BY <3>1, <3>3, <4>1, <4>2
        <4>5. \A n \in {b} \X (0 .. weights[b] - 1) : n \in {m \in U : m[1] = b}
          BY <4>4
        <4> QED
          BY <3>3, <4>3, <4>5 DEF U
      <3>4. CASE b \notin DOMAIN weights
        <4>1. {m \in U : m[1] = b} = {}
          BY <3>1, <3>2, <3>4
        <4> QED
          BY <3>4, <4>1 DEF U
      <3> QED
        BY <3>3, <3>4
    <2> QED
      BY <2>2, <2>3 DEF WeightedExact
  <1> QED
    BY <1>1, <1>2, <1>3, KetamaInvariance, PTL DEF KetamaSpec

-----------------------------------------------------------------------------
(***************************************************************************)
(* The order of GetNodes.  The walk round the ring meets the keys by       *)
(* distance; each node is taken where the walk meets it first, at its      *)
(* nearest key.                                                            *)
(***************************************************************************)

\* A list that names every member of a set once has its size.
LEMMA CountedBy ==
  ASSUME NEW n \in Nat, NEW T, NEW f \in [1 .. n -> T],
         \A i, j \in 1 .. n : f[i] = f[j] => i = j,
         \A t \in T : \E i \in 1 .. n : f[i] = t
  PROVE  IsFiniteSet(T) /\ Cardinality(T) = n
  <1>1. f \in Bijection(1 .. n, T)
    BY Fun_IsBij
  <1>2. ExistsBijection(1 .. n, T)
    BY <1>1 DEF ExistsBijection
  <1> QED
    BY <1>2, FS_CountingElements, FS_NatBijection

\* p lists S, which has N members, with their ranks ascending.
Ranked(p, N, S, rank) ==
    /\ rank \in [S -> Int] /\ p \in [1 .. N -> S]
    /\ \A t \in S : \E i \in 1 .. N : p[i] = t
    /\ \A i, j \in 1 .. N : i < j => rank[p[i]] < rank[p[j]]

\* A list of all members by ascending rank is what SortedBy returns.
LEMMA SortedByIs ==
  ASSUME NEW N \in Nat, NEW S, NEW rank, NEW p, Ranked(p, N, S, rank)
  PROVE  SortedBy(S, rank) = p /\ Cardinality(S) = N
  <1> USE DEF Ranked
  <1> DEFINE B(s) == {t \in S : rank[t] < rank[s]}
  <1>0. \A i \in 1 .. N : p[i] \in S /\ rank[p[i]] \in Int
    OBVIOUS
  <1>1. \A i, j \in 1 .. N : rank[p[i]] < rank[p[j]] <=> i < j
    <2> SUFFICES ASSUME NEW i \in 1 .. N, NEW j \in 1 .. N
                 PROVE  rank[p[i]] < rank[p[j]] <=> i < j
      OBVIOUS
    <2>1. i < j \/ i = j \/ j < i
      OBVIOUS
    <2>2. CASE i < j
      BY <2>2
    <2>3. CASE i = j
      BY <1>0, <2>3
    <2>4. CASE j < i
      <3>1. rank[p[j]] < rank[p[i]] /\ ~(i < j)
        BY <2>4
      <3> QED
        BY <1>0, <3>1
    <2> QED
      BY <2>1, <2>2, <2>3, <2>4
  <1>2. \A i, j \in 1 .. N : p[i] = p[j] => i = j
    <2> SUFFICES ASSUME NEW i \in 1 .. N, NEW j \in 1 .. N, p[i] = p[j]
                 PROVE  i = j
      OBVIOUS
    <2>1. ~(rank[p[i]] < rank[p[j]]) /\ ~(rank[p[j]] < rank[p[i]])
      BY <1>0
    <2>2. ~(i < j) /\ ~(j < i)
      BY <1>1, <2>1
    <2> QED
      BY <2>2
  <1>3. Cardinality(S) = N
    BY <1>2, CountedBy
  <1>4. ASSUME NEW m \in 1 .. N
        PROVE  Cardinality(B(p[m])) = m - 1
    <2> DEFINE f == [i \in 1 .. m - 1 |-> p[i]]
    <2>1. m - 1 \in Nat /\ \A i \in 1 .. m - 1 : i \in 1 .. N /\ i < m
      OBVIOUS
    <2>2. f \in [1 .. m - 1 -> B(p[m])]
      BY <1>0, <1>1, <2>1
    <2>3. \A i, j \in 1 .. m - 1 : f[i] = f[j] => i = j
      BY <1>2, <2>1
    <2>4. \A t \in B(p[m]) : \E i \in 1 .. m - 1 : f[i] = t
      <3> SUFFICES ASSUME NEW t \in B(p[m])
                   PROVE  \E i \in 1 .. m - 1 : f[i] = t
        OBVIOUS
      <3>1. PICK i \in 1 .. N : p[i] = t
        OBVIOUS
      <3>2. i < m
        BY <1>1, <3>1
      <3>3. i \in 1 .. m - 1
        BY <3>2
      <3> QED
        BY <3>1, <3>3
    <2>5. PICK k \in Nat : k = m - 1
      BY <2>1
    <2> HIDE DEF f, B
    <2> QED
      BY <2>2, <2>3, <2>4, <2>5, CountedBy
  <1>5. ASSUME NEW m \in 1 .. N, NEW s \in S, Cardinality(B(s)) = m - 1
        PROVE  s = p[m]
    <2>1. PICK i \in 1 .. N : p[i] = s
      OBVIOUS
    <2>2. i - 1 = m - 1
      <3> HIDE DEF B
      <3> QED
        BY <1>4, <1>5, <2>1
    <2>3. i = m
      BY <2>2
    <2> QED
      BY <2>1, <2>3
  <1> HIDE DEF B
  <1>6. ASSUME NEW m \in 1 .. N
        PROVE  (CHOOSE s \in S : Cardinality(B(s)) = m - 1) = p[m]
    BY <1>0, <1>4, <1>5
  <1>7. SortedBy(S, rank) = [m \in 1 .. N |-> CHOOSE s \in S : Cardinality(B(s)) = m - 1]
    BY <1>3 DEF SortedBy, B
  <1>8. [m \in 1 .. N |-> CHOOSE s \in S : Cardinality(B(s)) = m - 1]
          = [m \in 1 .. N |-> p[m]]
    BY <1>6
  <1>9. [m \in 1 .. N |-> p[m]] = p
    OBVIOUS
  <1> QED
    BY <1>3, <1>7, <1>8, <1>9

\* The least of a set of numbers.
LEMMA MinIs ==
  ASSUME NEW S \in SUBSET Int, NEW x \in S, \A y \in S : x <= y
  PROVE  Min(S) = x
  <1>1. Min(S) \in S /\ \A y \in S : Min(S) <= y
    BY DEF Min
  <1>2. Min(S) <= x /\ x <= Min(S) /\ Min(S) \in Int /\ x \in Int
    BY <1>1
  <1> QED
    BY <1>2

\* The smaller of two numbers.
LEMMA MinOfTwo ==
  ASSUME NEW a \in Nat, NEW b \in Nat
  PROVE  Min({a, b}) = IF a <= b THEN a ELSE b
  <1>1. CASE a <= b
    BY <1>1, MinIs
  <1>2. CASE ~(a <= b)
    <2>1. b <= a /\ b <= b
      BY <1>2
    <2> QED
      BY <1>2, <2>1, MinIs
  <1> QED
    BY <1>1, <1>2

\* The distance clockwise.
LEMMA DistanceIs ==
  ASSUME NEW h \in HashValues, NEW k \in HashValues
  PROVE  /\ Distance(h, k) = IF k >= h THEN k - h ELSE k - h + HashMod
         /\ Distance(h, k) \in Int
  <1>1. HashMod \in Nat /\ HashMod >= 1 /\ h \in 0 .. HashMod - 1 /\ k \in 0 .. HashMod - 1
    BY KetamaAssumption DEF HashValues
  <1>2. CASE k >= h
    <2>1. k - h \in 0 .. HashMod - 1
      BY <1>1, <1>2
    <2>2. (k - h) % HashMod = k - h
      BY <1>1, <2>1
    <2> QED
      BY <1>1, <1>2, <2>2 DEF Distance
  <1>3. CASE ~(k >= h)
    <2>1. k - h + HashMod \in 0 .. HashMod - 1 /\ k - h \in Int
      BY <1>1, <1>3
    <2>2. (k - h) % HashMod = k - h + HashMod
      BY <1>1, <2>1
    <2> QED
      BY <1>1, <1>3, <2>2 DEF Distance
  <1> QED
    BY <1>2, <1>3

\* The keys in the order of the walk that starts at h: all of them, by distance.
LEMMA WalkKeys ==
  ASSUME NEW r, RingOK(r), NEW h \in HashValues, DOMAIN r.nodes # {}
  PROVE  \E l \in Nat : \E K \in [1 .. l -> HashValues] :
            /\ l >= 1 /\ DOMAIN r.sortedKeys = 1 .. l
            /\ \A j \in 1 .. l : K[j] \in DOMAIN r.nodes
            /\ \A j \in 1 .. l : NodeAt(r, search(r, h) + j - 1) = r.nodes[K[j]]
            /\ \A k \in DOMAIN r.nodes : \E j \in 1 .. l : K[j] = k
            /\ \A i, j \in 1 .. l : i < j => Distance(h, K[i]) <= Distance(h, K[j])
            /\ GetNode(r, h) = r.nodes[K[1]]
  <1>1. PICK l \in Nat : /\ r.sortedKeys \in [1 .. l -> HashValues]
                         /\ DOMAIN r.sortedKeys = 1 .. l /\ l # 0
    BY RingLength
  <1>2. PICK s \in 1 .. l + 1 :
           /\ s = search(r, h)
           /\ s <= l => r.sortedKeys[s] >= h
           /\ \A i \in 1 .. l : r.sortedKeys[i] >= h => s <= i
    BY <1>1, SearchFinds
  <1> DEFINE place(j) == IF s + j - 1 <= l THEN s + j - 1 ELSE s + j - 1 - l
             K == [j \in 1 .. l |-> r.sortedKeys[place(j)]]
  <1>3. \A j \in 1 .. l : place(j) \in 1 .. l /\ s + j - 1 \in 1 .. 2 * l
    BY <1>1
  <1>4. \A j \in 1 .. l : K[j] = r.sortedKeys[place(j)] /\ K[j] \in HashValues
                          /\ K[j] \in DOMAIN r.nodes
    BY <1>1, <1>3 DEF RingOK
  <1>5. ASSUME NEW j \in 1 .. l
        PROVE  NodeAt(r, s + j - 1) = r.nodes[K[j]]
    <2>1. l >= 1
      BY <1>1
    <2>2. NodeAt(r, s + j - 1) = r.nodes[r.sortedKeys[place(j)]]
      BY <1>1, <1>3, <2>1, NodeAtPlace
    <2> QED
      BY <1>4, <2>2
  <1>6. ASSUME NEW k \in DOMAIN r.nodes
        PROVE  \E j \in 1 .. l : K[j] = k
    <2>1. PICK i \in 1 .. l : r.sortedKeys[i] = k
      BY <1>1 DEF RingOK
    <2>2. \E j \in 1 .. l : place(j) = i
      <3>1. CASE s <= i
        <4>1. PICK j \in 1 .. l : s + j - 1 = i
          <5>1. i - s + 1 \in 1 .. l /\ s + (i - s + 1) - 1 = i
            BY <3>1
          <5> QED
            BY <5>1
        <4>2. i <= l
          OBVIOUS
        <4> QED
          BY <4>1, <4>2
      <3>2. CASE i < s
        <4>1. PICK j \in 1 .. l : s + j - 1 = i + l
          <5>1. i - s + 1 + l \in 1 .. l /\ s + (i - s + 1 + l) - 1 = i + l
            BY <3>2
          <5> QED
            BY <5>1
        <4>2. ~(i + l <= l) /\ i + l - l = i
          OBVIOUS
        <4> QED
          BY <4>1, <4>2
      <3> QED
        BY <3>1, <3>2
    <2> QED
      BY <1>4, <2>1, <2>2
  <1>7. ASSUME NEW i \in 1 .. l, NEW j \in 1 .. l, i < j
        PROVE  Distance(h, K[i]) <= Distance(h, K[j])
    <2>1. PICK a \in 1 .. l, b \in 1 .. l : a = place(i) /\ b = place(j)
      BY <1>3
    <2>2. K[i] = r.sortedKeys[a] /\ K[j] = r.sortedKeys[b]
      BY <1>4, <2>1
    <2> HIDE DEF K
    <2>3. PICK x \in HashValues, y \in HashValues : x = K[i] /\ y = K[j]
      BY <1>4
    <2>4. /\ Distance(h, x) = IF x >= h THEN x - h ELSE x - h + HashMod
          /\ Distance(h, y) = IF y >= h THEN y - h ELSE y - h + HashMod
          /\ x \in 0 .. HashMod - 1 /\ y \in 0 .. HashMod - 1 /\ h \in 0 .. HashMod - 1
          /\ HashMod \in Nat
      BY DistanceIs, KetamaAssumption DEF HashValues
    <2>5. \/ s <= a /\ s <= b /\ a < b
          \/ s <= a /\ b < s
          \/ a < s /\ b < s /\ a < b
      BY <1>7, <2>1
    <2>6. (s <= a => x >= h) /\ (s <= b => y >= h) /\ (a < s => ~(x >= h)) /\ (b < s => ~(y >= h))
      <3>1. ASSUME NEW c \in 1 .. l
            PROVE  (s <= c => r.sortedKeys[c] >= h) /\ (c < s => ~(r.sortedKeys[c] >= h))
        <4>1. c < s => ~(r.sortedKeys[c] >= h)
          <5>1. c < s => ~(s <= c)
            OBVIOUS
          <5> QED
            BY <1>2, <5>1
        <4>2. CASE s <= c
          <5>1. s \in 1 .. l /\ s <= l /\ (s = c \/ s < c)
            BY <4>2
          <5>2. r.sortedKeys[s] >= h
            BY <1>2, <5>1
          <5>3. r.sortedKeys[s] = r.sortedKeys[c] \/ r.sortedKeys[s] <= r.sortedKeys[c]
            BY <1>1, <5>1 DEF RingOK
          <5>4. r.sortedKeys[s] \in Int /\ r.sortedKeys[c] \in Int /\ h \in Int
            BY <1>1, <5>1 DEF HashValues
          <5> QED
            BY <4>1, <5>2, <5>3, <5>4
        <4>3. ~(s <= c) => c < s
          OBVIOUS
        <4> QED
          BY <4>1, <4>2, <4>3
      <3> QED
        BY <2>2, <2>3, <3>1
    <2>7. a < b => x <= y
      BY <1>1, <2>2, <2>3 DEF RingOK
    <2>8. Distance(h, x) <= Distance(h, y)
      <3>1. CASE s <= a /\ s <= b /\ a < b
        <4>1. x >= h /\ y >= h /\ x <= y
          BY <2>6, <2>7, <3>1
        <4> QED
          BY <2>4, <4>1
      <3>2. CASE s <= a /\ b < s
        <4>1. x >= h /\ ~(y >= h)
          BY <2>6, <3>2
        <4> QED
          BY <2>4, <4>1
      <3>3. CASE a < s /\ b < s /\ a < b
        <4>1. ~(x >= h) /\ ~(y >= h) /\ x <= y
          BY <2>6, <2>7, <3>3
        <4> QED
          BY <2>4, <4>1
      <3> QED
        BY <2>5, <3>1, <3>2, <3>3
    <2> QED
      BY <2>3, <2>8
  <1>8. GetNode(r, h) = r.nodes[K[1]]
    <2>1. 1 \in 1 .. l /\ s + 1 - 1 = s
      BY <1>1
    <2>2. NodeAt(r, s) = r.nodes[K[1]]
      BY <1>5, <2>1
    <2> QED
      BY <1>2, <2>2 DEF GetNode
  <1>9. K \in [1 .. l -> HashValues] /\ l >= 1
    BY <1>1, <1>4
  <1> HIDE DEF K
  <1> QED
    BY <1>1, <1>2, <1>4, <1>5, <1>6, <1>7, <1>8, <1>9

\* Every member has a first place.
LEMMA HasFirstPlace ==
  ASSUME NEW l \in Nat, NEW W, DOMAIN W = 1 .. l, NEW j \in 1 .. l
  PROVE  \E i \in Unseen(W) : i <= j /\ W[i] = W[j]
  <1> DEFINE S == {i \in 1 .. j : W[i] = W[j]}
  <1>1. S \in SUBSET Int /\ IsFiniteSet(S) /\ S # {}
    <2>1. IsFiniteSet(1 .. j) /\ S \in SUBSET (1 .. j) /\ j \in S
      BY FS_Interval
    <2> QED
      BY <2>1, FS_Subset
  <1>2. PICK i \in 1 .. j : W[i] = W[j] /\ \A k \in S : i <= k
    <2>1. Min(S) \in S /\ \A k \in S : Min(S) <= k
      <3> HIDE DEF S
      <3> QED
        BY <1>1, Least
    <2> QED
      BY <2>1
  <1>3. ASSUME NEW k \in 1 .. i - 1
        PROVE  W[k] # W[i]
    <2>1. k \in 1 .. j /\ ~(i <= k)
      OBVIOUS
    <2> QED
      BY <1>2, <2>1
  <1>4. i \in 1 .. l /\ i <= j
    OBVIOUS
  <1> QED
    BY <1>2, <1>3, <1>4 DEF Unseen

\* How far a node's nearest key is from h.
Near(r, h) ==
    [n \in getUniqueNodes(r) |->
        Min({Distance(h, k) : k \in {k \in DOMAIN r.nodes : r.nodes[k] = n}})]

\* A function on the first numbers is a list.
LEMMA AsList ==
  ASSUME NEW N \in Nat, N >= 1, NEW S, NEW q \in [1 .. N -> S]
  PROVE  /\ q \in Seq(S) /\ Len(q) = N /\ q # <<>> /\ Head(q) = q[1]
         /\ \A k \in 0 .. N : SubSeq(q, 1, k) = [m \in 1 .. k |-> q[m]]
  <1>1. q \in Seq(S) /\ Len(q) = N
    OBVIOUS
  <1>2. q # <<>>
    BY <1>1
  <1>3. Head(q) = q[1]
    BY <1>1, <1>2
  <1>4. \A k \in 0 .. N : SubSeq(q, 1, k) = [m \in 1 .. k |-> q[m]]
    BY <1>1
  <1> QED
    BY <1>1, <1>2, <1>3, <1>4

\* The N nodes by distance are what the lookups return.
Lookups(r, h, p, N) ==
    /\ N >= 1 /\ p \in [1 .. N -> getUniqueNodes(r)]
    /\ GetNode(r, h) = p[1]
    /\ \A count \in Nat : count > 0 =>
          GetNodes(r, h, count) = [m \in 1 .. Min({count, N}) |-> p[m]]

\* GetNode and GetNodes list the nodes by the distance of their nearest keys.
LEMMA ListedByDistance ==
  ASSUME NEW r, RingOK(r), NEW h \in HashValues, DOMAIN r.nodes # {}
  PROVE  \E N \in Nat : Lookups(r, h, SortedBy(getUniqueNodes(r), Near(r, h)), N)
  <1> DEFINE U == getUniqueNodes(r)
             near == Near(r, h)
  <1>1. PICK l \in Nat : \E K \in [1 .. l -> HashValues] :
            /\ l >= 1 /\ DOMAIN r.sortedKeys = 1 .. l
            /\ \A j \in 1 .. l : K[j] \in DOMAIN r.nodes
            /\ \A j \in 1 .. l : NodeAt(r, search(r, h) + j - 1) = r.nodes[K[j]]
            /\ \A k \in DOMAIN r.nodes : \E j \in 1 .. l : K[j] = k
            /\ \A i, j \in 1 .. l : i < j => Distance(h, K[i]) <= Distance(h, K[j])
            /\ GetNode(r, h) = r.nodes[K[1]]
    BY WalkKeys
  <1>2. PICK K \in [1 .. l -> HashValues] :
            /\ l >= 1 /\ DOMAIN r.sortedKeys = 1 .. l
            /\ \A j \in 1 .. l : K[j] \in DOMAIN r.nodes
            /\ \A j \in 1 .. l : NodeAt(r, search(r, h) + j - 1) = r.nodes[K[j]]
            /\ \A k \in DOMAIN r.nodes : \E j \in 1 .. l : K[j] = k
            /\ \A i, j \in 1 .. l : i < j => Distance(h, K[i]) <= Distance(h, K[j])
            /\ GetNode(r, h) = r.nodes[K[1]]
    BY <1>1
  <1> DEFINE W == Walk(r, h)
             J == Unseen(W)
             N == Cardinality(J)
             o == InOrder(J)
             p == [m \in 1 .. N |-> W[o[m]]]
             dist == [j \in 1 .. l |-> Distance(h, K[j])]
  <1>3. /\ \A j \in 1 .. l : /\ W[j] = r.nodes[K[j]] /\ W[j] \in U
                             /\ dist[j] = Distance(h, K[j]) /\ dist[j] \in Int
        /\ DOMAIN W = 1 .. l
    <2>1. \A j \in 1 .. l : Distance(h, K[j]) \in Int
      BY DistanceIs
    <2>2. DOMAIN W = 1 .. l /\ \A j \in 1 .. l : W[j] = r.nodes[K[j]]
      BY <1>2 DEF Walk
    <2> HIDE DEF W
    <2> QED
      BY <1>2, <2>1, <2>2 DEF getUniqueNodes, Range
  <1> HIDE DEF W
  <1>4. J \subseteq 1 .. l /\ J \in SUBSET Int /\ IsFiniteSet(J)
    <2>1. J \subseteq 1 .. l
      BY <1>3 DEF Unseen
    <2>2. IsFiniteSet(1 .. l) /\ 1 .. l \subseteq Int
      BY FS_Interval
    <2> HIDE DEF J
    <2>3. IsFiniteSet(J)
      BY <2>1, <2>2, FS_Subset
    <2> QED
      BY <2>1, <2>2, <2>3
  <1>5. /\ N \in Nat /\ o \in [1 .. N -> J]
        /\ \A i \in J : \E n \in 1 .. N : o[n] = i
        /\ \A m, n \in 1 .. N : m < n => o[m] < o[n]
    <2> HIDE DEF J
    <2> QED
      BY <1>4, InOrderLists
  <1>6. GetNode(r, h) = W[1] /\ 1 \in J
    <2>1. 1 \in 1 .. l /\ \A i \in 1 .. 1 - 1 : FALSE
      BY <1>2
    <2> QED
      BY <1>2, <1>3, <2>1 DEF Unseen
  <1>7. ASSUME NEW j \in J
        PROVE  near[W[j]] = dist[j]
    <2>1. PICK i \in 1 .. l : i = j /\ \A k \in 1 .. i - 1 : W[k] # W[i]
      BY <1>3 DEF Unseen
    <2> DEFINE S == {Distance(h, k) : k \in {k \in DOMAIN r.nodes : r.nodes[k] = W[i]}}
    <2> HIDE DEF W, dist
    <2>2. near[W[i]] = Min(S)
      BY <1>3 DEF Near
    <2>3. dist[i] \in S
      BY <1>2, <1>3
    <2>4. ASSUME NEW y \in S
          PROVE  dist[i] <= y /\ y \in Int
      <3>1. PICK k \in DOMAIN r.nodes : r.nodes[k] = W[i] /\ y = Distance(h, k)
        OBVIOUS
      <3>2. PICK m \in 1 .. l : K[m] = k
        BY <1>2
      <3>3. W[m] = W[i] /\ y = dist[m]
        BY <1>3, <3>1, <3>2
      <3>4. ~(m < i)
        <4>1. m < i => m \in 1 .. i - 1
          OBVIOUS
        <4> QED
          BY <2>1, <3>3, <4>1
      <3>5. m = i \/ i < m
        BY <3>4
      <3>6. dist[i] <= dist[m]
        <4>1. dist[i] <= dist[i]
          BY <1>3
        <4>2. i < m => dist[i] <= dist[m]
          BY <1>2, <1>3
        <4> QED
          BY <3>5, <4>1, <4>2
      <3> QED
        BY <1>3, <3>3, <3>6
    <2>5. S \in SUBSET Int
      BY <2>4
    <2> HIDE DEF S
    <2>6. Min(S) = dist[i]
      BY <2>3, <2>4, <2>5, MinIs
    <2> QED
      BY <2>1, <2>2, <2>6
  <1>8. ASSUME NEW i \in J, NEW j \in J, i < j
        PROVE  dist[i] < dist[j]
    <2>1. i \in 1 .. l /\ j \in 1 .. l /\ i \in 1 .. j - 1
      BY <1>4, <1>8
    <2>2. W[i] # W[j]
      BY <1>3, <2>1 DEF Unseen
    <2>3. K[i] # K[j]
      BY <1>3, <2>1, <2>2
    <2>4. PICK x \in HashValues, y \in HashValues : x = K[i] /\ y = K[j]
      BY <2>1
    <2>5. Distance(h, x) # Distance(h, y)
      <3>1. /\ Distance(h, x) = IF x >= h THEN x - h ELSE x - h + HashMod
            /\ Distance(h, y) = IF y >= h THEN y - h ELSE y - h + HashMod
            /\ x \in 0 .. HashMod - 1 /\ y \in 0 .. HashMod - 1 /\ h \in 0 .. HashMod - 1
            /\ HashMod \in Nat
        BY DistanceIs, KetamaAssumption DEF HashValues
      <3>2. x # y
        BY <2>3, <2>4
      <3> QED
        BY <3>1, <3>2
    <2>6. dist[i] <= dist[j] /\ dist[i] # dist[j] /\ dist[i] \in Int /\ dist[j] \in Int
      BY <1>2, <1>3, <1>8, <2>1, <2>4, <2>5
    <2> HIDE DEF dist
    <2> QED
      BY <2>6
  <1>9. /\ p \in [1 .. N -> U]
        /\ \A n \in U : \E m \in 1 .. N : p[m] = n
        /\ \A i, j \in 1 .. N : i < j => near[p[i]] < near[p[j]]
    <2> HIDE DEF J, N, o, W, dist
    <2>1. \A m \in 1 .. N : p[m] = W[o[m]] /\ o[m] \in J /\ p[m] \in U
      BY <1>3, <1>4, <1>5
    <2>2. p \in [1 .. N -> U]
      BY <2>1
    <2>3. ASSUME NEW n \in U
          PROVE  \E m \in 1 .. N : p[m] = n
      <3>1. PICK k \in DOMAIN r.nodes : r.nodes[k] = n
        BY DEF getUniqueNodes, Range
      <3>2. PICK j \in 1 .. l : K[j] = k
        BY <1>2
      <3>3. PICK i \in J : W[i] = W[j]
        BY <1>3, HasFirstPlace DEF J
      <3>4. PICK m \in 1 .. N : o[m] = i
        BY <1>5
      <3> QED
        BY <1>3, <2>1, <3>1, <3>2, <3>3, <3>4
    <2>4. ASSUME NEW i \in 1 .. N, NEW j \in 1 .. N, i < j
          PROVE  near[p[i]] < near[p[j]]
      <3>1. near[p[i]] = dist[o[i]] /\ near[p[j]] = dist[o[j]] /\ o[i] \in J /\ o[j] \in J
        BY <1>7, <2>1
      <3>2. o[i] < o[j]
        BY <1>5, <2>4
      <3> QED
        BY <1>8, <3>1, <3>2
    <2> QED
      BY <2>2, <2>3, <2>4
  <1>10. near \in [U -> Int]
    <2>1. \A n \in U : near[n] \in Int
      <3> SUFFICES ASSUME NEW n \in U PROVE near[n] \in Int
        OBVIOUS
      <3> HIDE DEF p, W, N, o, J, dist, U
      <3>1. PICK m \in 1 .. N : p[m] = n
        BY <1>9
      <3>2. p[m] = W[o[m]] /\ o[m] \in J
        BY <1>5 DEF p
      <3> QED
        BY <1>3, <1>4, <1>7, <3>1, <3>2
    <2> HIDE DEF U
    <2>2. near = [n \in U |-> near[n]]
      BY DEF U, Near
    <2> QED
      BY <2>1, <2>2
  <1>11. SortedBy(U, near) = p
    <2>1. PICK M \in Nat : M = N
      BY <1>5
    <2>2. PICK q \in [1 .. M -> U] : q = p
      BY <1>9, <2>1
    <2> HIDE DEF p, N, U
    <2>3. PICK rank \in [U -> Int] : rank = near
      BY <1>10
    <2>4. /\ \A n \in U : \E m \in 1 .. M : q[m] = n
          /\ \A i, j \in 1 .. M : i < j => rank[q[i]] < rank[q[j]]
      <3>1. \A n \in U : \E m \in 1 .. M : q[m] = n
        BY <1>9, <2>1, <2>2
      <3>2. ASSUME NEW i \in 1 .. M, NEW j \in 1 .. M, i < j
            PROVE  rank[q[i]] < rank[q[j]]
        BY <1>9, <2>1, <2>2, <2>3, <3>2
      <3> QED
        BY <3>1, <3>2
    <2>5. Ranked(q, M, U, rank)
      BY <2>4 DEF Ranked
    <2>6. SortedBy(U, rank) = q
      BY <2>5, SortedByIs
    <2> QED
      BY <2>2, <2>3, <2>6
  <1>12. N >= 1 /\ o[1] = 1
    <2> HIDE DEF J, N, o
    <2>1. PICK m \in 1 .. N : o[m] = 1
      BY <1>5, <1>6
    <2>2. 1 \in 1 .. N
      BY <1>5, <2>1
    <2>3. o[1] \in Nat /\ o[1] >= 1
      <3>1. o[1] \in J
        BY <1>5, <2>2
      <3>2. o[1] \in 1 .. l
        BY <1>4, <3>1
      <3> QED
        BY <3>2
    <2>4. ~(1 < m)
      BY <1>5, <2>1, <2>2, <2>3
    <2>5. m = 1
      BY <1>5, <2>4
    <2> QED
      BY <1>5, <2>1, <2>2, <2>5
  <1>13. GetNode(r, h) = p[1]
    <2>1. 1 \in 1 .. N
      BY <1>5, <1>12
    <2> HIDE DEF W, J, o, N
    <2> QED
      BY <1>6, <1>12, <2>1
  <1>14. ASSUME NEW count \in Nat, count > 0
         PROVE  GetNodes(r, h, count) = [m \in 1 .. Min({count, N}) |-> p[m]]
    <2>1. ~(count <= 0)
      BY <1>14
    <2>4. GetNodes(r, h, count) = [m \in 1 .. Min({count, N}) |-> W[InOrder(J)[m]]]
      BY <2>1 DEF GetNodes, W
    <2>5. \A m \in 1 .. Min({count, N}) : m \in 1 .. N
      <3> HIDE DEF N
      <3>1. Min({count, N}) = IF count <= N THEN count ELSE N
        BY <1>5, MinOfTwo
      <3> QED
        BY <1>5, <3>1
    <2> HIDE DEF N, J
    <2>6. \A m \in 1 .. Min({count, N}) : p[m] = W[InOrder(J)[m]]
      BY <2>5
    <2> HIDE DEF p
    <2> QED
      BY <2>4, <2>6
  <1> HIDE DEF p, N
  <1>15. Lookups(r, h, p, N)
    BY <1>5, <1>9, <1>12, <1>13, <1>14 DEF Lookups
  <1> QED
    BY <1>5, <1>11, <1>15

\* Lookups follow the ring, after any operations and with any hash function,
\* collisions included: GetNode is the node of the nearest point clockwise, and
\* GetNodes lists different nodes by the distance of their nearest points.
THEOREM ClockwiseOrderCorrect == KetamaSpec => []ClockwiseOrder
  <1>1. KetamaInv => ClockwiseOrder
    <2> SUFFICES ASSUME KetamaInv, NEW h \in HashValues, NEW byDistance,
                        byDistance = SortedBy(getUniqueNodes(ring), Near(ring, h))
                 PROVE  /\ GetNode(ring, h) = IF byDistance = <<>> THEN NoNode
                                              ELSE Head(byDistance)
                        /\ \A count \in 0 .. Len(byDistance) + 1 :
                              GetNodes(ring, h, count) =
                                 SubSeq(byDistance, 1, Min({count, Len(byDistance)}))
      <3>1. \A h \in HashValues : DOMAIN Near(ring, h) = getUniqueNodes(ring)
        BY DEF Near
      <3> QED
        BY <3>1 DEF ClockwiseOrder, Near
    <2>1. RingOK(ring)
      BY DEF KetamaInv, RingInv
    <2>2. CASE DOMAIN ring.nodes = {}
      <3>1. getUniqueNodes(ring) = {}
        BY <2>2 DEF getUniqueNodes, Range
      <3>2. byDistance = <<>>
        BY <3>1, FS_EmptySet DEF SortedBy
      <3>3. \A count \in 0 .. 0 + 1 : Min({count, 0}) = 0
        BY MinOfTwo
      <3>4. SubSeq(<<>>, 1, 0) = <<>> /\ Len(<<>>) = 0
        OBVIOUS
      <3>5. GetNode(ring, h) = NoNode /\ \A count : GetNodes(ring, h, count) = <<>>
        BY <2>2 DEF GetNode, GetNodes
      <3> QED
        BY <3>2, <3>3, <3>4, <3>5
    <2>3. CASE DOMAIN ring.nodes # {}
      <3>1. PICK N \in Nat : Lookups(ring, h, byDistance, N)
        BY <2>1, <2>3, ListedByDistance
      <3>2. /\ byDistance \in [1 .. N -> getUniqueNodes(ring)] /\ N >= 1
            /\ GetNode(ring, h) = byDistance[1]
            /\ \A count \in Nat : count > 0 =>
                  GetNodes(ring, h, count) = [m \in 1 .. Min({count, N}) |-> byDistance[m]]
        BY <3>1 DEF Lookups
      <3>3. /\ Len(byDistance) = N /\ byDistance # <<>> /\ Head(byDistance) = byDistance[1]
            /\ \A k \in 0 .. N : SubSeq(byDistance, 1, k) = [m \in 1 .. k |-> byDistance[m]]
        BY <3>2, AsList
      <3>4. ASSUME NEW count \in 0 .. N + 1
            PROVE  GetNodes(ring, h, count) = SubSeq(byDistance, 1, Min({count, N}))
        <4>0. count \in Nat /\ (count > 0 \/ count = 0)
          OBVIOUS
        <4>1. PICK k \in 0 .. N : k = Min({count, N})
          <5>1. Min({count, N}) = IF count <= N THEN count ELSE N
            BY <4>0, MinOfTwo
          <5>2. (IF count <= N THEN count ELSE N) \in 0 .. N
            OBVIOUS
          <5> QED
            BY <5>1, <5>2
        <4>2. SubSeq(byDistance, 1, k) = [m \in 1 .. k |-> byDistance[m]]
          BY <3>3
        <4>3. CASE count > 0
          <5>1. GetNodes(ring, h, count) = [m \in 1 .. k |-> byDistance[m]]
            BY <3>2, <4>0, <4>1, <4>3
          <5> QED
            BY <4>1, <4>2, <5>1
        <4>4. CASE count = 0
          <5>1. k = 0
            BY <4>1, <4>4, MinOfTwo
          <5>2. GetNodes(ring, h, count) = <<>>
            BY <4>4 DEF GetNodes
          <5>3. [m \in 1 .. 0 |-> byDistance[m]] = <<>>
            OBVIOUS
          <5> QED
            BY <4>1, <4>2, <5>1, <5>2, <5>3
        <4> QED
          BY <4>0, <4>3, <4>4
      <3> QED
        BY <3>2, <3>3, <3>4
    <2> QED
      BY <2>2, <2>3
  <1> QED
    BY <1>1, KetamaInvariance, PTL

=============================================================================
