----------------------------- MODULE KetamaRing -----------------------------
(***************************************************************************)
(* pkg/ketama/ketama.go: the hash ring and the two balancers built on it.  *)
(* Every operation of the ring is one critical section of r.mu and is an   *)
(* operator here, from the ring before to the ring after.  The balancers   *)
(* are the steps: UpdateBackends changes the ring node by node with no     *)
(* lock of its own, and the weighted balancer adds and removes the virtual *)
(* nodes of a backend one by one under w.mu, which selections do not take. *)
(*                                                                         *)
(* A node is a pair: <<b, i>> is the virtual node "b-i" of the weighted    *)
(* balancer, and <<b, 0>> stands for the plain balancer's node b.  MD5 is  *)
(* any function into 0 .. HashMod - 1, also one with collisions.  A key    *)
(* that is looked up is its hash.                                          *)
(***************************************************************************)
EXTENDS Integers, Sequences, FiniteSetsExt, Functions, Ordering

CONSTANTS
    RingBackends,    \* names of backends
    WeightedNames,   \* those of them that the weighted balancer is given
    Updaters,        \* goroutines that call UpdateBackends
    BackendLists,    \* the lists they give, and the constructor's
    Weights,         \* weights given to the weighted balancer
    replicas,        \* r.replicas, points for each node
    HashMod,         \* 2^32, made small
    HashFunctions,   \* the hashes of <<node, replica>> to look at
    MaxPoints        \* bound of the model: len(r.sortedKeys)

\* AddBackend takes a weight below 1 for 1.
weightOf(weight) == IF weight <= 0 THEN 1 ELSE weight
Nodes == RingBackends \X ({0} \cup UNION {0 .. weightOf(w) - 1 : w \in Weights})

ASSUME KetamaAssumption ==
    /\ replicas \in Nat \ {0} /\ HashMod \in Nat \ {0} /\ MaxPoints \in Nat
    /\ WeightedNames \subseteq RingBackends /\ Weights \subseteq Int
    /\ HashFunctions \subseteq [Nodes \X (0 .. replicas - 1) -> 0 .. HashMod - 1]
    /\ \A list \in BackendLists : list \in Seq(RingBackends)

VARIABLES
    balancer,        \* "plain" or "weighted"; it never changes
    hash,            \* the hash function; it never changes
    ring,            \* r.nodes and r.sortedKeys
    building,        \* backends the plain balancer's constructor has still to add
    update,          \* a goroutine's UpdateBackends and its local variables
    weights,         \* w.weights
    wop,             \* the operation that holds w.mu
    shrunk           \* history: backends added again with a smaller weight

ketamaVars == <<balancer, hash, ring, building, update, weights, wop, shrunk>>

EmptyRing == [nodes |-> <<>>, sortedKeys |-> <<>>]
NoNode == <<"", 0>>
NoUpdate == [running |-> FALSE, backends |-> <<>>, toRemove |-> {},
             old |-> {}, target |-> {}, alone |-> TRUE]
NoOp == [op |-> "none", backend |-> "", next |-> 0, weight |-> 0]

-----------------------------------------------------------------------------
\* The points of a node: the hashes of "node:0", "node:1", ...
Points(n) == [i \in 1 .. replicas |-> hash[<<n, i - 1>>]]

\* A node that is there already repeats its keys; a colliding key changes hands.
AddNode(r, n) ==
    LET own == Range(Points(n)) IN
    [nodes |-> [k \in own \cup DOMAIN r.nodes |-> IF k \in own THEN n ELSE r.nodes[k]],
     sortedKeys |-> SortedList(r.sortedKeys \o Points(n))]

\* Mutant of RemoveNode: the loop ends one replica early.
RemoveNode_OffByOne(r, n) ==
    LET left == DOMAIN r.nodes \ Range(SubSeq(Points(n), 1, replicas - 1))
    IN  [nodes |-> Restrict(r.nodes, left), sortedKeys |-> InOrder(left)]

\* RemoveNode with rebuildSortedKeys; whose the keys are is not looked at.
RemoveNode(r, n) ==
    LET left == DOMAIN r.nodes \ Range(Points(n))
    IN  [nodes |-> Restrict(r.nodes, left), sortedKeys |-> InOrder(left)]

getUniqueNodes(r) == Range(r.nodes)

\* Mutant of search: a key equal to the hash is passed over.
search_After(r, h) ==
    Min({i \in DOMAIN r.sortedKeys : r.sortedKeys[i] > h} \cup {Len(r.sortedKeys) + 1})

\* The first point at or after h, or one past the last.
search(r, h) ==
    Min({i \in DOMAIN r.sortedKeys : r.sortedKeys[i] >= h} \cup {Len(r.sortedKeys) + 1})

\* r.nodes[r.sortedKeys[i]] with i counted round the ring; "" if it is missing.
NodeAt(r, i) ==
    LET k == r.sortedKeys[((i - 1) % Len(r.sortedKeys)) + 1]
    IN  IF k \in DOMAIN r.nodes THEN r.nodes[k] ELSE NoNode

\* NoNode stands for the error "no nodes available in ring".
GetNode(r, h) == IF DOMAIN r.nodes = {} THEN NoNode ELSE NodeAt(r, search(r, h))

\* The nodes of all keys in one round from the first point at or after h.
Walk(r, h) == [j \in DOMAIN r.sortedKeys |-> NodeAt(r, search(r, h) + j - 1)]

\* The places of a walk whose node has not been seen before.
Unseen(walk) == {j \in DOMAIN walk : \A i \in 1 .. j - 1 : walk[i] # walk[j]}

\* <<>> stands for the errors.  The loop takes a node where it meets it first and
\* has seen every node after one round.
GetNodes(r, h, count) ==
    IF DOMAIN r.nodes = {} \/ count <= 0 THEN <<>>
    ELSE LET walk == Walk(r, h)  unseen == Unseen(walk)
         IN  [m \in 1 .. Min({count, Cardinality(unseen)}) |-> walk[InOrder(unseen)[m]]]

\* SelectBackend of the weighted balancer cuts the node at its last "-".
SelectBackendOf(r, h) == GetNode(r, h)[1]

-----------------------------------------------------------------------------
\* NewKetamaBalancer and NewWeightedKetamaBalancer
KetamaInit ==
    /\ balancer \in {"plain", "weighted"}
    /\ hash \in HashFunctions
    /\ ring = EmptyRing
    /\ \/ balancer = "plain" /\ building \in BackendLists
       \/ balancer = "weighted" /\ building = <<>>
    /\ update = [u \in Updaters |-> NoUpdate]
    /\ weights = <<>> /\ wop = NoOp /\ shrunk = {}

\* One iteration of the constructor's loop; nobody else has the balancer yet.
Construct ==
    /\ building # <<>>
    /\ ring' = AddNode(ring, <<Head(building), 0>>)
    /\ building' = Tail(building)
    /\ UNCHANGED <<update, weights, wop, shrunk>>

\* The ring changes under the updates of the goroutines in others.
ChangeRing(r, others) ==
    /\ Len(r.sortedKeys) <= MaxPoints
    /\ ring' = r
    /\ update' = [u \in Updaters |->
                    IF u \in others /\ update[u].running
                    THEN [update[u] EXCEPT !.alone = FALSE] ELSE update[u]]
    /\ UNCHANGED <<weights, wop, shrunk>>

AddBackend(b) == balancer = "plain" /\ ChangeRing(AddNode(ring, <<b, 0>>), Updaters)

RemoveBackend(b) == balancer = "plain" /\ ChangeRing(RemoveNode(ring, <<b, 0>>), Updaters)

\* UpdateBackends: GetAllNodes, which fills toRemove.
UpdateBegin(u, list) ==
    LET current == {n[1] : n \in getUniqueNodes(ring)} IN
    /\ balancer = "plain" /\ ~update[u].running
    /\ update' = [update EXCEPT ![u] =
                    [running |-> TRUE, backends |-> list, toRemove |-> current,
                     old |-> current, target |-> Range(list), alone |-> TRUE]]
    /\ UNCHANGED <<ring, weights, wop, shrunk>>

\* The state after u's own change r of the ring and of its local variables.
UpdateStep(u, r, backends, toRemove) ==
    /\ Len(r.sortedKeys) <= MaxPoints
    /\ ring' = r
    /\ update' = [v \in Updaters |->
          IF v = u THEN [update[u] EXCEPT !.backends = backends, !.toRemove = toRemove]
          ELSE IF update[v].running /\ r # ring THEN [update[v] EXCEPT !.alone = FALSE]
          ELSE update[v]]
    /\ UNCHANGED <<weights, wop, shrunk>>

\* One iteration of the loop over the new list.
UpdateNext(u) ==
    LET list == update[u].backends  toRemove == update[u].toRemove IN
    /\ list # <<>>
    /\ \/ /\ Head(list) \in toRemove
          /\ UpdateStep(u, ring, Tail(list), toRemove \ {Head(list)})
       \/ /\ Head(list) \notin toRemove
          /\ UpdateStep(u, AddNode(ring, <<Head(list), 0>>), Tail(list), toRemove)

\* Mutant of UpdateRemove: the old backends go before the new ones come.
UpdateRemove_First(u, b) ==
    /\ b \in update[u].toRemove \ Range(update[u].backends)
    /\ UpdateStep(u, RemoveNode(ring, <<b, 0>>), update[u].backends,
                  update[u].toRemove \ {b})

\* One iteration of the loop over toRemove, in any order.
UpdateRemove(u, b) ==
    /\ update[u].backends = <<>>
    /\ b \in update[u].toRemove
    /\ UpdateStep(u, RemoveNode(ring, <<b, 0>>), <<>>, update[u].toRemove \ {b})

\* Both loops have ended.
Updated(u) == update[u].running /\ update[u].backends = <<>> /\ update[u].toRemove = {}

UpdateReturn(u) ==
    /\ Updated(u)
    /\ update' = [update EXCEPT ![u] = NoUpdate]
    /\ UNCHANGED <<ring, weights, wop, shrunk>>

-----------------------------------------------------------------------------
\* AddBackend of the weighted balancer takes w.mu and stores the weight.
WeightedAdd(b, weight) ==
    /\ balancer = "weighted" /\ wop = NoOp
    /\ weights' = [c \in DOMAIN weights \cup {b} |->
                      IF c = b THEN weightOf(weight) ELSE weights[c]]
    /\ wop' = [op |-> "add", backend |-> b, next |-> 0, weight |-> weightOf(weight)]
    /\ shrunk' = IF b \in DOMAIN weights /\ weightOf(weight) < weights[b]
                 THEN shrunk \cup {b} ELSE shrunk
    /\ UNCHANGED <<ring, update>>

\* RemoveBackend takes w.mu and reads the weight; an unknown backend returns.
WeightedRemove(b) ==
    /\ balancer = "weighted" /\ wop = NoOp
    /\ b \in DOMAIN weights
    /\ wop' = [op |-> "remove", backend |-> b, next |-> 0, weight |-> weights[b]]
    /\ UNCHANGED <<ring, update, weights, shrunk>>

\* The loop goes on with the next virtual node, or w.mu is released.
NextNode == IF wop.next + 1 = wop.weight THEN NoOp ELSE [wop EXCEPT !.next = @ + 1]

WeightedAddNode ==
    /\ wop.op = "add"
    /\ ring' = AddNode(ring, <<wop.backend, wop.next>>)
    /\ Len(ring'.sortedKeys) <= MaxPoints
    /\ wop' = NextNode
    /\ UNCHANGED <<update, weights, shrunk>>

\* Mutant of WeightedRemoveNode: the weight is forgotten before the loop ends.
WeightedRemoveNode_EarlyDelete ==
    /\ wop.op = "remove"
    /\ ring' = RemoveNode(ring, <<wop.backend, wop.next>>)
    /\ wop' = NextNode
    /\ weights' = Restrict(weights, DOMAIN weights \ {wop.backend})
    /\ UNCHANGED <<update, shrunk>>

WeightedRemoveNode ==
    /\ wop.op = "remove"
    /\ ring' = RemoveNode(ring, <<wop.backend, wop.next>>)
    /\ wop' = NextNode
    /\ weights' = IF wop' = NoOp THEN Restrict(weights, DOMAIN weights \ {wop.backend})
                  ELSE weights
    /\ UNCHANGED <<update, shrunk>>

\* The steps of a balancer that its constructor has returned.
Operate ==
    \/ \E b \in RingBackends : AddBackend(b) \/ RemoveBackend(b)
    \/ \E u \in Updaters :
          \/ \E list \in BackendLists : UpdateBegin(u, list)
          \/ UpdateNext(u)
          \/ \E b \in RingBackends : UpdateRemove(u, b)
          \/ UpdateReturn(u)
    \/ \E b \in WeightedNames, weight \in Weights : WeightedAdd(b, weight)
    \/ \E b \in WeightedNames : WeightedRemove(b)
    \/ WeightedAddNode \/ WeightedRemoveNode

KetamaNext ==
    /\ \/ Construct
       \/ building = <<>> /\ UNCHANGED building /\ Operate
    /\ UNCHANGED <<balancer, hash>>

KetamaSpec == KetamaInit /\ [][KetamaNext]_ketamaVars

-----------------------------------------------------------------------------
HashValues == 0 .. HashMod - 1
Distance(h, k) == (k - h) % HashMod

\* No two nodes share a point; one node may have a point twice.
NoCollisions ==
    \A m, n \in Nodes : m # n => Range(Points(m)) \cap Range(Points(n)) = {}

\* GetNode is the node of the nearest point clockwise from the hash, and
\* GetNodes lists different nodes by how near they are, with collisions,
\* repeated points and a wrap past the highest point as well.
ClockwiseOrder ==
    \A h \in HashValues :
        LET near == [n \in getUniqueNodes(ring) |->
                  Min({Distance(h, k) : k \in {k \in DOMAIN ring.nodes : ring.nodes[k] = n}})]
            byDistance == SortedBy(DOMAIN near, near)
        IN  /\ GetNode(ring, h) = IF byDistance = <<>> THEN NoNode ELSE Head(byDistance)
            /\ \A count \in 0 .. Len(byDistance) + 1 :
                  GetNodes(ring, h, count) =
                     SubSeq(byDistance, 1, Min({count, Len(byDistance)}))

\* The promise of consistent hashing: a step that changes the ring moves a key
\* only away from a node that has left it or to a node that is new.  Adding a
\* node twice moves nothing.
MinimalDisruption ==
    [][ring' # ring /\ NoCollisions =>
          \A h \in HashValues :
              \/ GetNode(ring, h) = GetNode(ring', h)
              \/ GetNode(ring, h) \notin getUniqueNodes(ring')
              \/ GetNode(ring', h) \notin getUniqueNodes(ring)]_ring

RingNames == {n[1] : n \in getUniqueNodes(ring)}

\* While an UpdateBackends runs that no other change overlaps, selections see
\* at least the backends that stay and nothing but old and new ones, and never
\* an empty ring if neither list was empty.  It ends with the ring of its list,
\* also if the list names a backend twice.
UpdateServes ==
    \A u \in Updaters : update[u].running /\ update[u].alone /\ NoCollisions =>
        /\ update[u].old \cap update[u].target \subseteq RingNames
        /\ RingNames \subseteq update[u].old \cup update[u].target
        /\ update[u].old # {} /\ update[u].target # {} => RingNames # {}
        /\ Updated(u) => RingNames = update[u].target

\* Selections find only backends that have a weight, in the middle of an
\* operation too, and between operations each backend has as many virtual
\* nodes as its weight says; except for a backend that was added again with a
\* smaller weight, whose surplus nodes no later RemoveBackend reaches.
WeightedExact ==
    balancer = "weighted" /\ NoCollisions =>
        /\ \A h \in HashValues : DOMAIN ring.nodes # {} =>
              SelectBackendOf(ring, h) \in DOMAIN weights \cup shrunk
        /\ wop = NoOp => \A b \in WeightedNames \ shrunk :
              {n \in getUniqueNodes(ring) : n[1] = b} =
                 IF b \in DOMAIN weights THEN {b} \X (0 .. weights[b] - 1) ELSE {}

=============================================================================
