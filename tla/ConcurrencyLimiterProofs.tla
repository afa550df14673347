---------------------- MODULE ConcurrencyLimiterProofs ----------------------
(***************************************************************************)
(* SlotsCounted of ConcurrencyLimiter, for any limit and any callers.  It  *)
(* is about behaviours up to the first Acquire that waits; until then no   *)
(* helper exists, so cl.mu is locked exactly while one caller is inside.   *)
(***************************************************************************)
EXTENDS ConcurrencyLimiter, FiniteSetTheorems, TLAPS

\* Exactly one caller is inside while cl.mu is locked, and none otherwise.
Mutex ==
    /\ locked <=> \E g \in Callers : pc[g] # "idle"
    /\ \A g1, g2 \in Callers : pc[g1] # "idle" /\ pc[g2] # "idle" => g1 = g2

\* The count goes with the callers that have a slot; only those release.
Counted ==
    /\ IsFiniteSet(slots) /\ slots \subseteq Callers
    /\ current = Cardinality(slots) /\ current \in Nat /\ current <= limit
    /\ \A g \in Callers : /\ pc[g] \in {"acquire", "try"} => g \notin slots
                          /\ pc[g] = "release" => g \in slots

\* The inductive invariant.
LimiterInv ==
    ~waited =>
        /\ pc \in [Callers -> {"idle", "acquire", "try", "release"}]
        /\ \A h \in Helpers : helper[h] = "none"
        /\ notify = <<>> /\ ~fatal
        /\ Mutex /\ Counted

\* One caller enters a critical section that is free.
LEMMA BeginInv ==
  ASSUME LimiterInv, ~waited, NEW g \in Callers,
         NEW body \in {"acquire", "try", "release"}, Begin(g, body)
  PROVE  LimiterInv'
  <1> USE DEF LimiterInv, Begin, Go, Lock
  <1>1. ~locked /\ \A x \in Callers : pc[x] = "idle"
    BY DEF Mutex
  <1>2. /\ pc' = [pc EXCEPT ![g] = body] /\ locked'
        /\ UNCHANGED <<current, notify, helper, slots, fatal, waited>>
    BY <1>1
  <1>3. Mutex'
    BY <1>1, <1>2 DEF Mutex
  <1>4. Counted'
    BY <1>1, <1>2 DEF Counted
  <1> QED
    BY <1>2, <1>3, <1>4

\* The caller that is inside leaves, with the count it has changed.
LEMMA LeaveInv ==
  ASSUME LimiterInv, ~waited, NEW g \in Callers, pc[g] # "idle",
         pc' = [pc EXCEPT ![g] = "idle"], Unlock,
         UNCHANGED <<notify, helper, waited>>,
         IsFiniteSet(slots'), slots' \subseteq Callers,
         current' = Cardinality(slots'), current' \in Nat, current' <= limit
  PROVE  LimiterInv'
  <1> USE DEF LimiterInv
  <1>1. locked /\ \A x \in Callers : x # g => pc[x] = "idle"
    BY DEF Mutex
  <1>2. ~locked' /\ ~fatal'
    BY <1>1, Zenon DEF Unlock
  <1>3. \A x \in Callers : pc'[x] = "idle"
    BY <1>1
  <1>4. Mutex' /\ Counted'
    BY <1>2, <1>3 DEF Mutex, Counted
  <1> QED
    BY <1>2, <1>3, <1>4

\* Every step keeps the invariant.
LEMMA LimiterNextInv == LimiterInv /\ [Next]_vars => LimiterInv'
  <1> SUFFICES ASSUME LimiterInv, [Next]_vars, ~waited'
               PROVE  LimiterInv'
    BY DEF LimiterInv
  <1> USE LimiterAssumption
  <1>0. ~waited /\ ~\E g \in Callers : AcquireSpawn(g)
    <2>1. ~\E g \in Callers : AcquireSpawn(g)
      BY Zenon DEF AcquireSpawn
    <2>2. waited' = waited
      BY <2>1
      DEF Next, vars, Begin, AcquireTake, AcquireUnlock, AcquireWoken, AcquireCancelled,
          AcquireError, TryAcquire, Release, WaitAdd, WaitUnlock, WaitReturn
    <2> QED
      BY <2>1, <2>2
  <1>1. ASSUME NEW g \in Callers, AcquireTake(g) \/ (TryAcquire(g) /\ HasRoom)
        PROVE  LimiterInv'
    <2>1. /\ pc[g] \in {"acquire", "try"} /\ pc' = [pc EXCEPT ![g] = "idle"]
          /\ current < limit /\ current' = current + 1 /\ slots' = slots \cup {g}
          /\ Unlock /\ UNCHANGED <<notify, helper, waited>>
      BY <1>1 DEF AcquireTake, TryAcquire, Go, Take, HasRoom
    <2>2. g \notin slots /\ IsFiniteSet(slots) /\ slots \subseteq Callers
          /\ current = Cardinality(slots) /\ current \in Nat
      BY <1>0, <2>1 DEF LimiterInv, Counted
    <2>3. IsFiniteSet(slots') /\ Cardinality(slots') = Cardinality(slots) + 1
      BY <2>1, <2>2, FS_AddElement
    <2>4. slots' \subseteq Callers /\ current' \in Nat /\ current' <= limit
          /\ current' = Cardinality(slots')
      BY <2>1, <2>2, <2>3
    <2> QED
      BY <1>0, <2>1, <2>3, <2>4, LeaveInv
  <1>2. ASSUME NEW g \in Callers, TryAcquire(g), ~HasRoom
        PROVE  LimiterInv'
    <2>1. /\ pc[g] = "try" /\ pc' = [pc EXCEPT ![g] = "idle"]
          /\ Unlock /\ UNCHANGED <<notify, helper, waited, current, slots>>
      BY <1>2 DEF TryAcquire, Go
    <2> QED
      BY <1>0, <2>1, LeaveInv DEF LimiterInv, Counted
  <1>3. ASSUME NEW g \in Callers, Release(g)
        PROVE  LimiterInv'
    <2>1. /\ pc[g] = "release" /\ pc' = [pc EXCEPT ![g] = "idle"]
          /\ slots' = slots \ {g} /\ Unlock /\ waited' = waited
      BY <1>3 DEF Release, Go
    <2>2. g \in slots /\ IsFiniteSet(slots) /\ slots \subseteq Callers
          /\ current = Cardinality(slots) /\ current \in Nat /\ current <= limit
      BY <1>0, <2>1 DEF LimiterInv, Counted
    <2>3. IsFiniteSet(slots') /\ Cardinality(slots') = Cardinality(slots) - 1
      BY <2>1, <2>2, FS_RemoveElement
    <2>4. current > 0
      BY <2>2, FS_EmptySet
    <2>5. current' = current - 1 /\ UNCHANGED <<notify, helper>>
      BY <1>0, <1>3, <2>4 DEF Release, Signal, LimiterInv
    <2>6. slots' \subseteq Callers /\ current' \in Nat /\ current' <= limit
          /\ current' = Cardinality(slots')
      BY <2>1, <2>2, <2>3, <2>4, <2>5
    <2> QED
      BY <1>0, <2>1, <2>3, <2>5, <2>6, LeaveInv
  <1>4. ASSUME NEW g \in Callers,
               AcquireUnlock(g) \/ AcquireWoken(g) \/ AcquireCancelled(g) \/ AcquireError(g)
        PROVE  FALSE
    BY <1>0, <1>4
    DEF AcquireUnlock, AcquireWoken, AcquireCancelled, AcquireError, Go, LimiterInv
  <1>5. ASSUME NEW h \in Helpers, WaitAdd(h) \/ WaitUnlock(h) \/ WaitReturn(h)
        PROVE  FALSE
    BY <1>0, <1>5 DEF WaitAdd, WaitUnlock, WaitReturn, LimiterInv
  <1>6. CASE UNCHANGED vars
    BY <1>6 DEF vars, LimiterInv, Mutex, Counted
  <1> QED
    BY <1>0, <1>1, <1>2, <1>3, <1>4, <1>5, <1>6, BeginInv DEF Next

\* Every reachable state satisfies the inductive invariant.
THEOREM LimiterInvariance == Spec => []LimiterInv
  <1>1. Init => LimiterInv
    <2> SUFFICES ASSUME Init PROVE LimiterInv
      OBVIOUS
    <2>1. IsFiniteSet({}) /\ Cardinality({}) = 0
      BY FS_EmptySet
    <2>2. Counted
      BY <2>1, LimiterAssumption DEF Init, Counted
    <2> QED
      BY <2>2 DEF Init, LimiterInv, Mutex
  <1> QED
    BY <1>1, LimiterNextInv, PTL DEF Spec

\* Until an Acquire has to wait, the counter is the number of slots given out,
\* stays within the limit, and cl.mu excludes (limiter.go, Acquire, TryAcquire
\* and Release).
THEOREM SlotsCountedCorrect == Spec => []SlotsCounted
  <1>1. LimiterInv => SlotsCounted
    <2> SUFFICES ASSUME LimiterInv, ~waited
                 PROVE  /\ current = Cardinality(slots) /\ current <= limit /\ ~fatal
                        /\ Cardinality({g \in Callers : pc[g] # "idle"}) <= 1
      BY DEF SlotsCounted
    <2>1. Cardinality({g \in Callers : pc[g] # "idle"}) <= 1
      <3> DEFINE S == {g \in Callers : pc[g] # "idle"}
      <3>1. CASE S = {}
        BY <3>1, FS_EmptySet
      <3>2. CASE S # {}
        <4>1. PICK g \in Callers : S = {g}
          BY <3>2 DEF LimiterInv, Mutex
        <4> QED
          BY <4>1, FS_Singleton
      <3> QED
        BY <3>1, <3>2
    <2> QED
      BY <2>1 DEF LimiterInv, Counted
  <1> QED
    BY <1>1, LimiterInvariance, PTL

=============================================================================
