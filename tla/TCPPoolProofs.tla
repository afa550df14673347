---------------------------- MODULE TCPPoolProofs ----------------------------
(***************************************************************************)
(* Proofs about TCPPool for every number of clients, addresses, hostPools, *)
(* connections and Closes.                                                 *)
(*                                                                         *)
(* CapacityBound is not inductive alone: DialOK adds to activeConns after  *)
(* a check made one step earlier.  DialRoom carries the result of that     *)
(* check across the dial, and Locks, the ownership of pool.mu, is why no   *)
(* other client can disturb it.                                            *)
(*                                                                         *)
(* NoSharing, IdleIsOpen and HostLimit need what the code keeps nowhere    *)
(* and relies on everywhere: which connections are open (OwnedIsOpen,      *)
(* IdleOpen), that a hostPool out of the map is drained (MapInv), and that *)
(* the counters of a hostPool cover the open connections (LimitInv).       *)
(***************************************************************************)
EXTENDS TCPPool, FiniteSetTheorems, TLAPS

\* The inductive invariant of the counters.
IndInv == TypeOK /\ Locks /\ DialRoom /\ CapacityBound

\* A new pool satisfies the invariant.
LEMMA InitIndInv == Init => IndInv
  BY PoolAssumption
  DEF Init, IndInv, TypeOK, Locks, DialRoom, CapacityBound

\* The fresh objects of GetCreate and DialOK are objects.
LEMMA Fresh ==
  ASSUME TypeOK
  PROVE  /\ used # HostPools => NewHostPool \in HostPools
         /\ dialed # Conns => NewConn \in Conns
  BY DEF TypeOK, NewHostPool, NewConn

\* Type correctness is inductive together with Locks.
LEMMA NextTypeOK ==
  ASSUME TypeOK, Locks, Next
  PROVE  TypeOK'
  <1> USE PoolAssumption DEF TypeOK
  <1>0. PICK c \in Clients :
          \/ \E a \in Addresses : GetLookup(c, a)
          \/ \E k \in Conns : ReleaseLookup(c, k) \/ TransportClose(c, k)
          \/ CloseBegin(c)
          \/ Step(c)
    BY DEF Next
  <1>1. ASSUME NEW a \in Addresses, GetLookup(c, a)
        PROVE  TypeOK'
    BY <1>1 DEF GetLookup, mapVars, hostVars, netVars
  <1>2. ASSUME NEW k \in Conns, ReleaseLookup(c, k)
        PROVE  TypeOK'
    <2>1. k \in dialed /\ peer[k] \in Addresses
      BY <1>2 DEF ReleaseLookup
    <2>2. /\ held' \in [Clients -> SUBSET dialed]
          /\ open' \in SUBSET dialed
      BY <1>2 DEF ReleaseLookup
    <2>3. /\ pc' \in [Clients -> {"idle", "create", "get", "dial", "release", "close"}]
          /\ addr' \in [Clients -> Addresses \cup {Nil}]
          /\ pool' \in [Clients -> HostPools \cup {Nil}]
          /\ conn' \in [Clients -> dialed \cup {Nil}]
      <3>1. CASE pools[peer[k]] = Nil
        BY <1>2, <3>1 DEF ReleaseLookup
      <3>2. CASE pools[peer[k]] # Nil
        <4>1. pools[peer[k]] \in HostPools
          BY <2>1, <3>2
        <4>2. pc' \in [Clients -> {"idle", "create", "get", "dial", "release", "close"}]
          <5>1. pc' = [pc EXCEPT ![c] = "release"]
            BY <1>2, <3>2 DEF ReleaseLookup
          <5> QED
            BY <5>1
        <4>3. addr' \in [Clients -> Addresses \cup {Nil}]
          <5>1. addr' = [addr EXCEPT ![c] = peer[k]]
            BY <1>2, <3>2 DEF ReleaseLookup
          <5> QED
            BY <2>1, <5>1
        <4>4. pool' \in [Clients -> HostPools \cup {Nil}]
          <5>1. pool' = [pool EXCEPT ![c] = pools[peer[k]]]
            BY <1>2, <3>2 DEF ReleaseLookup
          <5> QED
            BY <4>1, <5>1
        <4>5. conn' \in [Clients -> dialed \cup {Nil}]
          <5>1. conn' = [conn EXCEPT ![c] = k]
            BY <1>2, <3>2 DEF ReleaseLookup
          <5> QED
            BY <5>1, <2>1
        <4> QED
          BY <4>2, <4>3, <4>4, <4>5
      <3> QED
        BY <3>1, <3>2
    <2>4. dialed' = dialed /\ connections' = connections /\ peer' = peer
      BY <1>2 DEF ReleaseLookup, hostVars
    <2>5. /\ connections' \in [HostPools -> Seq(dialed')]
          /\ \A x \in dialed' : peer'[x] # Nil
      BY <2>4
    <2>6. /\ UNCHANGED mapVars
          /\ UNCHANGED <<capacity, activeConns, hmu, dialed, peer, refused>>
      BY <1>2 DEF ReleaseLookup, hostVars
    <2> QED
      BY <2>2, <2>3, <2>5, <2>6 DEF mapVars
  <1>3. ASSUME NEW k \in Conns, TransportClose(c, k)
        PROVE  TypeOK'
    BY <1>3 DEF TransportClose, mapVars, hostVars
  <1>4. CASE CloseBegin(c)
    BY <1>4 DEF CloseBegin, hostVars, netVars
  <1>5. CASE GetCreate(c)
    <2>1. addr[c] \in Addresses
      BY <1>5 DEF GetCreate, Locks
    <2>2. /\ pools' \in [Addresses -> HostPools \cup {Nil}]
          /\ used' \in SUBSET HostPools
          /\ capacity' \in [HostPools -> Nat]
          /\ pool' \in [Clients -> HostPools \cup {Nil}]
      <3>1. CASE pools[addr[c]] # Nil
        <4>1. /\ pools' = pools /\ used' = used /\ capacity' = capacity
              /\ pool' = [pool EXCEPT ![c] = pools[addr[c]]]
          BY <1>5, <3>1 DEF GetCreate, hostVars
        <4>2. pools[addr[c]] \in HostPools
          BY <2>1, <3>1
        <4> QED
          BY <4>1, <4>2
      <3>2. CASE pools[addr[c]] = Nil
        <4>1. /\ NewHostPool \in HostPools
              /\ pools' = [pools EXCEPT ![addr[c]] = NewHostPool]
              /\ used' = used \cup {NewHostPool}
              /\ capacity' = [capacity EXCEPT ![NewHostPool] = MaxConnsPerHost]
              /\ pool' = [pool EXCEPT ![c] = NewHostPool]
          BY <1>5, <3>2, Fresh DEF GetCreate
        <4> QED
          BY <2>1, <4>1
      <3> QED
        BY <3>1, <3>2
    <2> QED
      BY <1>5, <2>2 DEF GetCreate, netVars
  <1>6. CASE GetIdle(c)
    <2>1. pool[c] \in HostPools
      BY <1>6 DEF GetIdle, Locks
    <2>2. /\ connections[pool[c]] \in Seq(dialed)
          /\ Len(connections[pool[c]]) \in Nat \ {0}
      BY <1>6, <2>1 DEF GetIdle
    <2>3. /\ connections[pool[c]][Len(connections[pool[c]])] \in dialed
          /\ SubSeq(connections[pool[c]], 1, Len(connections[pool[c]]) - 1) \in Seq(dialed)
      BY <2>2
    <2> QED
      BY <1>6, <2>1, <2>3 DEF GetIdle, Return, mapVars, netVars
  <1>7. CASE GetExhausted(c)
    BY <1>7 DEF GetExhausted, Return, mapVars, hostVars, netVars
  <1>8. CASE GetDial(c)
    BY <1>8 DEF GetDial, mapVars, netVars
  <1>9. CASE DialOK(c)
    <2>1. /\ pool[c] \in HostPools /\ addr[c] \in Addresses
          /\ NewConn \in Conns
      BY <1>9, Fresh DEF DialOK, Locks
    <2>2. dialed \subseteq dialed' /\ dialed' \in SUBSET Conns
      BY <1>9, <2>1 DEF DialOK
    <2>3. connections' \in [HostPools -> Seq(dialed')]
      <3>1. ASSUME NEW h \in HostPools
            PROVE  connections[h] \in Seq(dialed')
        BY <2>2
      <3> QED
        BY <1>9, <3>1 DEF DialOK
    <2>4. /\ peer' \in [Conns -> Addresses \cup {Nil}]
          /\ \A k \in dialed' : peer'[k] # Nil
      BY <1>9, <2>1 DEF DialOK
    <2>5. /\ held' \in [Clients -> SUBSET dialed']
          /\ conn' \in [Clients -> dialed' \cup {Nil}]
          /\ open' \in SUBSET dialed'
      BY <1>9, <2>1, <2>2 DEF DialOK, Return
    <2> QED
      BY <1>9, <2>1, <2>2, <2>3, <2>4, <2>5 DEF DialOK, Return, mapVars
  <1>10. CASE DialFailed(c)
    BY <1>10 DEF DialFailed, Return, mapVars, netVars
  <1>11. CASE ReleaseHost(c)
    <2>1. pool[c] \in HostPools /\ conn[c] \in dialed
      BY <1>11 DEF ReleaseHost, Locks
    <2>2. Append(connections[pool[c]], conn[c]) \in Seq(dialed)
      BY <2>1
    <2>3. connections' \in [HostPools -> Seq(dialed)]
      <3>1. CASE connections' = [connections EXCEPT ![pool[c]] = Append(@, conn[c])]
        BY <3>1, <2>1, <2>2
      <3>2. CASE connections' = connections
        BY <3>2
      <3> QED
        BY <1>11, <3>1, <3>2 DEF ReleaseHost
    <2>4. open' \in SUBSET dialed
      BY <1>11 DEF ReleaseHost
    <2>5. activeConns' \in [HostPools -> Int]
      BY <1>11, <2>1 DEF ReleaseHost
    <2>6. UNCHANGED <<mapVars, capacity, hmu, dialed, peer, held, refused>> /\ Return(c)
      BY <1>11 DEF ReleaseHost
    <2>7. /\ connections' \in [HostPools -> Seq(dialed')]
          /\ \A k \in dialed' : peer'[k] # Nil
      BY <2>3, <2>6
    <2> QED
      BY <2>4, <2>5, <2>6, <2>7 DEF Return, mapVars
  <1>12. ASSUME NEW h \in HostPools, CloseHost(c, h)
         PROVE  TypeOK'
    BY <1>12 DEF CloseHost, clientVars
  <1>13. CASE CloseEnd(c)
    BY <1>13 DEF CloseEnd, Return, hostVars, netVars
  <1> QED
    BY <1>0, <1>1, <1>2, <1>3, <1>4, <1>5, <1>6, <1>7, <1>8, <1>9, <1>10, <1>11,
       <1>12, <1>13 DEF Step

\* What each client holds stays held: only the dialing client frees pool.mu.
LEMMA NextLocks ==
  ASSUME TypeOK, Locks, Next
  PROVE  Locks'
  <1> USE PoolAssumption DEF TypeOK, Locks, netVars, mapVars
  <1>0. PICK c \in Clients :
          \/ \E a \in Addresses : GetLookup(c, a)
          \/ \E k \in Conns : ReleaseLookup(c, k) \/ TransportClose(c, k)
          \/ CloseBegin(c)
          \/ Step(c)
    BY DEF Next
  <1>1. ASSUME NEW a \in Addresses, GetLookup(c, a)
        PROVE  Locks'
    BY <1>1 DEF GetLookup, hostVars
  <1>2. ASSUME NEW k \in Conns, ReleaseLookup(c, k)
        PROVE  Locks'
    BY <1>2 DEF ReleaseLookup, hostVars
  <1>3. ASSUME NEW k \in Conns, TransportClose(c, k)
        PROVE  Locks'
    BY <1>3 DEF TransportClose, hostVars
  <1>4. CASE CloseBegin(c)
    BY <1>4 DEF CloseBegin, hostVars
  <1>5. CASE GetCreate(c)
    BY <1>5, Fresh DEF GetCreate
  <1>6. CASE GetIdle(c)
    BY <1>6 DEF GetIdle, Return
  <1>7. CASE GetExhausted(c)
    BY <1>7 DEF GetExhausted, Return, hostVars
  <1>8. CASE GetDial(c)
    BY <1>8 DEF GetDial
  <1>9. CASE DialOK(c)
    BY <1>9 DEF DialOK, Return
  <1>10. CASE DialFailed(c)
    BY <1>10 DEF DialFailed, Return
  <1>11. CASE ReleaseHost(c)
    BY <1>11 DEF ReleaseHost, Return
  <1>12. ASSUME NEW h \in HostPools, CloseHost(c, h)
         PROVE  Locks'
    BY <1>12 DEF CloseHost, clientVars
  <1>13. CASE CloseEnd(c)
    BY <1>13 DEF CloseEnd, Return, hostVars
  <1> QED
    BY <1>0, <1>1, <1>2, <1>3, <1>4, <1>5, <1>6, <1>7, <1>8, <1>9, <1>10, <1>11,
       <1>12, <1>13 DEF Step

\* The two counts of a hostPool under a step of one client.
LEMMA NextCounts ==
  ASSUME TypeOK, Locks, DialRoom, CapacityBound, Next
  PROVE  DialRoom' /\ CapacityBound'
  <1> USE PoolAssumption DEF TypeOK, Locks, DialRoom, CapacityBound
  <1>0. PICK c \in Clients :
          \/ \E a \in Addresses : GetLookup(c, a)
          \/ \E k \in Conns : ReleaseLookup(c, k) \/ TransportClose(c, k)
          \/ CloseBegin(c)
          \/ Step(c)
    BY DEF Next
  <1>1. ASSUME NEW a \in Addresses, GetLookup(c, a)
        PROVE  DialRoom' /\ CapacityBound'
    BY <1>1 DEF GetLookup, hostVars
  <1>2. ASSUME NEW k \in Conns, ReleaseLookup(c, k)
        PROVE  DialRoom' /\ CapacityBound'
    BY <1>2 DEF ReleaseLookup, hostVars
  <1>3. ASSUME NEW k \in Conns, TransportClose(c, k)
        PROVE  DialRoom' /\ CapacityBound'
    BY <1>3 DEF TransportClose, hostVars
  <1>4. CASE CloseBegin(c)
    BY <1>4 DEF CloseBegin, hostVars
  <1>5. CASE GetCreate(c)
    BY <1>5 DEF GetCreate
  <1>6. CASE GetIdle(c)
    <2>1. pool[c] \in HostPools
      BY <1>6 DEF GetIdle
    <2>2. /\ connections[pool[c]] \in Seq(dialed)
          /\ Len(connections[pool[c]]) \in Nat \ {0}
      BY <1>6, <2>1 DEF GetIdle
    <2>3. Len(SubSeq(connections[pool[c]], 1, Len(connections[pool[c]]) - 1))
            = Len(connections[pool[c]]) - 1
      BY <2>2
    <2>4. CapacityBound'
      BY <1>6, <2>1, <2>2, <2>3 DEF GetIdle
    <2>5. DialRoom'
      BY <1>6, <2>1 DEF GetIdle, Return
    <2> QED
      BY <2>4, <2>5
  <1>7. CASE GetExhausted(c)
    BY <1>7 DEF GetExhausted, Return, hostVars
  <1>8. CASE GetDial(c)
    BY <1>8 DEF GetDial
  <1>9. CASE DialOK(c)
    <2>1. /\ pool[c] \in HostPools
          /\ hmu[pool[c]] = c
          /\ Len(connections[pool[c]]) = 0
          /\ activeConns[pool[c]] < MaxConnsPerHost
      BY <1>9 DEF DialOK
    <2>2. CapacityBound'
      BY <1>9, <2>1 DEF DialOK
    <2>3. DialRoom'
      BY <1>9, <2>1 DEF DialOK, Return
    <2> QED
      BY <2>2, <2>3
  <1>10. CASE DialFailed(c)
    BY <1>10 DEF DialFailed, Return
  <1>11. CASE ReleaseHost(c)
    <2>1. pool[c] \in HostPools /\ conn[c] \in dialed /\ hmu[pool[c]] = Nil
      BY <1>11 DEF ReleaseHost
    <2>2. /\ Len(connections[pool[c]]) \in Nat
          /\ Len(Append(connections[pool[c]], conn[c])) = Len(connections[pool[c]]) + 1
      BY <2>1
    <2>3. CapacityBound'
      BY <1>11, <2>1, <2>2 DEF ReleaseHost
    <2>4. DialRoom'
      BY <1>11, <2>1 DEF ReleaseHost, Return
    <2> QED
      BY <2>3, <2>4
  <1>12. ASSUME NEW h \in HostPools, CloseHost(c, h)
         PROVE  DialRoom' /\ CapacityBound'
    BY <1>12 DEF CloseHost, clientVars
  <1>13. CASE CloseEnd(c)
    BY <1>13 DEF CloseEnd, Return, hostVars
  <1> QED
    BY <1>0, <1>1, <1>2, <1>3, <1>4, <1>5, <1>6, <1>7, <1>8, <1>9, <1>10, <1>11,
       <1>12, <1>13 DEF Step

\* The invariant is inductive.
LEMMA NextIndInv == IndInv /\ [Next]_vars => IndInv'
  <1> SUFFICES ASSUME IndInv, [Next]_vars
               PROVE  IndInv'
    OBVIOUS
  <1>1. CASE Next
    BY <1>1, NextTypeOK, NextLocks, NextCounts DEF IndInv
  <1>2. CASE UNCHANGED vars
    BY <1>2 DEF vars, mapVars, hostVars, netVars, clientVars, IndInv, TypeOK, Locks,
                DialRoom, CapacityBound
  <1> QED
    BY <1>1, <1>2

\* Every reachable state satisfies the inductive invariant.
THEOREM Invariance == Spec => []IndInv
  BY InitIndInv, NextIndInv, PTL DEF Spec

\* Type correctness of the pool.
THEOREM TypeCorrect == Spec => []TypeOK
  <1>1. IndInv => TypeOK
    BY DEF IndInv
  <1> QED
    BY <1>1, Invariance, PTL

\* No hostPool ever counts more than MaxConnsPerHost connections, for any
\* number of clients, addresses and calls of Close.
THEOREM CapacityCorrect == Spec => []CapacityBound
  <1>1. IndInv => CapacityBound
    BY DEF IndInv
  <1> QED
    BY <1>1, Invariance, PTL

-----------------------------------------------------------------------------
\* The connections that clients have are open, and one that is being released
\* is no longer held.
OwnedIsOpen ==
    \A c \in Clients : Owned(c) \subseteq open /\ conn[c] \notin held[c]

\* What is idle is open.
IdleOpen == \A h \in HostPools : Idle(h) \subseteq open

\* Where the connections are.
PlaceInv == NoSharing /\ OwnedIsOpen /\ IdleOpen

\* A slice of connections without its last element.
LEMMA Popped ==
  ASSUME NEW S, NEW s \in Seq(S), Len(s) > 0
  PROVE  LET p == SubSeq(s, 1, Len(s) - 1)
         IN  /\ p \in Seq(S) /\ Len(p) = Len(s) - 1
             /\ \A i \in 1 .. Len(p) : p[i] = s[i]
             /\ Range(p) \subseteq Range(s) /\ s[Len(s)] \in Range(s)
  <1> DEFINE p == SubSeq(s, 1, Len(s) - 1)
  <1>0. Len(s) \in Nat \ {0}
    OBVIOUS
  <1>a. p \in Seq(S)
    BY <1>0
  <1>b. Len(p) = Len(s) - 1
    <2>1. ASSUME NEW n \in Nat, Len(s) = n + 1 PROVE Len(SubSeq(s, 1, n)) = n
      BY <2>1
    <2>2. Len(s) - 1 \in Nat /\ Len(s) = (Len(s) - 1) + 1
      BY <1>0
    <2> QED
      BY <2>1, <2>2, Zenon
  <1>1. p \in Seq(S) /\ Len(p) = Len(s) - 1
    BY <1>a, <1>b
  <1>2. \A i \in 1 .. Len(p) : p[i] = s[i]
    BY <1>0
  <1> HIDE DEF p
  <1>3. 1 .. Len(p) \subseteq 1 .. Len(s) /\ Len(s) \in 1 .. Len(s)
    BY <1>0, <1>1
  <1>4. Range(p) \subseteq Range(s) /\ s[Len(s)] \in Range(s)
    BY <1>2, <1>3 DEF Range
  <1> QED
    BY <1>1, <1>2, <1>4 DEF p

\* A slice with a connection appended.
LEMMA Pushed ==
  ASSUME NEW S, NEW s \in Seq(S), NEW x \in S
  PROVE  LET p == Append(s, x)
         IN  /\ p \in Seq(S) /\ Len(p) = Len(s) + 1
             /\ p[Len(p)] = x /\ \A i \in 1 .. Len(s) : p[i] = s[i]
             /\ Range(p) = Range(s) \cup {x}
  <1> DEFINE p == Append(s, x)
  <1>1. p \in Seq(S) /\ Len(p) = Len(s) + 1 /\ Len(s) \in Nat
    OBVIOUS
  <1>2. p[Len(p)] = x /\ \A i \in 1 .. Len(s) : p[i] = s[i]
    OBVIOUS
  <1> HIDE DEF p
  <1>3. 1 .. Len(p) = 1 .. Len(s) \cup {Len(p)}
    BY <1>1
  <1>4. Range(p) = Range(s) \cup {x}
    BY <1>1, <1>2, <1>3 DEF Range
  <1> QED
    BY <1>1, <1>2, <1>4 DEF p

\* Clients that only give connections up, without touching the slices.
LEMMA GiveUp ==
  ASSUME TypeOK, PlaceInv, connections' = connections,
         \A c \in Clients : /\ Owned(c)' \subseteq Owned(c)
                            /\ conn'[c] \notin held'[c]
                            /\ Owned(c)' \subseteq open',
         IdleOpen'
  PROVE  PlaceInv'
  <1> USE DEF PlaceInv, OwnedIsOpen
  <1>1. \A h \in HostPools : Idle(h)' = Idle(h)
    BY DEF Idle, Range
  <1>2. NoSharing'
    BY <1>1 DEF NoSharing
  <1> QED
    BY <1>2

\* Taking an idle connection moves it from the slice to the caller: the slice
\* without its last element no longer has it, because it was there once.
LEMMA GetIdlePlace ==
  ASSUME TypeOK, Locks, PlaceInv, NEW c \in Clients, GetIdle(c)
  PROVE  PlaceInv'
  <1>0. PICK h \in HostPools : h = pool[c]
    BY DEF Locks, GetIdle, ReleaseHost
  <1> DEFINE s == connections[h]
             p == SubSeq(s, 1, Len(s) - 1)
             k == s[Len(s)]
  <1>1. h \in HostPools /\ s \in Seq(dialed) /\ Len(s) > 0
    BY <1>0 DEF GetIdle, TypeOK
  <1>2. /\ connections' = [connections EXCEPT ![h] = p]
        /\ held' = [held EXCEPT ![c] = held[c] \cup {k}]
        /\ conn' = [conn EXCEPT ![c] = Nil]
        /\ open' = open
    BY <1>0 DEF GetIdle, Return, netVars
  <1>3. /\ p \in Seq(dialed) /\ Len(p) = Len(s) - 1 /\ Len(s) \in Nat
        /\ \A i \in 1 .. Len(p) : p[i] = s[i]
        /\ Range(p) \subseteq Range(s) /\ k \in Range(s) /\ k \in dialed
    BY <1>1, Popped
  <1> HIDE DEF s, p, k
  <1>4. k \notin Range(p)
    <2> SUFFICES ASSUME NEW i \in 1 .. Len(p), p[i] = k PROVE FALSE
      BY DEF Range
    <2>1. /\ i \in 1 .. Len(s) /\ i # Len(s) /\ Len(s) \in 1 .. Len(s)
          /\ s[i] = s[Len(s)]
      BY <1>3 DEF k
    <2> QED
      BY <1>1, <2>1 DEF PlaceInv, NoSharing, s
  <1>5. /\ Idle(h)' = Range(p) /\ Idle(h) = Range(s)
        /\ \A g \in HostPools : g # h => Idle(g)' = Idle(g)
    BY <1>1, <1>2 DEF Idle, TypeOK, s
  <1>6. /\ Owned(c)' = held[c] \cup {k}
        /\ \A d \in Clients : d # c => Owned(d)' = Owned(d) /\ conn'[d] \notin held'[d]
        /\ conn'[c] \notin held'[c]
    BY <1>2, <1>3, PoolAssumption DEF Owned, TypeOK, PlaceInv, OwnedIsOpen
  <1>7. /\ k \in open /\ held[c] \subseteq Owned(c)
        /\ \A d \in Clients : k \notin Owned(d)
        /\ \A g \in HostPools : g # h => k \notin Idle(g)
    BY <1>1, <1>3, <1>5 DEF PlaceInv, IdleOpen, NoSharing, Owned
  <1>8. \A g \in HostPools : Idle(g)' \subseteq Idle(g) /\ k \notin Idle(g)'
    BY <1>1, <1>3, <1>4, <1>5, <1>7
  <1>9. NoSharing'
    <2>1. (\A g \in HostPools : \A i, j \in 1 .. Len(connections[g]) :
            connections[g][i] = connections[g][j] => i = j)'
      <3> SUFFICES ASSUME NEW g \in HostPools, NEW i \in 1 .. Len(connections'[g]),
                          NEW j \in 1 .. Len(connections'[g]),
                          connections'[g][i] = connections'[g][j]
                   PROVE  i = j
        OBVIOUS
      <3>1. CASE g = h
        <4>1. connections'[g] = p
          BY <1>1, <1>2, <3>1 DEF TypeOK
        <4>2. i \in 1 .. Len(s) /\ j \in 1 .. Len(s) /\ s[i] = s[j]
          BY <1>3, <4>1
        <4> QED
          BY <1>1, <4>2 DEF PlaceInv, NoSharing, s
      <3>2. CASE g # h
        BY <1>1, <1>2, <3>2 DEF PlaceInv, NoSharing, TypeOK
      <3> QED
        BY <3>1, <3>2
    <2>2. \A g1, g2 \in HostPools : g1 # g2 => Idle(g1)' \cap Idle(g2)' = {}
      BY <1>8 DEF PlaceInv, NoSharing
    <2>3. \A g \in HostPools, d \in Clients : Idle(g)' \cap Owned(d)' = {}
      BY <1>6, <1>7, <1>8 DEF PlaceInv, NoSharing
    <2>4. \A d1, d2 \in Clients : d1 # d2 => Owned(d1)' \cap Owned(d2)' = {}
      BY <1>6, <1>7 DEF PlaceInv, NoSharing
    <2> QED
      BY <2>1, <2>2, <2>3, <2>4 DEF NoSharing
  <1>10. OwnedIsOpen' /\ IdleOpen'
    BY <1>2, <1>6, <1>7, <1>8 DEF PlaceInv, OwnedIsOpen, IdleOpen
  <1> QED
    BY <1>9, <1>10 DEF PlaceInv

\* Releasing moves a connection from its client to the slice, where it is not
\* yet, or closes it when nobody else has it.
LEMMA ReleaseHostPlace ==
  ASSUME TypeOK, Locks, PlaceInv, NEW c \in Clients, ReleaseHost(c)
  PROVE  PlaceInv'
  <1>0. PICK h \in HostPools : h = pool[c]
    BY DEF Locks, GetIdle, ReleaseHost
  <1> DEFINE s == connections[h]
             k == conn[c]
             p == Append(s, k)
  <1>1. h \in HostPools /\ s \in Seq(dialed) /\ k \in dialed /\ k # Nil
    BY <1>0, PoolAssumption DEF ReleaseHost, Locks, TypeOK
  <1>2. held' = held /\ conn' = [conn EXCEPT ![c] = Nil]
    BY DEF ReleaseHost, Return
  <1> HIDE DEF s, p, k
  <1>3. /\ Owned(c)' = held[c] /\ k \in Owned(c) /\ k \notin held[c]
        /\ held[c] \subseteq Owned(c) /\ conn'[c] \notin held'[c]
        /\ \A d \in Clients : d # c => Owned(d)' = Owned(d) /\ conn'[d] \notin held'[d]
    BY <1>1, <1>2, PoolAssumption DEF Owned, TypeOK, PlaceInv, OwnedIsOpen, k
  <1>4. \A d \in Clients : k \notin Owned(d)'
    BY <1>3 DEF PlaceInv, NoSharing
  <1>5. /\ k \in open /\ \A g \in HostPools : k \notin Idle(g)
        /\ \A d \in Clients : Owned(d) \subseteq open /\ Owned(d)' \subseteq Owned(d)
    BY <1>3 DEF PlaceInv, NoSharing, OwnedIsOpen
  <1>6. CASE connections' = [connections EXCEPT ![h] = p] /\ open' = open
    <2>1. /\ p \in Seq(dialed) /\ Len(p) = Len(s) + 1 /\ Len(s) \in Nat
          /\ p[Len(p)] = k /\ \A i \in 1 .. Len(s) : p[i] = s[i]
          /\ Range(p) = Range(s) \cup {k}
      BY <1>1, Pushed DEF p
    <2>2. /\ Idle(h)' = Idle(h) \cup {k}
          /\ \A g \in HostPools : g # h => Idle(g)' = Idle(g)
      BY <1>1, <1>6, <2>1 DEF Idle, TypeOK, s
    <2>3. (\A g \in HostPools : \A i, j \in 1 .. Len(connections[g]) :
            connections[g][i] = connections[g][j] => i = j)'
      <3> SUFFICES ASSUME NEW g \in HostPools, NEW i \in 1 .. Len(connections'[g]),
                          NEW j \in 1 .. Len(connections'[g]),
                          connections'[g][i] = connections'[g][j]
                   PROVE  i = j
        OBVIOUS
      <3>1. CASE g = h
        <4>1. connections'[g] = p
          BY <1>1, <1>6, <3>1 DEF TypeOK
        <4>2. \A n \in 1 .. Len(s) : s[n] # k
          <5>1. \A n \in 1 .. Len(s) : s[n] \in Idle(h)
            BY DEF Idle, Range, s
          <5> QED
            BY <1>1, <1>5, <5>1
        <4>3. \A m, n \in 1 .. Len(s) : s[m] = s[n] => m = n
          BY <1>1 DEF PlaceInv, NoSharing, s
        <4> QED
          BY <2>1, <4>1, <4>2, <4>3
      <3>2. CASE g # h
        BY <1>1, <1>6, <3>2 DEF PlaceInv, NoSharing, TypeOK
      <3> QED
        BY <3>1, <3>2
    <2>4. \A g1, g2 \in HostPools : g1 # g2 => Idle(g1)' \cap Idle(g2)' = {}
      BY <1>5, <2>2 DEF PlaceInv, NoSharing
    <2>5. \A g \in HostPools, d \in Clients : Idle(g)' \cap Owned(d)' = {}
      BY <1>4, <1>5, <2>2 DEF PlaceInv, NoSharing
    <2>6. \A d1, d2 \in Clients : d1 # d2 => Owned(d1)' \cap Owned(d2)' = {}
      BY <1>5 DEF PlaceInv, NoSharing
    <2>7. NoSharing'
      BY <2>3, <2>4, <2>5, <2>6 DEF NoSharing
    <2>8. OwnedIsOpen' /\ IdleOpen'
      BY <1>3, <1>5, <1>6, <2>2 DEF PlaceInv, OwnedIsOpen, IdleOpen
    <2> QED
      BY <2>7, <2>8 DEF PlaceInv
  <1>7. CASE connections' = connections /\ open' = open \ {k}
    <2>1. IdleOpen'
      BY <1>5, <1>7 DEF IdleOpen, PlaceInv, Idle, Range
    <2>2. \A d \in Clients : /\ Owned(d)' \subseteq Owned(d)
                             /\ conn'[d] \notin held'[d]
                             /\ Owned(d)' \subseteq open'
      BY <1>3, <1>4, <1>5, <1>7
    <2> QED
      BY <1>7, <2>1, <2>2, GiveUp
  <1> QED
    BY <1>0, <1>6, <1>7 DEF ReleaseHost, s, p, k

\* A connection that was just dialed is in nobody else's hands.
LEMMA DialOKPlace ==
  ASSUME TypeOK, Locks, PlaceInv, NEW c \in Clients, DialOK(c)
  PROVE  PlaceInv'
  <1>1. PICK k \in Conns : k = NewConn /\ k \notin dialed
    BY DEF DialOK, NewConn, TypeOK
  <1>2. /\ connections' = connections /\ open' = open \cup {k}
        /\ held' = [held EXCEPT ![c] = held[c] \cup {k}]
        /\ conn' = [conn EXCEPT ![c] = Nil]
    BY <1>1 DEF DialOK, Return
  <1>3. /\ \A h \in HostPools : Idle(h)' = Idle(h) /\ k \notin Idle(h)
        /\ \A d \in Clients : k \notin Owned(d)
    <2>1. ASSUME NEW h \in HostPools PROVE Idle(h)' = Idle(h) /\ k \notin Idle(h)
      <3>1. Idle(h) \subseteq dialed
        BY DEF PlaceInv, IdleOpen, TypeOK
      <3> QED
        BY <1>1, <1>2, <3>1 DEF Idle
    <2>2. \A d \in Clients : Owned(d) \subseteq dialed
      BY DEF PlaceInv, OwnedIsOpen, TypeOK
    <2> QED
      BY <1>1, <2>1, <2>2
  <1>4. /\ Owned(c)' = held[c] \cup {k} /\ held[c] \subseteq Owned(c)
        /\ \A d \in Clients : d # c => Owned(d)' = Owned(d) /\ conn'[d] \notin held'[d]
        /\ conn'[c] \notin held'[c]
    BY <1>1, <1>2, PoolAssumption DEF Owned, TypeOK, PlaceInv, OwnedIsOpen
  <1>5. NoSharing'
    BY <1>2, <1>3, <1>4 DEF NoSharing, PlaceInv
  <1>6. OwnedIsOpen' /\ IdleOpen'
    BY <1>2, <1>3, <1>4 DEF PlaceInv, OwnedIsOpen, IdleOpen
  <1> QED
    BY <1>5, <1>6 DEF PlaceInv

\* Every step keeps each connection in one place, and what is idle or owned open.
LEMMA NextPlace ==
  ASSUME TypeOK, Locks, PlaceInv, Next
  PROVE  PlaceInv'
  <1>0. PICK c \in Clients :
          \/ \E a \in Addresses : GetLookup(c, a)
          \/ \E k \in Conns : ReleaseLookup(c, k) \/ TransportClose(c, k)
          \/ CloseBegin(c)
          \/ Step(c)
    BY DEF Next
  <1>1. ASSUME connections' = connections, held' = held, open' = open,
               conn' \in {conn, [conn EXCEPT ![c] = Nil]}
        PROVE  PlaceInv'
    <2>1. IdleOpen'
      BY <1>1 DEF PlaceInv, IdleOpen, Idle
    <2>2. \A d \in Clients : /\ Owned(d)' \subseteq Owned(d)
                             /\ conn'[d] \notin held'[d]
                             /\ Owned(d)' \subseteq open'
      BY <1>1, PoolAssumption DEF PlaceInv, OwnedIsOpen, Owned, TypeOK
    <2> QED
      BY <1>1, <2>1, <2>2, GiveUp
  <1>2. ASSUME NEW k \in Conns, ReleaseLookup(c, k) \/ TransportClose(c, k)
        PROVE  PlaceInv'
    <2>1. /\ k \in held[c] /\ k \in dialed /\ k # Nil
          /\ held' = [held EXCEPT ![c] = held[c] \ {k}]
          /\ connections' = connections
      BY <1>2, PoolAssumption DEF ReleaseLookup, TransportClose, hostVars, TypeOK
    <2>2. /\ k \in Owned(c) /\ conn[c] # k
          /\ \A d \in Clients : d # c => k \notin Owned(d)
          /\ \A h \in HostPools : k \notin Idle(h)
          /\ \A d \in Clients : Owned(d) \subseteq open /\ conn[d] \notin held[d]
      BY <2>1 DEF PlaceInv, OwnedIsOpen, Owned, NoSharing
    <2>3. CASE conn' = conn /\ open' = open \ {k}
      <3>1. \A d \in Clients : /\ Owned(d)' \subseteq Owned(d) \ {k}
                               /\ conn'[d] \notin held'[d]
        BY <2>1, <2>2, <2>3 DEF Owned, TypeOK
      <3>2. IdleOpen'
        BY <2>1, <2>2, <2>3 DEF IdleOpen, PlaceInv, Idle
      <3> QED
        BY <2>1, <2>2, <2>3, <3>1, <3>2, GiveUp
    <2>4. CASE conn' = [conn EXCEPT ![c] = k] /\ open' = open
      <3>1. \A d \in Clients : /\ Owned(d)' \subseteq Owned(d)
                               /\ conn'[d] \notin held'[d]
        BY <2>1, <2>2, <2>4 DEF Owned, TypeOK
      <3>2. IdleOpen'
        BY <2>1, <2>4 DEF IdleOpen, PlaceInv, Idle
      <3> QED
        BY <2>1, <2>2, <2>4, <3>1, <3>2, GiveUp
    <2> QED
      BY <1>2, <2>3, <2>4 DEF ReleaseLookup, TransportClose
  <1>3. ASSUME NEW h \in HostPools, CloseHost(c, h)
        PROVE  PlaceInv'
    <2>1. /\ connections' = [connections EXCEPT ![h] = <<>>]
          /\ open' = open \ Idle(h) /\ UNCHANGED <<held, conn>>
      BY <1>3 DEF CloseHost, Idle, clientVars
    <2>2. /\ Idle(h)' = {} /\ \A g \in HostPools : g # h => Idle(g)' = Idle(g)
      BY <2>1 DEF Idle, TypeOK, Range
    <2>3. \A d \in Clients : Owned(d)' = Owned(d)
      BY <2>1 DEF Owned
    <2>4. \A g \in HostPools : connections'[g] \in {connections[g], <<>>}
      BY <2>1 DEF TypeOK
    <2>5. NoSharing'
      BY <2>2, <2>3, <2>4 DEF NoSharing, PlaceInv
    <2>6. OwnedIsOpen' /\ IdleOpen'
      BY <2>1, <2>2, <2>3 DEF PlaceInv, NoSharing, OwnedIsOpen, IdleOpen
    <2> QED
      BY <2>5, <2>6 DEF PlaceInv
  <1> QED
    BY <1>0, <1>1, <1>2, <1>3, GetIdlePlace, DialOKPlace, ReleaseHostPlace
    DEF Step, GetLookup, CloseBegin, GetCreate, GetExhausted, GetDial, DialFailed, CloseEnd,
        Return, hostVars, netVars

-----------------------------------------------------------------------------
\* What Close leaves behind in a hostPool, and what an unused one is like.
Drained(h) == connections[h] = <<>> /\ capacity[h] = 0

\* hostPools are allocated once and belong to one address; one that is not in
\* the map is drained, and so is, while Close runs, one it is past.
MapInv ==
    /\ \A a \in Addresses : pools[a] \in used \cup {Nil}
    /\ \A a, b \in Addresses : pools[a] = pools[b] /\ pools[a] # Nil => a = b
    /\ \A c \in Clients : pool[c] \in used \cup {Nil}
    /\ \A h \in HostPools : h \notin used => activeConns[h] = 0
    /\ \A h \in HostPools : (\A a \in Addresses : pools[a] # h) => Drained(h)
    /\ \A c \in Clients : pc[c] = "close" =>
          /\ pmu = c /\ closes > 0
          /\ \A h \in HostPools : h \in todo \/ Drained(h)

\* A step that leaves the map alone and fills no drained hostPool.
LEMMA SameMap ==
  ASSUME TypeOK, MapInv, UNCHANGED <<pools, pmu, used, todo, closes>>,
         \A h \in HostPools : Drained(h) => Drained(h)',
         \A c \in Clients : pool'[c] \in {pool[c], Nil} \cup {pools[a] : a \in Addresses},
         \A c \in Clients : pc'[c] = "close" => pc[c] = "close",
         \A h \in HostPools : h \notin used => activeConns'[h] = activeConns[h]
  PROVE  MapInv'
  BY DEF MapInv

\* Every step keeps the map of hostPools in order.  The interesting ones are
\* the late ReleaseHost on a dropped hostPool and the end of Close.
LEMMA NextMap ==
  ASSUME TypeOK, Locks, MapInv, Next
  PROVE  MapInv'
  <1>0. PICK c \in Clients :
          \/ \E a \in Addresses : GetLookup(c, a)
          \/ \E k \in Conns : ReleaseLookup(c, k) \/ TransportClose(c, k)
          \/ CloseBegin(c)
          \/ Step(c)
    BY DEF Next
  <1>1. ASSUME NEW a \in Addresses, GetLookup(c, a)
        PROVE  MapInv'
    <2>1. \A d \in Clients : /\ pool'[d] \in {pool[d], pools[a]}
                             /\ pc'[d] = "close" => pc[d] = "close"
      BY <1>1 DEF GetLookup, TypeOK
    <2> QED
      BY <1>1, <2>1, SameMap DEF GetLookup, mapVars, hostVars, Drained
  <1>2. ASSUME NEW k \in Conns, ReleaseLookup(c, k)
        PROVE  MapInv'
    <2>1. k \in dialed /\ peer[k] \in Addresses
      BY <1>2 DEF ReleaseLookup, TypeOK
    <2>2. \A d \in Clients : /\ pool'[d] \in {pool[d], pools[peer[k]]}
                             /\ pc'[d] = "close" => pc[d] = "close"
      BY <1>2 DEF ReleaseLookup, TypeOK
    <2> QED
      BY <1>2, <2>1, <2>2, SameMap DEF ReleaseLookup, mapVars, hostVars, Drained
  <1>3. ASSUME NEW k \in Conns, TransportClose(c, k)
        PROVE  MapInv'
    BY <1>3, SameMap DEF TransportClose, mapVars, hostVars, Drained
  <1>4. CASE CloseBegin(c)
    <2>1. /\ todo' = {pools[a] : a \in Addresses} \ {Nil} /\ pmu = Nil /\ pmu' = c
          /\ closes' = closes + 1 /\ pc' = [pc EXCEPT ![c] = "close"]
          /\ UNCHANGED <<pools, used, pool, connections, capacity, activeConns>>
      BY <1>4 DEF CloseBegin, hostVars
    <2>2. \A d \in Clients : pc[d] # "close"
      BY <2>1, PoolAssumption DEF MapInv
    <2>3. \A h \in HostPools : h \in todo' \/ Drained(h)
      BY <2>1, PoolAssumption DEF MapInv
    <2>4. (\A d \in Clients : pc[d] = "close" =>
              /\ pmu = d /\ closes > 0
              /\ \A h \in HostPools : h \in todo \/ Drained(h))'
      BY <2>1, <2>2, <2>3 DEF TypeOK, Drained
    <2> QED
      BY <2>1, <2>4 DEF MapInv, Drained
  <1>5. CASE GetCreate(c)
    <2>0. addr[c] \in Addresses /\ pmu = Nil
      BY <1>5 DEF GetCreate, Locks
    <2>1. CASE pools[addr[c]] # Nil
      <3>1. \A d \in Clients : /\ pool'[d] \in {pool[d], pools[addr[c]]}
                               /\ pc'[d] = "close" => pc[d] = "close"
        BY <1>5, <2>1 DEF GetCreate, TypeOK
      <3> QED
        BY <1>5, <2>0, <2>1, <3>1, SameMap DEF GetCreate, Drained
    <2>2. CASE pools[addr[c]] = Nil
      <3>1. PICK n \in HostPools : n = NewHostPool /\ n \notin used
        BY <1>5, <2>2 DEF GetCreate, NewHostPool, TypeOK
      <3>2. /\ pools' = [pools EXCEPT ![addr[c]] = n] /\ used' = used \cup {n}
            /\ capacity' = [capacity EXCEPT ![n] = MaxConnsPerHost]
            /\ pool' = [pool EXCEPT ![c] = n] /\ pc' = [pc EXCEPT ![c] = "get"]
            /\ UNCHANGED <<pmu, todo, closes, connections, activeConns>>
        BY <1>5, <2>2, <3>1 DEF GetCreate
      <3>3. \A d \in Clients : pc[d] # "close" /\ pc'[d] # "close"
        BY <2>0, <3>2, PoolAssumption DEF MapInv, TypeOK
      <3>4. (\A h \in HostPools : (\A a \in Addresses : pools[a] # h) => Drained(h))'
        BY <2>0, <2>2, <3>1, <3>2, PoolAssumption DEF MapInv, TypeOK, Drained
      <3>5. (/\ \A a \in Addresses : pools[a] \in used \cup {Nil}
             /\ \A a, b \in Addresses : pools[a] = pools[b] /\ pools[a] # Nil => a = b
             /\ \A d \in Clients : pool[d] \in used \cup {Nil}
             /\ \A h \in HostPools : h \notin used => activeConns[h] = 0)'
        BY <2>0, <3>1, <3>2, PoolAssumption DEF MapInv, TypeOK
      <3> QED
        BY <3>3, <3>4, <3>5 DEF MapInv
    <2> QED
      BY <2>1, <2>2
  <1>6. CASE GetIdle(c)
    <2>1. /\ UNCHANGED <<mapVars, capacity>> /\ Return(c)
          /\ \A h \in HostPools : h # pool[c] => connections'[h] = connections[h]
                                              /\ activeConns'[h] = activeConns[h]
          /\ connections[pool[c]] # <<>> /\ pool[c] \in HostPools
      BY <1>6 DEF GetIdle, TypeOK, Locks
    <2>2. pool[c] \in used
      BY <2>1, PoolAssumption DEF MapInv, TypeOK
    <2>3. \A d \in Clients : /\ pool'[d] \in {pool[d], Nil}
                             /\ pc'[d] = "close" => pc[d] = "close"
      BY <2>1 DEF Return, TypeOK
    <2> QED
      BY <2>1, <2>2, <2>3, SameMap DEF mapVars, Drained
  <1>7. CASE GetExhausted(c) \/ GetDial(c) \/ DialFailed(c)
    <2>1. /\ UNCHANGED <<mapVars, capacity, connections, activeConns>>
          /\ pool' \in {pool, [pool EXCEPT ![c] = Nil]}
          /\ \A d \in Clients : pc'[d] = "close" => pc[d] = "close"
      BY <1>7 DEF GetExhausted, GetDial, DialFailed, Return, hostVars, TypeOK
    <2> QED
      BY <2>1, SameMap DEF mapVars, Drained, TypeOK
  <1>8. CASE DialOK(c)
    <2>1. /\ UNCHANGED <<mapVars, capacity, connections>> /\ Return(c)
          /\ activeConns' = [activeConns EXCEPT ![pool[c]] = @ + 1]
          /\ pool[c] \in HostPools
      BY <1>8 DEF DialOK, Locks
    <2>2. pool[c] \in used
      BY <2>1, PoolAssumption DEF MapInv
    <2>3. \A d \in Clients : /\ pool'[d] \in {pool[d], Nil}
                             /\ pc'[d] = "close" => pc[d] = "close"
      BY <2>1 DEF Return, TypeOK
    <2> QED
      BY <2>1, <2>2, <2>3, SameMap DEF mapVars, Drained, TypeOK
  <1>9. CASE ReleaseHost(c)
    <2>1. /\ UNCHANGED <<mapVars, capacity>> /\ Return(c)
          /\ activeConns' = [activeConns EXCEPT ![pool[c]] = @ - 1]
          /\ pool[c] \in HostPools
      BY <1>9 DEF ReleaseHost, Locks
    <2>2. pool[c] \in used
      BY <2>1, PoolAssumption DEF MapInv
    <2>3. \A d \in Clients : /\ pool'[d] \in {pool[d], Nil}
                             /\ pc'[d] = "close" => pc[d] = "close"
      BY <2>1 DEF Return, TypeOK
    <2>4. \A h \in HostPools : Drained(h) => Drained(h)'
      BY <1>9, <2>1 DEF ReleaseHost, Drained, TypeOK
    <2> QED
      BY <2>1, <2>2, <2>3, <2>4, SameMap DEF mapVars, TypeOK
  <1>10. ASSUME NEW h \in HostPools, CloseHost(c, h)
         PROVE  MapInv'
    <2>1. /\ connections' = [connections EXCEPT ![h] = <<>>]
          /\ capacity' = [capacity EXCEPT ![h] = 0]
          /\ todo' = todo \ {h}
          /\ UNCHANGED <<pools, pmu, used, closes, activeConns, pc, pool>>
      BY <1>10 DEF CloseHost, clientVars
    <2>2. \A g \in HostPools : Drained(g) \/ g = h => Drained(g)'
      BY <2>1 DEF Drained, TypeOK
    <2> QED
      BY <2>1, <2>2 DEF MapInv
  <1>11. CASE CloseEnd(c)
    <2>1. /\ pools' = [a \in Addresses |-> Nil] /\ todo = {} /\ pc[c] = "close"
          /\ pc' = [pc EXCEPT ![c] = "idle"] /\ pool' = [pool EXCEPT ![c] = Nil]
          /\ UNCHANGED <<used, connections, capacity, activeConns>>
      BY <1>11 DEF CloseEnd, Return, hostVars
    <2>2. \A h \in HostPools : Drained(h)'
      BY <2>1 DEF MapInv, Drained
    <2>3. \A d \in Clients : pc'[d] # "close"
      BY <2>1 DEF MapInv, TypeOK
    <2>4. \A d \in Clients : pool'[d] \in used' \cup {Nil}
      BY <2>1 DEF MapInv, TypeOK
    <2> QED
      BY <2>1, <2>2, <2>3, <2>4 DEF MapInv
  <1> QED
    BY <1>0, <1>1, <1>2, <1>3, <1>4, <1>5, <1>6, <1>7, <1>8, <1>9, <1>10, <1>11 DEF Step

-----------------------------------------------------------------------------
\* The open connections to an address, and what its hostPool counts.
OpenTo(a) == {k \in open : peer[k] = a}
Counted(a) == IF pools[a] = Nil THEN 0
              ELSE Len(connections[pools[a]]) + activeConns[pools[a]]

\* An operation works on the hostPool that the map has for its address, and a
\* connection goes back to the address it was dialed to.
WorksOnMap ==
    \A c \in Clients :
        /\ pc[c] \in {"get", "dial", "release"} =>
              addr[c] \in Addresses /\ pool[c] = pools[addr[c]]
        /\ pc[c] = "release" => addr[c] = peer[conn[c]]

\* Until Close is called, the hostPool of an address counts every open
\* connection to it.
LimitInv ==
    /\ IsFiniteSet(open)
    /\ closes = 0 =>
          /\ WorksOnMap
          /\ \A a \in Addresses : Cardinality(OpenTo(a)) <= Counted(a)

\* Closing a connection lowers the number of those to its address.
LEMMA Closed ==
  ASSUME NEW S, IsFiniteSet(S), NEW T, T \subseteq S
  PROVE  IsFiniteSet(T) /\ Cardinality(T) <= Cardinality(S)
         /\ Cardinality(T) \in Nat /\ Cardinality(S) \in Nat
  BY FS_Subset, FS_CardinalityType

\* A step that opens no connection and changes no count.
LEMMA SameCounts ==
  ASSUME TypeOK, LimitInv, open' \subseteq open, peer' = peer,
         closes' = 0 => closes = 0,
         closes' = 0 => \A a \in Addresses :
                           Counted(a)' >= Counted(a) /\ Counted(a)' \in Int
                                            /\ Counted(a) \in Int,
         closes' = 0 => WorksOnMap'
  PROVE  LimitInv'
  <1>1. IsFiniteSet(open) /\ IsFiniteSet(open')
    BY Closed DEF LimitInv, WorksOnMap
  <1>2. ASSUME closes' = 0, NEW a \in Addresses
        PROVE  Cardinality(OpenTo(a)') <= Counted(a)'
    <2>1. OpenTo(a)' \subseteq OpenTo(a) /\ OpenTo(a) \subseteq open
      BY DEF OpenTo
    <2>2. IsFiniteSet(OpenTo(a))
      BY <1>1, <2>1, Closed
    <2>3. Cardinality(OpenTo(a)') <= Cardinality(OpenTo(a))
          /\ Cardinality(OpenTo(a)') \in Nat /\ Cardinality(OpenTo(a)) \in Nat
      BY <2>1, <2>2, Closed
    <2>4. Cardinality(OpenTo(a)) <= Counted(a)
      BY <1>2 DEF LimitInv, WorksOnMap
    <2> QED
      BY <1>2, <2>3, <2>4
  <1> QED
    BY <1>1, <1>2 DEF LimitInv, WorksOnMap

\* The count of an address is an integer.
LEMMA CountedType ==
  ASSUME TypeOK, NEW a \in Addresses
  PROVE  Counted(a) \in Int
  BY DEF TypeOK, Counted

\* A dial adds one open connection and one to the count of its hostPool.
LEMMA DialOKLimit ==
  ASSUME TypeOK, TypeOK', Locks, LimitInv, MapInv, NEW c \in Clients, DialOK(c)
  PROVE  LimitInv'
  <1>1. PICK k \in Conns : k = NewConn /\ k \notin dialed
    BY DEF DialOK, NewConn, TypeOK
  <1>2. /\ connections' = connections /\ open' = open \cup {k}
        /\ peer' = [peer EXCEPT ![k] = addr[c]]
        /\ activeConns' = [activeConns EXCEPT ![pool[c]] = @ + 1]
        /\ UNCHANGED <<pools, closes>> /\ Return(c)
        /\ pool[c] \in HostPools /\ pc[c] = "dial"
    BY <1>1 DEF DialOK, mapVars, Locks
  <1>3. IsFiniteSet(open) /\ IsFiniteSet(open') /\ k \notin open
    BY <1>1, <1>2, FS_AddElement DEF LimitInv, WorksOnMap, TypeOK
  <1>4. ASSUME closes' = 0, NEW a \in Addresses
        PROVE  Cardinality(OpenTo(a)') <= Counted(a)'
    <2>1. addr[c] \in Addresses /\ pool[c] = pools[addr[c]]
      BY <1>2, <1>4 DEF LimitInv, WorksOnMap
    <2>2. /\ IsFiniteSet(OpenTo(a)) /\ Cardinality(OpenTo(a)) \in Nat
          /\ Cardinality(OpenTo(a)) <= Counted(a) /\ Counted(a) \in Int
      <3>1. OpenTo(a) \subseteq open
        BY DEF OpenTo
      <3> QED
        BY <1>2, <1>3, <1>4, <3>1, Closed, CountedType DEF LimitInv, WorksOnMap
    <2>3. CASE a = addr[c]
      <3>1. OpenTo(a)' = OpenTo(a) \cup {k}
        BY <1>1, <1>2, <1>3, <2>3 DEF OpenTo, TypeOK
      <3>2. Cardinality(OpenTo(a)') = Cardinality(OpenTo(a)) + 1
        BY <1>3, <2>2, <3>1, FS_AddElement DEF OpenTo
      <3>3. Counted(a)' = Counted(a) + 1
        BY <1>2, <2>1, <2>3, PoolAssumption DEF Counted, TypeOK
      <3> QED
        BY <2>2, <3>2, <3>3
    <2>4. CASE a # addr[c]
      <3>1. OpenTo(a)' = OpenTo(a)
        BY <1>1, <1>2, <1>3, <2>4 DEF OpenTo, TypeOK
      <3>2. Counted(a)' = Counted(a)
        BY <1>2, <2>1, <2>4, PoolAssumption DEF Counted, TypeOK, MapInv
      <3> QED
        BY <2>2, <3>1, <3>2
    <2> QED
      BY <2>3, <2>4
  <1>5. ASSUME closes' = 0, NEW d \in Clients
        PROVE  /\ pc'[d] \in {"get", "dial", "release"} =>
                    addr'[d] \in Addresses /\ pool'[d] = pools'[addr'[d]]
               /\ pc'[d] = "release" => addr'[d] = peer'[conn'[d]]
    <2>1. CASE d = c
      BY <1>2, <2>1 DEF Return, TypeOK
    <2>2. CASE d # c
      <3>1. pc[d] = "release" => conn[d] # k
        BY <1>1, PoolAssumption DEF TypeOK, Locks
      <3> QED
        BY <1>1, <1>2, <1>5, <2>2, <3>1 DEF Return, TypeOK, LimitInv, WorksOnMap, Locks
    <2> QED
      BY <2>1, <2>2
  <1> QED
    BY <1>3, <1>4, <1>5 DEF LimitInv, WorksOnMap

\* A release takes one from activeConns and either adds one to the slice or
\* closes one open connection.
LEMMA ReleaseHostLimit ==
  ASSUME TypeOK, TypeOK', Locks, LimitInv, MapInv, PlaceInv,
         NEW c \in Clients, ReleaseHost(c)
  PROVE  LimitInv'
  <1> DEFINE k == conn[c]
  <1>0. PICK h \in HostPools : h = pool[c]
    BY DEF Locks, ReleaseHost
  <1>1. /\ activeConns' = [activeConns EXCEPT ![h] = @ - 1]
        /\ UNCHANGED <<pools, closes, peer>> /\ Return(c)
        /\ pc[c] = "release" /\ k \in dialed /\ k # Nil
    BY <1>0, PoolAssumption DEF ReleaseHost, mapVars, Locks, TypeOK
  <1>2. k \in open
    BY <1>1 DEF PlaceInv, OwnedIsOpen, Owned
  <1>3. ASSUME closes' = 0, NEW d \in Clients
        PROVE  /\ pc'[d] \in {"get", "dial", "release"} =>
                    addr'[d] \in Addresses /\ pool'[d] = pools'[addr'[d]]
               /\ pc'[d] = "release" => addr'[d] = peer[conn'[d]]
    BY <1>1, <1>3 DEF Return, TypeOK, LimitInv, WorksOnMap
  <1>4. CASE connections' = [connections EXCEPT ![h] = Append(@, k)] /\ open' = open
    <2>1. \A a \in Addresses : Counted(a)' = Counted(a)
      <3>1. Len(Append(connections[h], k)) = Len(connections[h]) + 1 /\ Len(connections[h]) \in Nat
        BY <1>1 DEF TypeOK
      <3>2. Len(connections'[h]) + activeConns'[h] = Len(connections[h]) + activeConns[h]
        BY <1>1, <1>4, <3>1 DEF TypeOK
      <3>3. \A g \in HostPools : g # h => connections'[g] = connections[g]
                                       /\ activeConns'[g] = activeConns[g]
        BY <1>1, <1>4 DEF TypeOK
      <3>4. pools' = pools /\ \A a \in Addresses : pools[a] \in HostPools \cup {Nil}
        BY <1>1 DEF TypeOK
      <3> QED
        BY <3>2, <3>3, <3>4 DEF Counted
    <2>2. \A a \in Addresses : Counted(a)' >= Counted(a) /\ Counted(a)' \in Int
                                /\ Counted(a) \in Int
      BY <2>1, CountedType
    <2> QED
      BY <1>1, <1>3, <1>4, <2>2, SameCounts DEF WorksOnMap
  <1>5. CASE connections' = connections /\ open' = open \ {k}
    <2>1. IsFiniteSet(open) /\ IsFiniteSet(open')
      BY <1>5, Closed DEF LimitInv, WorksOnMap
    <2>2. ASSUME closes' = 0, NEW a \in Addresses
          PROVE  Cardinality(OpenTo(a)') <= Counted(a)'
      <3>1. addr[c] \in Addresses /\ h = pools[addr[c]] /\ addr[c] = peer[k]
        BY <1>0, <1>1, <2>2 DEF LimitInv, WorksOnMap
      <3>2. /\ IsFiniteSet(OpenTo(a)) /\ Cardinality(OpenTo(a)) \in Nat
            /\ Cardinality(OpenTo(a)) <= Counted(a) /\ Counted(a) \in Int
        <4>1. OpenTo(a) \subseteq open
          BY DEF OpenTo
        <4> QED
          BY <1>1, <2>1, <2>2, <4>1, Closed, CountedType DEF LimitInv, WorksOnMap
      <3>3. CASE a = addr[c]
        <4>1. OpenTo(a)' = OpenTo(a) \ {k} /\ k \in OpenTo(a)
          BY <1>1, <1>2, <1>5, <3>1, <3>3 DEF OpenTo
        <4>2. Cardinality(OpenTo(a)') = Cardinality(OpenTo(a)) - 1
          BY <3>2, <4>1, FS_RemoveElement
        <4>3. Counted(a)' = Counted(a) - 1
          <5>1. pools[a] = h /\ h # Nil /\ pools' = pools
            BY <1>1, <3>1, <3>3, PoolAssumption
          <5>2. activeConns'[h] = activeConns[h] - 1 /\ activeConns[h] \in Int
            BY <1>1 DEF TypeOK
          <5>3. Len(connections[h]) \in Nat /\ connections' = connections
            BY <1>5 DEF TypeOK
          <5> QED
            BY <5>1, <5>2, <5>3 DEF Counted
        <4> QED
          BY <3>2, <4>2, <4>3
      <3>4. CASE a # addr[c]
        <4>1. OpenTo(a)' = OpenTo(a)
          BY <1>1, <1>5, <3>1, <3>4 DEF OpenTo
        <4>2. Counted(a)' = Counted(a)
          <5>1. pools[a] # h /\ pools[a] \in HostPools \cup {Nil}
            BY <3>1, <3>4, PoolAssumption DEF TypeOK, MapInv
          <5> QED
            BY <1>1, <1>5, <5>1 DEF Counted, TypeOK
        <4> QED
          BY <3>2, <4>1, <4>2
      <3> QED
        BY <3>3, <3>4
    <2> QED
      BY <1>1, <1>3, <2>1, <2>2 DEF LimitInv, WorksOnMap
  <1> QED
    BY <1>0, <1>4, <1>5 DEF ReleaseHost

\* Every step keeps the open connections of an address covered by its count.
LEMMA NextLimit ==
  ASSUME TypeOK, TypeOK', Locks, LimitInv, MapInv, PlaceInv, Next
  PROVE  LimitInv'
  <1>0. PICK c \in Clients :
          \/ \E a \in Addresses : GetLookup(c, a)
          \/ \E k \in Conns : ReleaseLookup(c, k) \/ TransportClose(c, k)
          \/ CloseBegin(c)
          \/ Step(c)
    BY DEF Next
  <1>1. ASSUME UNCHANGED <<pools, connections, activeConns>>, NEW a \in Addresses
        PROVE  Counted(a)' >= Counted(a) /\ Counted(a)' \in Int /\ Counted(a) \in Int
    <2>1. Counted(a)' = Counted(a)
      BY <1>1 DEF Counted
    <2> QED
      BY <2>1, CountedType
  <1>2. ASSUME NEW a \in Addresses, GetLookup(c, a)
        PROVE  LimitInv'
    <2>1. UNCHANGED <<pools, connections, activeConns, closes, open, peer, conn>>
      BY <1>2 DEF GetLookup, mapVars, hostVars, netVars
    <2>2. closes' = 0 => WorksOnMap'
      BY <1>2, <2>1 DEF GetLookup, TypeOK, LimitInv, WorksOnMap
    <2> QED
      BY <1>1, <2>1, <2>2, SameCounts
  <1>3. ASSUME NEW k \in Conns, ReleaseLookup(c, k)
        PROVE  LimitInv'
    <2>1. /\ UNCHANGED <<pools, connections, activeConns, closes, peer>>
          /\ open' \subseteq open
      BY <1>3 DEF ReleaseLookup, mapVars, hostVars
    <2>2. k \in dialed /\ peer[k] \in Addresses
      BY <1>3 DEF ReleaseLookup, TypeOK
    <2>3. closes' = 0 => WorksOnMap'
      <3>1. CASE pools[peer[k]] = Nil
        BY <1>3, <2>1, <3>1 DEF ReleaseLookup, LimitInv, WorksOnMap
      <3>2. CASE pools[peer[k]] # Nil
        <4>1. /\ pool' = [pool EXCEPT ![c] = pools[peer[k]]]
              /\ addr' = [addr EXCEPT ![c] = peer[k]]
              /\ conn' = [conn EXCEPT ![c] = k]
              /\ pc' = [pc EXCEPT ![c] = "release"]
          BY <1>3, <3>2 DEF ReleaseLookup
        <4>2. /\ pool'[c] = pools[peer[k]] /\ addr'[c] = peer[k] /\ conn'[c] = k
              /\ \A d \in Clients : d # c => /\ pool'[d] = pool[d] /\ addr'[d] = addr[d]
                                            /\ conn'[d] = conn[d] /\ pc'[d] = pc[d]
          BY <4>1 DEF TypeOK
        <4> QED
          BY <2>1, <2>2, <4>2 DEF LimitInv, WorksOnMap
      <3> QED
        BY <3>1, <3>2
    <2> QED
      BY <1>1, <2>1, <2>3, SameCounts
  <1>4. CASE GetCreate(c)
    <2>0. addr[c] \in Addresses
      BY <1>4 DEF GetCreate, Locks
    <2>1. CASE pools[addr[c]] # Nil
      <3>1. UNCHANGED <<pools, connections, activeConns, closes, open, peer, conn, addr>>
        BY <1>4, <2>1 DEF GetCreate, netVars
      <3>2. closes' = 0 => WorksOnMap'
        BY <1>4, <2>0, <2>1, <3>1 DEF GetCreate, TypeOK, LimitInv, WorksOnMap
      <3> QED
        BY <1>1, <3>1, <3>2, SameCounts
    <2>2. CASE pools[addr[c]] = Nil
      <3>1. PICK n \in HostPools : n = NewHostPool /\ n \notin used
        BY <1>4, <2>2 DEF GetCreate, NewHostPool, TypeOK
      <3>2. /\ pools' = [pools EXCEPT ![addr[c]] = n]
            /\ pool' = [pool EXCEPT ![c] = n] /\ pc' = [pc EXCEPT ![c] = "get"]
            /\ UNCHANGED <<connections, activeConns, closes, open, peer, conn, addr>>
        BY <1>4, <2>2, <3>1 DEF GetCreate, netVars
      <3>3. Len(connections[n]) = 0 /\ activeConns[n] = 0
        BY <3>1, PoolAssumption DEF MapInv, Drained
      <3>4. \A a \in Addresses : Counted(a)' = Counted(a)
        BY <2>0, <2>2, <3>2, <3>3, PoolAssumption DEF Counted, TypeOK
      <3>5. closes' = 0 => WorksOnMap'
        <4> SUFFICES ASSUME closes = 0, NEW d \in Clients
                     PROVE  /\ pc'[d] \in {"get", "dial", "release"} =>
                                  addr[d] \in Addresses /\ pool'[d] = pools'[addr[d]]
                            /\ pc'[d] = "release" => addr[d] = peer[conn[d]]
          BY <3>2 DEF WorksOnMap
        <4>1. CASE d = c
          BY <2>0, <3>2, <4>1 DEF TypeOK
        <4>2. CASE d # c
          <5>1. pc'[d] = pc[d] /\ pool'[d] = pool[d]
            BY <3>2, <4>2 DEF TypeOK
          <5>2. pc[d] \in {"get", "dial", "release"} => addr[d] # addr[c]
            BY <2>2, PoolAssumption DEF LimitInv, WorksOnMap, Locks
          <5> QED
            BY <3>2, <5>1, <5>2 DEF LimitInv, WorksOnMap, TypeOK
        <4> QED
          BY <4>1, <4>2
      <3>6. \A a \in Addresses : Counted(a)' >= Counted(a) /\ Counted(a)' \in Int
                                  /\ Counted(a) \in Int
        BY <3>4, CountedType
      <3> QED
        BY <3>2, <3>5, <3>6, SameCounts
    <2> QED
      BY <2>1, <2>2
  <1>5. CASE GetIdle(c)
    <2>0. PICK h \in HostPools : h = pool[c]
      BY <1>5 DEF Locks, GetIdle
    <2>1. /\ connections' = [connections EXCEPT ![h] = SubSeq(@, 1, Len(connections[h]) - 1)]
          /\ activeConns' = [activeConns EXCEPT ![h] = @ + 1]
          /\ UNCHANGED <<pools, closes, open, peer>> /\ Return(c)
          /\ Len(connections[h]) > 0
      BY <1>5, <2>0 DEF GetIdle, mapVars, netVars
    <2>2. /\ Len(SubSeq(connections[h], 1, Len(connections[h]) - 1)) = Len(connections[h]) - 1
          /\ Len(connections[h]) \in Nat
      BY <2>1, Popped DEF TypeOK
    <2>3. Len(connections'[h]) + activeConns'[h] = Len(connections[h]) + activeConns[h]
      BY <2>1, <2>2 DEF TypeOK
    <2>4. \A g \in HostPools : g # h => connections'[g] = connections[g]
                                     /\ activeConns'[g] = activeConns[g]
      BY <2>1 DEF TypeOK
    <2>5. \A a \in Addresses : Counted(a)' = Counted(a)
      BY <2>1, <2>3, <2>4 DEF Counted, TypeOK
    <2>6. \A a \in Addresses : Counted(a)' >= Counted(a) /\ Counted(a)' \in Int
                                /\ Counted(a) \in Int
      BY <2>5, CountedType
    <2>7. closes' = 0 => WorksOnMap'
      BY <2>1 DEF Return, TypeOK, LimitInv, WorksOnMap
    <2> QED
      BY <2>1, <2>6, <2>7, SameCounts
  <1>6. CASE GetExhausted(c) \/ GetDial(c) \/ DialFailed(c)
    <2>1. UNCHANGED <<pools, connections, activeConns, closes, open, peer>>
      BY <1>6 DEF GetExhausted, GetDial, DialFailed, hostVars, mapVars, netVars
    <2>2. \/ pc' = [pc EXCEPT ![c] = "dial"] /\ pc[c] = "get" /\ UNCHANGED <<addr, pool, conn>>
          \/ Return(c)
      BY <1>6 DEF GetExhausted, GetDial, DialFailed
    <2>3. closes' = 0 => WorksOnMap'
      BY <2>1, <2>2 DEF Return, TypeOK, LimitInv, WorksOnMap
    <2> QED
      BY <1>1, <2>1, <2>3, SameCounts
  <1>7. ASSUME NEW k \in Conns, TransportClose(c, k)
        PROVE  LimitInv'
    BY <1>1, <1>7, SameCounts
    DEF TransportClose, mapVars, hostVars, LimitInv, WorksOnMap
  <1>8. ASSUME closes' # 0, open' \subseteq open
        PROVE  LimitInv'
    BY <1>8, Closed DEF LimitInv, WorksOnMap
  <1>9. CASE CloseBegin(c) \/ CloseEnd(c) \/ \E h \in HostPools : CloseHost(c, h)
    <2>1. open' \subseteq open /\ closes' # 0
      BY <1>9 DEF CloseBegin, CloseEnd, CloseHost, netVars, TypeOK, MapInv
    <2> QED
      BY <1>8, <2>1
  <1> QED
    BY <1>0, <1>2, <1>3, <1>4, <1>5, <1>6, <1>7, <1>9, DialOKLimit, ReleaseHostLimit
    DEF Step

-----------------------------------------------------------------------------
\* The second inductive invariant.
PlacesInv == IndInv /\ PlaceInv /\ MapInv /\ LimitInv

\* Every reachable state satisfies the second inductive invariant.
THEOREM PlacesInvariance == Spec => []PlacesInv
  <1>1. Init => PlacesInv
    <2> SUFFICES ASSUME Init PROVE PlaceInv /\ MapInv /\ LimitInv
      BY InitIndInv DEF PlacesInv
    <2>1. PlaceInv
      BY PoolAssumption
      DEF Init, PlaceInv, NoSharing, OwnedIsOpen, IdleOpen, Idle, Owned, Range
    <2>2. MapInv
      BY DEF Init, MapInv, Drained
    <2>3. LimitInv
      <3>1. open = {} /\ \A a \in Addresses : OpenTo(a) = {} /\ Counted(a) = 0
        BY DEF Init, OpenTo, Counted
      <3>2. IsFiniteSet({}) /\ Cardinality({}) = 0
        BY FS_EmptySet
      <3> QED
        BY <3>1, <3>2 DEF Init, LimitInv, WorksOnMap, OpenTo, Counted
    <2> QED
      BY <2>1, <2>2, <2>3
  <1>2. PlacesInv /\ [Next]_vars => PlacesInv'
    <2> SUFFICES ASSUME PlacesInv, [Next]_vars PROVE PlacesInv'
      OBVIOUS
    <2>1. CASE Next
      BY <2>1, NextIndInv, NextPlace, NextMap, NextLimit DEF PlacesInv, IndInv
    <2>2. CASE UNCHANGED vars
      <3>1. IndInv'
        BY NextIndInv DEF PlacesInv
      <3>2. PlaceInv'
        BY <2>2 DEF PlacesInv, vars, hostVars, netVars, clientVars, PlaceInv, NoSharing,
                    OwnedIsOpen, IdleOpen, Idle, Owned
      <3>3. MapInv'
        BY <2>2 DEF PlacesInv, vars, mapVars, hostVars, clientVars, MapInv, Drained
      <3>4. LimitInv'
        BY <2>2
        DEF PlacesInv, vars, mapVars, hostVars, netVars, clientVars, LimitInv,
            WorksOnMap,
                    OpenTo, Counted
      <3> QED
        BY <3>1, <3>2, <3>3, <3>4 DEF PlacesInv
    <2> QED
      BY <2>1, <2>2
  <1> QED
    BY <1>1, <1>2, PTL DEF Spec

\* Two requests never share a connection (pool.go, GetConnection and
\* ReleaseConnection), whatever Close and late releases do.
THEOREM NoSharingCorrect == Spec => []NoSharing
  <1>1. PlacesInv => NoSharing
    BY DEF PlacesInv, PlaceInv
  <1> QED
    BY <1>1, PlacesInvariance, PTL

\* GetConnection never returns a closed connection, and a hostPool dropped by
\* Close keeps nothing (pool.go, ReleaseConnection and Close).
THEOREM IdleIsOpenCorrect == Spec => []IdleIsOpen
  <1>1. PlacesInv => IdleIsOpen
    <2> SUFFICES ASSUME PlacesInv, NEW h \in HostPools
                 PROVE  /\ Idle(h) \subseteq open
                        /\ Idle(h) # {} => \E a \in Addresses : pools[a] = h
      BY DEF IdleIsOpen
    <2>1. Drained(h) => Idle(h) = {}
      BY DEF Drained, Idle, Range
    <2> QED
      BY <2>1 DEF PlacesInv, PlaceInv, IdleOpen, MapInv
  <1> QED
    BY <1>1, PlacesInvariance, PTL

\* Until Close is called, at most MaxConnsPerHost connections to a host are
\* open (pool.go, GetConnection).
THEOREM HostLimitCorrect == Spec => []HostLimit
  <1>1. PlacesInv => HostLimit
    <2> SUFFICES ASSUME PlacesInv, closes = 0, NEW a \in Addresses
                 PROVE  Cardinality(OpenTo(a)) <= MaxConnsPerHost
      BY DEF HostLimit, OpenTo
    <2>1. Cardinality(OpenTo(a)) <= Counted(a) /\ IsFiniteSet(open)
      BY DEF PlacesInv, LimitInv, WorksOnMap
    <2>2. Counted(a) <= MaxConnsPerHost /\ Counted(a) \in Int
      BY CountedType, PoolAssumption
      DEF PlacesInv, IndInv, CapacityBound, Counted, TypeOK
    <2>3. OpenTo(a) \subseteq open
      BY DEF OpenTo
    <2>4. Cardinality(OpenTo(a)) \in Nat
      BY <2>1, <2>3, Closed
    <2> QED
      BY <2>1, <2>2, <2>4, PoolAssumption
  <1> QED
    BY <1>1, PlacesInvariance, PTL

=============================================================================
