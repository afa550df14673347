---------------------------- MODULE ServerProofs ----------------------------
(***************************************************************************)
(* Proofs about ServerLifecycle, for any number of services, listeners and *)
(* requests.                                                               *)
(***************************************************************************)
EXTENDS ServerLifecycle, TLAPS

-----------------------------------------------------------------------------
\* A server exists only of a service that was started, and a Serve goroutine
\* only of a listener that such a service owns.
Started ==
    /\ main = "setup" => \A s \in Services : start[s] = "off"
    /\ \A s \in Services : start[s] # "off" => s \in snapshot
    /\ \A s \in Services : server[s] # "nil" => start[s] = "done"
    /\ \A l \in Listeners :
          /\ listener[l] = "none" => owner[l] = None
          /\ serve[l] # "off" => owner[l] \in Services /\ start[owner[l]] = "done"

\* What a Stop has done by each of its steps.  A server that is shut down has
\* no open listener that is accepted from.
Stopped ==
    /\ main \in {"setup", "serving"} => \A s \in Services : stop[s] = "off"
    /\ main = "done" => \A s \in snapshot : stop[s] \in {"done", "failed"}
    /\ \A s \in Services :
          /\ stop[s] \in {"draining", "failed"} => server[s] = "shutdown"
          /\ stop[s] = "done" =>
                \A l \in Listeners \ afterStop : owner[l] = s => listener[l] = "closed"
          /\ server[s] = "shutdown" => \A l \in Listeners : owner[l] = s => ~Accepting(l)

\* The inductive invariant.
LifecycleInv == TypeOK /\ Started /\ Stopped

\* A new server and no service satisfy the invariant.
LEMMA LifecycleInitInv == Init => LifecycleInv
  <1> SUFFICES ASSUME Init PROVE LifecycleInv
    OBVIOUS
  <1>1. {shutdownChan, sigChan, expired} \subseteq BOOLEAN
    BY Zenon DEF Init
  <1> QED
    BY <1>1, LifecycleAssumption
    DEF Init, LifecycleInv, TypeOK, Started, Stopped, Accepting

\* Building a service touches no goroutine.
LEMMA NewProxyServiceInv ==
  ASSUME LifecycleInv, NEW s \in Services, NEW config \in Configs,
         NewProxyService(s, config)
  PROVE  LifecycleInv'
  BY DEF NewProxyService, LifecycleInv, TypeOK, Started, Stopped, Accepting,
         svcVars, netVars

\* Every step keeps the invariant.
LEMMA NextLifecycleInv == LifecycleInv /\ [Next]_vars => LifecycleInv'
  <1> SUFFICES ASSUME LifecycleInv, [Next]_vars
               PROVE  LifecycleInv'
    OBVIOUS
  <1> USE LifecycleAssumption
      DEF LifecycleInv, ctlVars, svcVars, netVars
  <1>1. ASSUME NEW s \in Services, NEW l \in Listeners, addListener(s, l)
        PROVE  LifecycleInv'
    <2>1. TypeOK'
      BY <1>1 DEF addListener, TypeOK
    <2>2. Started'
      BY <1>1 DEF addListener, TypeOK, Started
    <2>3. Stopped'
      BY <1>1 DEF addListener, TypeOK, Started, Stopped, Accepting
    <2> QED
      BY <2>1, <2>2, <2>3
  <1>2. ASSUME NEW s \in Services, AddService(s)
        PROVE  LifecycleInv'
    BY <1>2 DEF AddService, TypeOK, Started, Stopped, Accepting
  <1>3. ASSUME NEW s \in Services, Finish(s)
        PROVE  LifecycleInv'
    BY <1>3 DEF Finish, TypeOK, Started, Stopped, Accepting
  <1>4. CASE RunForever
    BY <1>4 DEF RunForever, TypeOK, Started, Stopped, Accepting
  <1>5. CASE Signal \/ Shutdown
    <2>1. {shutdownChan, sigChan, expired}' \subseteq BOOLEAN
      BY <1>5, Zenon DEF Signal, Shutdown, TypeOK
    <2> QED
      BY <1>5, <2>1 DEF Signal, Shutdown, TypeOK, Started, Stopped, Accepting
  <1>6. CASE gracefulShutdown
    BY <1>6 DEF gracefulShutdown, TypeOK, Started, Stopped, Accepting
  <1>7. CASE Expire \/ ReturnDone \/ ReturnTimeout
    <2>1. {shutdownChan, sigChan, expired}' \subseteq BOOLEAN
      BY <1>7, Zenon DEF Expire, ReturnDone, ReturnTimeout, TypeOK
    <2> QED
      BY <1>7, <2>1
      DEF Expire, ReturnDone, ReturnTimeout, TypeOK, Started, Stopped, Accepting
  <1>8. ASSUME NEW s \in Services, Start(s)
        PROVE  LifecycleInv'
    <2>1. TypeOK'
      BY <1>8 DEF Start, TypeOK, ListenersOf
    <2>2. Started'
      BY <1>8 DEF Start, TypeOK, Started, ListenersOf
    <2>3. Stopped'
      BY <1>8 DEF Start, TypeOK, Started, Stopped, Accepting, Running
    <2> QED
      BY <2>1, <2>2, <2>3
  <1>9. ASSUME NEW s \in Services, StopBegin(s)
        PROVE  LifecycleInv'
    <2>1. TypeOK'
      BY <1>9 DEF StopBegin, TypeOK
    <2>2. Started'
      BY <1>9 DEF StopBegin, TypeOK, Started
    <2>3. Stopped'
      BY <1>9 DEF StopBegin, TypeOK, Started, Stopped, Accepting, Running
    <2> QED
      BY <2>1, <2>2, <2>3
  <1>10. ASSUME NEW s \in Services, StopDrained(s) \/ StopExpired(s)
         PROVE  LifecycleInv'
    BY <1>10 DEF StopDrained, StopExpired, TypeOK, Started, Stopped, Accepting, Running
  <1>11. ASSUME NEW s \in Services, StopClose(s)
         PROVE  LifecycleInv'
    BY <1>11 DEF StopClose, TypeOK, Started, Stopped, Accepting, Running
  <1>12. ASSUME NEW l \in Listeners, Accept(l)
         PROVE  LifecycleInv'
    <2>1. owner[l] \in Services
      BY <1>12 DEF Accept, Accepting, Started
    <2> QED
      BY <1>12, <2>1 DEF Accept, TypeOK, Started, Stopped, Accepting
  <1>13. ASSUME NEW l \in Listeners, Serve(l)
         PROVE  LifecycleInv'
    <2>0. owner[l] \in Services /\ start[owner[l]] = "done"
      BY <1>13 DEF Serve, Started
    <2>1. TypeOK'
      BY <1>13 DEF Serve, TypeOK
    <2>2. Started'
      BY <1>13, <2>0 DEF Serve, TypeOK, Started
    <2>3. Stopped'
      BY <1>13, <2>0 DEF Serve, TypeOK, Started, Stopped, Accepting, Running
    <2> QED
      BY <2>1, <2>2, <2>3
  <1>14. ASSUME NEW l \in Listeners, ServeReturns(l)
         PROVE  LifecycleInv'
    BY <1>14 DEF ServeReturns, TypeOK, Started, Stopped, Accepting, Running
  <1>15. CASE UNCHANGED vars
    BY <1>15 DEF vars, TypeOK, Started, Stopped, Accepting
  <1> QED
    BY <1>1, <1>2, <1>3, <1>4, <1>5, <1>6, <1>7, <1>8, <1>9, <1>10, <1>11, <1>12, <1>13,
       <1>14, <1>15, NewProxyServiceInv
    DEF Next, ServiceStep, ServeStep, MainStep

\* Every reachable state of the life cycle satisfies the inductive invariant,
\* type correctness included.
THEOREM LifecycleInvariance == Spec => []LifecycleInv
  BY LifecycleInitInv, NextLifecycleInv, PTL DEF Spec

\* When RunForever returns nil nothing accepts any more (server.go,
\* gracefulShutdown; proxy.go, Start and Stop), but for listeners added behind a
\* Stop that was done: a Stop that failed left its server shut down, one that is
\* done closed the listeners.
THEOREM NoAcceptAfterDoneCorrect == Spec => []NoAcceptAfterDone
  <1>1. LifecycleInv => NoAcceptAfterDone
    <2> SUFFICES ASSUME LifecycleInv, main = "done", NEW l \in Listeners \ afterStop,
                        Accepting(l)
                 PROVE  FALSE
      BY DEF NoAcceptAfterDone
    <2>1. owner[l] \in snapshot /\ owner[l] \in Services
      BY DEF Accepting, LifecycleInv, Started
    <2>2. stop[owner[l]] \in {"done", "failed"}
      BY <2>1 DEF LifecycleInv, Stopped
    <2> QED
      BY <2>1, <2>2 DEF LifecycleInv, Stopped, Accepting
  <1> QED
    BY <1>1, LifecycleInvariance, PTL

=============================================================================
