--------------------------- MODULE ServerLifecycle ---------------------------
(***************************************************************************)
(* Start-up and shutdown of a core.Server (pkg/core/server.go) that runs   *)
(* proxy.ProxyServices (pkg/proxy/proxy.go).  RunForever starts every      *)
(* service in a goroutine of its own and does not wait for it; a signal or *)
(* Shutdown() makes it stop every service in another goroutine of its own, *)
(* under a 30 second deadline.  ProxyService.Start and Stop share the      *)
(* field p.server without a lock.  What net/http's Serve and Shutdown do   *)
(* is modelled from how the proxy uses them.                               *)
(*                                                                         *)
(* The unsynchronised read of p.server in Stop is Stop's first step and    *)
(* its write in Start touches nothing else Stop reads before, so a stale   *)
(* read is the same behaviour as a read taken before the write.            *)
(***************************************************************************)
EXTENDS Integers

CONSTANTS
    Services,       \* the proxy services of the program
    Listeners,      \* the addresses they may listen on
    Configs,        \* the ProxyConfigs given to NewProxyService
    None,           \* no service
    MaxInFlight     \* bound of the model: requests in flight per service

ASSUME LifecycleAssumption ==
    /\ None \notin Services
    /\ MaxInFlight \in Nat

VARIABLES
    main,           \* the goroutine that builds the program and runs RunForever
    created,        \* services built by NewProxyService
    services,       \* s.services
    snapshot,       \* RunForever's copy of s.services
    shutdownChan,   \* whether s.shutdownChan is closed
    sigChan,        \* whether a signal was delivered to RunForever
    expired,        \* whether shutdownCtx has passed its deadline
    start,          \* start[s]: the goroutine of svc.Start(ctx)
    stop,           \* stop[s]: the goroutine of svc.Stop(shutdownCtx)
    server,         \* server[s]: p.server
    owner,          \* owner[l]: the service whose p.listeners holds l
    afterStop,      \* history: listeners added when their service's Stop was done
    listener,       \* listener[l]: the state of the socket
    serve,          \* serve[l]: the goroutine of p.server.Serve(l)
    inFlight        \* inFlight[s]: requests inside handleRequest

svcVars == <<start, stop, server>>
netVars == <<owner, afterStop, listener, serve, inFlight>>
ctlVars == <<created, services, snapshot, shutdownChan, sigChan, expired>>
vars == <<main, ctlVars, svcVars, netVars>>

\* The process ends at log.Fatalf and at a panic.
Running == main \notin {"fatal", "panic"}

ListenersOf(s) == {l \in Listeners : owner[l] = s}

KnownMethods == {"round_robin", "random", "least_conn"}

\* The configuration SimpleProxyService builds: Upstreams and nothing else.
SimpleProxyConfig == [upstreams |-> TRUE, method |-> ""]

-----------------------------------------------------------------------------
\* NewServer
Init ==
    /\ main = "setup"
    /\ created = {} /\ services = {} /\ snapshot = {}
    /\ shutdownChan = FALSE /\ sigChan = FALSE /\ expired = FALSE
    /\ start = [s \in Services |-> "off"]
    /\ stop = [s \in Services |-> "off"]
    /\ server = [s \in Services |-> "nil"]
    /\ owner = [l \in Listeners |-> None] /\ afterStop = {}
    /\ listener = [l \in Listeners |-> "none"]
    /\ serve = [l \in Listeners |-> "off"]
    /\ inFlight = [s \in Services |-> 0]

\* NewProxyService, whose callers end the program on an error.
NewProxyService(s, config) ==
    /\ main = "setup"
    /\ s \notin created
    /\ \/ /\ config.upstreams /\ config.method \in KnownMethods
          /\ created' = created \cup {s}
          /\ UNCHANGED main
       \/ /\ ~config.upstreams \/ config.method \notin KnownMethods
          /\ main' = "fatal"
          /\ UNCHANGED created
    /\ UNCHANGED <<services, snapshot, shutdownChan, sigChan, expired, svcVars, netVars>>

\* AddTCP and AddUDS.  An address that is taken is an error that changes
\* nothing.  Listeners may be added at any time, also during and after shutdown.
addListener(s, l) ==
    /\ Running
    /\ s \in created
    /\ listener[l] = "none"
    /\ owner' = [owner EXCEPT ![l] = s]
    /\ listener' = [listener EXCEPT ![l] = "open"]
    /\ afterStop' = IF stop[s] = "done" THEN afterStop \cup {l} ELSE afterStop
    /\ UNCHANGED <<main, ctlVars, svcVars, serve, inFlight>>

\* AddService and AddServices.  What is added after RunForever took its copy is
\* never started.
AddService(s) ==
    /\ Running
    /\ s \in created \ services
    /\ services' = services \cup {s}
    /\ UNCHANGED <<main, created, snapshot, shutdownChan, sigChan, expired, svcVars, netVars>>

\* RunForever up to its select: copy the services, spawn every Start.
RunForever ==
    /\ main = "setup"
    /\ main' = "serving"
    /\ snapshot' = services
    /\ start' = [s \in Services |-> IF s \in services THEN "spawned" ELSE "off"]
    /\ UNCHANGED <<created, services, shutdownChan, sigChan, expired, stop, server, netVars>>

\* SIGINT or SIGTERM; sigChan holds one signal and is read once.
Signal ==
    /\ main = "serving"
    /\ ~sigChan
    /\ sigChan' = TRUE
    /\ UNCHANGED <<main, created, services, snapshot, shutdownChan, expired, svcVars, netVars>>

\* Shutdown() closes the channel; closing it a second time panics.
Shutdown ==
    /\ Running
    /\ \/ /\ ~shutdownChan
          /\ shutdownChan' = TRUE
          /\ UNCHANGED main
       \/ /\ shutdownChan
          /\ main' = "panic"
          /\ UNCHANGED shutdownChan
    /\ UNCHANGED <<created, services, snapshot, sigChan, expired, svcVars, netVars>>

\* RunForever's select fires and gracefulShutdown spawns every Stop.
gracefulShutdown ==
    /\ main = "serving"
    /\ sigChan \/ shutdownChan
    /\ main' = "stopping"
    /\ stop' = [s \in Services |-> IF s \in snapshot THEN "spawned" ELSE "off"]
    /\ UNCHANGED <<ctlVars, start, server, netVars>>

-----------------------------------------------------------------------------
\* ProxyService.Start: without a listener it fails and creates no server.
Start(s) ==
    /\ Running
    /\ start[s] = "spawned"
    /\ \/ /\ ListenersOf(s) = {}
          /\ start' = [start EXCEPT ![s] = "failed"]
          /\ UNCHANGED <<server, serve>>
       \/ /\ ListenersOf(s) # {}
          /\ start' = [start EXCEPT ![s] = "done"]
          /\ server' = [server EXCEPT ![s] = "up"]
          /\ serve' = [l \in Listeners |-> IF owner[l] = s THEN "spawned" ELSE serve[l]]
    /\ UNCHANGED <<main, ctlVars, stop, owner, afterStop, listener, inFlight>>

\* net/http Serve begins: a server already shut down closes the listener and
\* returns; a listener already closed makes Accept fail; otherwise it accepts.
Serve(l) ==
    /\ Running
    /\ serve[l] = "spawned"
    /\ \/ /\ server[owner[l]] = "shutdown"
          /\ listener' = [listener EXCEPT ![l] = "closed"]
          /\ serve' = [serve EXCEPT ![l] = "returned"]
       \/ /\ server[owner[l]] # "shutdown" /\ listener[l] = "closed"
          /\ serve' = [serve EXCEPT ![l] = "returned"]
          /\ UNCHANGED listener
       \/ /\ server[owner[l]] # "shutdown" /\ listener[l] = "open"
          /\ serve' = [serve EXCEPT ![l] = "accepting"]
          /\ UNCHANGED listener
    /\ UNCHANGED <<main, ctlVars, svcVars, owner, afterStop, inFlight>>

Accepting(l) == serve[l] = "accepting" /\ listener[l] = "open"

\* net/http hands a request to handleRequest.
Accept(l) ==
    /\ Running
    /\ Accepting(l)
    /\ inFlight[owner[l]] < MaxInFlight
    /\ inFlight' = [inFlight EXCEPT ![owner[l]] = @ + 1]
    /\ UNCHANGED <<main, ctlVars, svcVars, owner, afterStop, listener, serve>>

\* handleRequest returns.
Finish(s) ==
    /\ Running
    /\ inFlight[s] > 0
    /\ inFlight' = [inFlight EXCEPT ![s] = @ - 1]
    /\ UNCHANGED <<main, ctlVars, svcVars, owner, afterStop, listener, serve>>

\* Accept fails on a closed listener and Serve returns.
ServeReturns(l) ==
    /\ Running
    /\ serve[l] = "accepting" /\ listener[l] = "closed"
    /\ serve' = [serve EXCEPT ![l] = "returned"]
    /\ UNCHANGED <<main, ctlVars, svcVars, owner, afterStop, listener, inFlight>>

-----------------------------------------------------------------------------
\* Mutant of StopBegin: a service without a server has nothing to stop.
StopBegin_NilReturns(s) ==
    /\ Running
    /\ stop[s] = "spawned"
    /\ \/ /\ server[s] = "nil"
          /\ stop' = [stop EXCEPT ![s] = "done"]
          /\ UNCHANGED <<server, listener>>
       \/ /\ server[s] = "up"
          /\ stop' = [stop EXCEPT ![s] = "draining"]
          /\ server' = [server EXCEPT ![s] = "shutdown"]
          /\ listener' = [l \in Listeners |->
                IF owner[l] = s /\ serve[l] = "accepting" THEN "closed" ELSE listener[l]]
    /\ UNCHANGED <<main, ctlVars, start, owner, afterStop, serve, inFlight>>

\* ProxyService.Stop: the nil check, and net/http Shutdown up to its wait,
\* which closes the listeners whose Serve has begun.
StopBegin(s) ==
    /\ Running
    /\ stop[s] = "spawned"
    /\ \/ /\ server[s] = "nil"
          /\ stop' = [stop EXCEPT ![s] = "closing"]
          /\ UNCHANGED <<server, listener>>
       \/ /\ server[s] = "up"
          /\ stop' = [stop EXCEPT ![s] = "draining"]
          /\ server' = [server EXCEPT ![s] = "shutdown"]
          /\ listener' = [l \in Listeners |->
                IF owner[l] = s /\ serve[l] = "accepting" THEN "closed" ELSE listener[l]]
    /\ UNCHANGED <<main, ctlVars, start, owner, afterStop, serve, inFlight>>

\* Shutdown's wait ends: its Serve calls returned, nothing is in flight.
StopDrained(s) ==
    /\ Running
    /\ stop[s] = "draining"
    /\ inFlight[s] = 0
    /\ \A l \in ListenersOf(s) : serve[l] # "accepting"
    /\ stop' = [stop EXCEPT ![s] = "closing"]
    /\ UNCHANGED <<main, ctlVars, start, server, netVars>>

\* Shutdown returns the context's error, and Stop returns before its own
\* closing of the listeners.
StopExpired(s) ==
    /\ Running
    /\ stop[s] = "draining"
    /\ expired
    /\ inFlight[s] > 0 \/ \E l \in ListenersOf(s) : serve[l] = "accepting"
    /\ stop' = [stop EXCEPT ![s] = "failed"]
    /\ UNCHANGED <<main, ctlVars, start, server, netVars>>

\* Mutant of StopClose: the listeners are left to the server to close.
StopClose_KeepsListeners(s) ==
    /\ Running
    /\ stop[s] = "closing"
    /\ stop' = [stop EXCEPT ![s] = "done"]
    /\ UNCHANGED <<main, ctlVars, start, server, netVars>>

\* The rest of Stop, under p.mu: close every listener of the service.
StopClose(s) ==
    /\ Running
    /\ stop[s] = "closing"
    /\ listener' = [l \in Listeners |-> IF owner[l] = s THEN "closed" ELSE listener[l]]
    /\ stop' = [stop EXCEPT ![s] = "done"]
    /\ UNCHANGED <<main, ctlVars, start, server, owner, afterStop, serve, inFlight>>

\* Mutant of Expire: Stop gets a context that has no deadline.
Expire_Never == FALSE /\ UNCHANGED vars

\* The 30 seconds of shutdownCtx pass.
Expire ==
    /\ main = "stopping"
    /\ ~expired
    /\ expired' = TRUE
    /\ UNCHANGED <<main, created, services, snapshot, shutdownChan, sigChan, svcVars, netVars>>

\* gracefulShutdown's select takes done: every Stop returned, with or without
\* an error, which is only logged.
ReturnDone ==
    /\ main = "stopping"
    /\ \A s \in snapshot : stop[s] \in {"done", "failed"}
    /\ main' = "done"
    /\ UNCHANGED <<ctlVars, svcVars, netVars>>

\* gracefulShutdown's select takes shutdownCtx.Done().
ReturnTimeout ==
    /\ main = "stopping"
    /\ expired
    /\ main' = "timeout"
    /\ UNCHANGED <<ctlVars, svcVars, netVars>>

-----------------------------------------------------------------------------
ServiceStep(s) ==
    Start(s) \/ StopBegin(s) \/ StopDrained(s) \/ StopExpired(s) \/ StopClose(s)

ServeStep(l) == Serve(l) \/ ServeReturns(l)

MainStep == gracefulShutdown \/ Expire \/ ReturnDone \/ ReturnTimeout

Next ==
    \/ \E s \in Services, config \in Configs : NewProxyService(s, config)
    \/ \E s \in Services, l \in Listeners : addListener(s, l)
    \/ \E s \in Services : AddService(s) \/ Finish(s) \/ ServiceStep(s)
    \/ RunForever \/ Signal \/ Shutdown \/ MainStep
    \/ \E l \in Listeners : Accept(l) \/ ServeStep(l)

Spec == Init /\ [][Next]_vars

\* Spawned goroutines run and the 30 seconds pass.  Nothing is assumed of the
\* requests: one may stay in flight for good.
Fairness ==
    /\ WF_vars(MainStep)
    /\ \A s \in Services : WF_vars(ServiceStep(s))
    /\ \A l \in Listeners : WF_vars(ServeStep(l))

FairSpec == Spec /\ Fairness

-----------------------------------------------------------------------------
\* Types, and what RunForever runs was added with AddService before.
TypeOK ==
    /\ main \in {"setup", "serving", "stopping", "done", "timeout", "fatal", "panic"}
    /\ created \subseteq Services
    /\ services \subseteq created
    /\ snapshot \subseteq services
    /\ {shutdownChan, sigChan, expired} \subseteq BOOLEAN
    /\ start \in [Services -> {"off", "spawned", "done", "failed"}]
    /\ stop \in [Services -> {"off", "spawned", "draining", "closing", "done", "failed"}]
    /\ server \in [Services -> {"nil", "up", "shutdown"}]
    /\ owner \in [Listeners -> Services \cup {None}]
    /\ afterStop \subseteq Listeners
    /\ listener \in [Listeners -> {"none", "open", "closed"}]
    /\ serve \in [Listeners -> {"off", "spawned", "accepting", "returned"}]
    /\ inFlight \in [Services -> 0 .. MaxInFlight]

\* When RunForever returns nil no request can be accepted any more, whatever
\* the order of the Start, Stop and Serve goroutines: a Stop that found no
\* server closed the listeners that a late Start serves.  There is one
\* exception: a listener that the program adds when the Stop is over already,
\* which a Start that is later still serves for good.
NoAcceptAfterDone == main = "done" => \A l \in Listeners \ afterStop : ~Accepting(l)

\* A requested shutdown ends, even if requests never finish.
ShutdownReturns ==
    main = "serving" /\ (sigChan \/ shutdownChan) ~> main \in {"done", "timeout", "panic"}

\* Every listener that a server serves is closed after RunForever returned,
\* however late its Serve goroutine is scheduled; except for a listener that was
\* added when the Stop of its service was over.
ServedListenersClose ==
    \A l \in Listeners :
        main \in {"done", "timeout"} /\ serve[l] # "off" /\ l \notin afterStop
            ~> listener[l] = "closed" \/ main = "panic"

\* README.md:18 "Graceful Shutdown" and server.go:138 "All services stopped
\* gracefully": when RunForever returns nil, nothing is in flight.
GracefulReturnDrained == main = "done" => \A s \in Services : inFlight[s] = 0

=============================================================================
