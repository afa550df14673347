--------------------------- MODULE CircuitBreaker ---------------------------
(***************************************************************************)
(* The circuit breaker of pkg/timeout/timeout.go.  Goroutines share one    *)
(* Circuit; each Call is three steps: allowRequest (under c.mu), the       *)
(* protected function (no lock held, of any duration), and recordResult    *)
(* (under c.mu).  Between the first and the last step any other call, a    *)
(* Reset or the passing of time may intervene, so a result is recorded     *)
(* against a circuit that need not be in the state that admitted the call. *)
(***************************************************************************)
EXTENDS Integers

CONSTANTS
    Callers,        \* the goroutines that use the circuit
    MaxFailures,    \* maxFailures of NewCircuitBreaker
    ResetTimeout,   \* resetTimeout of NewCircuitBreaker, in clock ticks
    MaxTime         \* bound of the model: the clock stops here

ASSUME ConstantsAssumption ==
    /\ MaxFailures \in Nat \ {0}
    /\ ResetTimeout \in Nat
    /\ MaxTime \in Nat

VARIABLES
    state,          \* c.state
    failures,       \* c.failures
    lastFailTime,   \* c.lastFailTime
    clock,          \* time.Now()
    admitted        \* admitted[g]: when g's running call passed allowRequest

vars == <<state, failures, lastFailTime, clock, admitted>>

CircuitState == {"Closed", "Open", "HalfOpen"}

\* time.Time{}, the zero lastFailTime; it precedes every reading of the clock.
ZeroTime == -1

\* admitted[g] of a goroutine that is not inside the protected function.
NotRunning == -1

Running(g) == admitted[g] # NotRunning

-----------------------------------------------------------------------------
\* NewCircuitBreaker
Init ==
    /\ state = "Closed"
    /\ failures = 0
    /\ lastFailTime = ZeroTime
    /\ clock = 0
    /\ admitted = [g \in Callers |-> NotRunning]

\* Mutant of allowRequest: the elapsed time is not compared with resetTimeout.
allowRequest_NoTimeout ==
    \/ /\ state \in {"Closed", "HalfOpen"}
       /\ UNCHANGED state
    \/ /\ state = "Open"
       /\ state' = "HalfOpen"

\* Mutant of allowRequest: an open circuit is never probed.
allowRequest_NoProbe ==
    /\ state \in {"Closed", "HalfOpen"}
    /\ UNCHANGED state

\* The calls that allowRequest lets through, with its Open -> HalfOpen move.
allowRequest ==
    \/ /\ state \in {"Closed", "HalfOpen"}
       /\ UNCHANGED state
    \/ /\ state = "Open"
       /\ clock - lastFailTime > ResetTimeout
       /\ state' = "HalfOpen"

\* Mutant of recordResult: a success takes one failure back instead of all.
recordResult_Decrement(success) ==
    \/ /\ success
       /\ failures' = failures - 1
       /\ state' = "Closed"
       /\ UNCHANGED lastFailTime
    \/ /\ ~success
       /\ failures' = failures + 1
       /\ lastFailTime' = clock
       /\ state' = IF failures' >= MaxFailures THEN "Open" ELSE state

\* Mutant of recordResult: the circuit opens one failure too late.
recordResult_Strict(success) ==
    \/ /\ success
       /\ failures' = 0
       /\ state' = "Closed"
       /\ UNCHANGED lastFailTime
    \/ /\ ~success
       /\ failures' = failures + 1
       /\ lastFailTime' = clock
       /\ state' = IF failures' > MaxFailures THEN "Open" ELSE state

recordResult(success) ==
    \/ /\ success
       /\ failures' = 0
       /\ state' = "Closed"
       /\ UNCHANGED lastFailTime
    \/ /\ ~success
       /\ failures' = failures + 1
       /\ lastFailTime' = clock
       /\ state' = IF failures' >= MaxFailures THEN "Open" ELSE state

\* Mutant of Call: a half-open circuit starts counting from zero.
Call_ClearsFailures(g) ==
    /\ ~Running(g)
    /\ allowRequest
    /\ failures' = IF state' = "HalfOpen" THEN 0 ELSE failures
    /\ admitted' = [admitted EXCEPT ![g] = clock]
    /\ UNCHANGED <<lastFailTime, clock>>

\* First half of Call.  A call that allowRequest refuses returns an error and
\* changes nothing: it is a stuttering step.
Call(g) ==
    /\ ~Running(g)
    /\ allowRequest
    /\ admitted' = [admitted EXCEPT ![g] = clock]
    /\ UNCHANGED <<failures, lastFailTime, clock>>

\* Second half of Call: fn has returned and its result is recorded.
Return(g, success) ==
    /\ Running(g)
    /\ recordResult(success)
    /\ admitted' = [admitted EXCEPT ![g] = NotRunning]
    /\ UNCHANGED clock

Reset ==
    /\ failures' = 0
    /\ state' = "Closed"
    /\ lastFailTime' = ZeroTime
    /\ UNCHANGED <<clock, admitted>>

Tick ==
    /\ clock < MaxTime
    /\ clock' = clock + 1
    /\ UNCHANGED <<state, failures, lastFailTime, admitted>>

Next ==
    \/ \E g \in Callers : Call(g)
    \/ \E g \in Callers, success \in BOOLEAN : Return(g, success)
    \/ Reset
    \/ Tick

Spec == Init /\ [][Next]_vars

\* Time passes, protected functions return, and goroutines keep calling.
Fairness ==
    /\ WF_vars(Tick)
    /\ \A g \in Callers : /\ WF_vars(Call(g))
                          /\ WF_vars(\E success \in BOOLEAN : Return(g, success))

FairSpec == Spec /\ Fairness

-----------------------------------------------------------------------------
TypeOK ==
    /\ state \in CircuitState
    /\ failures \in Nat
    /\ lastFailTime \in Int
    /\ clock \in Nat
    /\ admitted \in [Callers -> Int]

\* No timestamp lies in the future, and admission times are clock readings.
Timestamps ==
    /\ lastFailTime <= clock
    /\ state # "Closed" => lastFailTime >= 0
    /\ \A g \in Callers : admitted[g] <= clock

\* The circuit is closed exactly while fewer than maxFailures failures are on
\* record, however the results of overlapping calls are interleaved: only
\* recordResult and Reset move the counter, and HalfOpen keeps it.
ClosedIffBelowThreshold == state = "Closed" <=> failures < MaxFailures

\* Since the last recorded failure of a tripped circuit, no call was admitted
\* before resetTimeout had passed: everything in flight was admitted before
\* that failure, or after the whole timeout and then only when half open.
QuietPeriod ==
    state # "Closed" =>
        \A g \in Callers : Running(g) =>
            \/ admitted[g] <= lastFailTime
            \/ /\ state = "HalfOpen"
               /\ admitted[g] > lastFailTime + ResetTimeout

\* The inductive invariant behind the theorems of CircuitBreakerProofs.
IndInv ==
    /\ TypeOK
    /\ Timestamps
    /\ ClosedIffBelowThreshold
    /\ QuietPeriod
    /\ state = "HalfOpen" => clock > lastFailTime + ResetTimeout

\* One failure while half open trips the circuit again; a probe never needs
\* maxFailures fresh failures, because allowRequest does not clear failures.
FailedProbeReopens ==
    [][state = "HalfOpen" /\ failures' > failures => state' = "Open"]_vars

\* A tripped circuit does not stay tripped for good: once resetTimeout has
\* passed since its last failure, some call is let through again (unless the
\* model's clock ends first).
TripEnds == lastFailTime + ResetTimeout < MaxTime
OpenCircuitProbes ==
    (state = "Open" /\ TripEnds) ~> (state # "Open" \/ ~TripEnds)

=============================================================================
