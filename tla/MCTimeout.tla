------------------------------ MODULE MCTimeout ------------------------------
(***************************************************************************)
(* The parts of pkg/timeout.  They share nothing: a behaviour follows one  *)
(* of them and leaves the others alone, in one of their initial states.    *)
(***************************************************************************)
EXTENDS CircuitBreaker, Timers, Retry

CONSTANT Parts      \* the parts to look at
VARIABLE part       \* the part this behaviour is about

allVars == <<part, vars, timersVars, retryVars>>

\* MaxAttempts 0; a growing delay that reaches its cap; InitialDelay above it.
SmallConfigs ==
    {[MaxAttempts |-> 0, InitialDelay |-> 1, MaxDelay |-> 1, Multiplier |-> <<1, 1>>],
     [MaxAttempts |-> 3, InitialDelay |-> 2, MaxDelay |-> 5, Multiplier |-> <<3, 2>>],
     [MaxAttempts |-> 3, InitialDelay |-> 3, MaxDelay |-> 2, Multiplier |-> <<2, 1>>]}

TimeoutInit ==
    /\ part \in Parts
    /\ Init /\ TimersInit /\ RetryInit
    /\ part # "retry" => /\ config = CHOOSE c \in RetryConfigs : TRUE
                         /\ wrapper = "timeout" /\ ~cancelled /\ ~passed

InCircuit(A) == part = "circuit" /\ A /\ UNCHANGED <<part, timersVars, retryVars>>
InTimers(p, A) == part = p /\ A /\ UNCHANGED <<part, vars, retryVars>>
InRetry(A) == part = "retry" /\ A /\ UNCHANGED <<part, vars, timersVars>>

TimeoutNext ==
    \/ InCircuit(Next)
    \/ InTimers("timer", SoloNext \/ RuntimeNext)
    \/ InTimers("group", GroupNext \/ RuntimeNext)
    \/ InRetry(RetryNext)

\* The fairness of the part that the behaviour is about: Fairness,
\* TimersFairness or RetryFairness, whose actions the others never take.
TimeoutFairness ==
    /\ WF_vars(part = "circuit" /\ Tick)
    /\ \A g \in Callers :
          /\ WF_vars(part = "circuit" /\ Call(g))
          /\ WF_vars(part = "circuit" /\ \E success \in BOOLEAN : Return(g, success))
    /\ \A t \in AllTimers :
          /\ WF_timersVars(part \in {"timer", "group"} /\ Fire(t))
          /\ WF_timersVars(part \in {"timer", "group"} /\ ClearActive(t))
    /\ WF_retryVars(part = "retry" /\ RetryStep)
    /\ \A k \in Attempts :
          /\ WF_retryVars(part = "retry" /\ Send(k))
          /\ WF_retryVars(part = "retry" /\ Expire(k))

TimeoutSpec == TimeoutInit /\ [][TimeoutNext]_allVars /\ TimeoutFairness

=============================================================================
