------------------------------ MODULE MCServer ------------------------------
(***************************************************************************)
(* A proxy program: the life cycle of its server, and one request.  The    *)
(* two share nothing but the number of requests in flight: a behaviour     *)
(* follows one of them and leaves the other alone.                         *)
(***************************************************************************)
EXTENDS MCServerLifecycle, ProxyRequest

VARIABLE part       \* what this behaviour is about

serverVars == <<part, vars, requestVars>>

InLifecycle(A) == part = "lifecycle" /\ A /\ UNCHANGED <<part, requestVars>>
InRequest(A) == part = "request" /\ A /\ UNCHANGED <<part, vars>>

ServerInit ==
    /\ part \in {"lifecycle", "request"}
    /\ Init /\ RequestInit
    /\ part = "lifecycle" => framing = "length" /\ upstreamLength = CHOOSE n \in BodyLengths : TRUE

ServerNext == InLifecycle(Next) \/ InRequest(RequestNext)

\* Fairness and RequestFairness, each for its part.
ServerFairness ==
    /\ WF_vars(part = "lifecycle" /\ MainStep)
    /\ \A s \in Services : WF_vars(part = "lifecycle" /\ ServiceStep(s))
    /\ \A l \in Listeners : WF_vars(part = "lifecycle" /\ ServeStep(l))
    /\ WF_requestVars(part = "request" /\ HandlerStep)
    /\ WF_requestVars(part = "request" /\ TimeoutPasses)

ServerSpec == ServerInit /\ [][ServerNext]_serverVars /\ ServerFairness

=============================================================================
