---------------------------- MODULE MultiLimiter ----------------------------
(***************************************************************************)
(* MultiLimiter of pkg/limits/limiter.go over a token bucket and a sliding *)
(* window, in either order.  AllowN and WaitN go through the limiters one  *)
(* after the other, without a lock around them, so calls overlap between   *)
(* two limiters; a limiter that has admitted a call gets nothing back when *)
(* a later one refuses it.  The limiters are RateLimiters' own, at work    *)
(* for kind = "multi"; `admitted' is then what came through all of them.   *)
(***************************************************************************)
EXTENDS RateLimiters

CONSTANTS
    Callers,         \* goroutines that use the MultiLimiter
    MultiN,          \* bound of the model: n of a MultiLimiter's calls
    MultiTime        \* bound of the model: the clock for a MultiLimiter

ASSUME MultiAssumption ==
    MultiN \in Nat /\ MultiTime \in 0 .. MaxTime /\ IsFiniteSet(Callers)

VARIABLES
    chain,           \* ml.limiters
    at,              \* at[c]: index of the limiter c calls, 0 outside a call
    wants,           \* wants[c]: the argument n of c's call
    waits,           \* waits[c]: whether c's call is a WaitN
    bucketGave,      \* history: what the token bucket admitted before t
    slidingGave      \* history: what the sliding window admitted before t

callVars == <<at, wants, waits>>
gaveVars == <<bucketGave, slidingGave>>
multiVars == <<vars, chain, callVars, gaveVars>>

Bucket == INSTANCE RateLimiters WITH kind <- "token_bucket", admitted <- bucketGave
Sliding == INSTANCE RateLimiters WITH kind <- "sliding_window", admitted <- slidingGave

\* NewMultiLimiter
MultiInit ==
    /\ Init
    /\ chain \in IF kind = "multi"
                 THEN {<<"token_bucket", "sliding_window">>, <<"sliding_window", "token_bucket">>}
                 ELSE {<<>>}
    /\ at = [c \in Callers |-> 0]
    /\ wants = [c \in Callers |-> 0]
    /\ waits = [c \in Callers |-> FALSE]
    /\ bucketGave = admitted /\ slidingGave = admitted

-----------------------------------------------------------------------------
\* AllowN(n) or WaitN(ctx, n) is called; Allow and Wait are those with 1.
Begin(c, n, wait) ==
    /\ kind = "multi" /\ at[c] = 0
    /\ at' = [at EXCEPT ![c] = 1]
    /\ wants' = [wants EXCEPT ![c] = n]
    /\ waits' = [waits EXCEPT ![c] = wait]
    /\ UNCHANGED <<vars, chain, gaveVars>>

\* The call of c returns, with or without success.
Return(c) ==
    /\ at' = [at EXCEPT ![c] = 0]
    /\ wants' = [wants EXCEPT ![c] = 0]
    /\ waits' = [waits EXCEPT ![c] = FALSE]

\* limiter.AllowN(n) of the limiter c has come to, also as a try of its WaitN.
LimiterAllowN(c) ==
    IF chain[at[c]] = "token_bucket"
    THEN Bucket!BucketAllowN(wants[c]) /\ UNCHANGED slidingGave
    ELSE Sliding!SlidingAllowN(wants[c]) /\ UNCHANGED bucketGave

\* Mutant of Passed: one limiter that admits the call is enough.
Passed_Any(c) == Return(c) /\ Admit(wants[c])

\* The limiter admits the call of c: on to the next one, or the call returns.
Passed(c) ==
    IF at[c] < Len(chain)
    THEN at' = [at EXCEPT ![c] = @ + 1] /\ UNCHANGED <<wants, waits, admitted>>
    ELSE Return(c) /\ Admit(wants[c])

\* The limiter refuses: AllowN returns false, WaitN tries again later.
Refused(c) ==
    /\ IF waits[c] THEN UNCHANGED callVars ELSE Return(c)
    /\ UNCHANGED admitted

\* The body of the loop over ml.limiters.
TryLimiter(c) ==
    /\ at[c] > 0
    /\ LimiterAllowN(c)
    /\ \/ gaveVars' # gaveVars /\ Passed(c)
       \/ gaveVars' = gaveVars /\ Refused(c)
    /\ UNCHANGED <<kind, chain>>

\* TokenBucket.WaitN works out how long to wait: calculateWaitTime refills.
WaitTime(c) ==
    /\ at[c] > 0 /\ waits[c]
    /\ chain[at[c]] = "token_bucket"
    /\ Bucket!GetTokens
    /\ UNCHANGED <<kind, admitted, chain, callVars, slidingGave>>

\* A limiter's WaitN returns the error of its context.
WaitEnds(c) ==
    /\ at[c] > 0 /\ waits[c]
    /\ Return(c)
    /\ UNCHANGED <<vars, chain, gaveVars>>

MultiNext ==
    \/ /\ kind = "multi" => clock < MultiTime
       /\ Next
       /\ UNCHANGED <<chain, callVars, gaveVars>>
    \/ \E c \in Callers :
          \/ \E n \in 1 .. MultiN, wait \in BOOLEAN : Begin(c, n, wait)
          \/ TryLimiter(c) \/ WaitTime(c) \/ WaitEnds(c)

MultiSpec == MultiInit /\ [][MultiNext]_multiVars

-----------------------------------------------------------------------------
\* What may come through in an interval although the limiter admitted it
\* before: one call of each caller, unless the limiter is the last.
Slack(limiter) ==
    IF chain[Len(chain)] = limiter THEN 0 ELSE MultiN * Cardinality(Callers)

\* What comes through a MultiLimiter keeps to the bounds of every limiter, the
\* last one's exactly, the others' up to the calls that wait between two
\* limiters at the time.
MultiBound ==
    kind = "multi" =>
        \A s \in Times :
            /\ Used(s, Min({s + window - 1, MaxTime})) <= limit + Slack("sliding_window")
            /\ \A t \in s .. MaxTime :
                  Used(s, t) <= capacity + Slack("token_bucket")
                                 + refillRate * (((t - s) \div TicksPerSecond) + 1)

=============================================================================
