---------------------------- MODULE RateLimiters ----------------------------
(***************************************************************************)
(* TokenBucket, SlidingWindowLimiter and FixedWindowLimiter of             *)
(* pkg/limits/limiter.go.  Every operation holds the limiter's mutex       *)
(* throughout and is one step; Wait and WaitN are AllowN again and again.  *)
(* Time is counted in ticks, TicksPerSecond to the second: the token       *)
(* bucket's refill pays for whole seconds only and then forgets the rest   *)
(* of the elapsed time.                                                    *)
(***************************************************************************)
EXTENDS Integers, Sequences, FiniteSetsExt, Ordering

CONSTANTS
    Kinds,                  \* the limiters to look at; "multi" is in MultiLimiter
    capacity, refillRate,   \* the arguments of NewTokenBucket
    limit, window,          \* the arguments of the two window limiters
    TicksPerSecond,
    MaxN,                   \* bound of the model: n of AllowN
    MaxTime                 \* bound of the model: the clock stops here

\* calculateWaitTime divides by refillRate.
ASSUME LimiterAssumption ==
    /\ Kinds \subseteq {"token_bucket", "sliding_window", "fixed_window", "multi"}
    /\ capacity \in Nat /\ refillRate \in Nat \ {0}
    /\ limit \in Nat /\ window \in Nat \ {0}
    /\ TicksPerSecond \in Nat \ {0} /\ MaxN \in Nat /\ MaxTime \in Nat

VARIABLES
    kind,           \* which limiter this is; it never changes
    tokens,         \* tb.tokens
    lastRefill,     \* tb.lastRefill
    requests,       \* sw.requests
    count,          \* fw.count
    windowStart,    \* fw.windowStart
    clock,          \* time.Now()
    admitted,       \* history: admitted[t], requests admitted before time t
    full,           \* history: the time at which the bucket was last full
    spent           \* history: tokens handed out since then

tbVars == <<tokens, lastRefill, full, spent>>
swVars == <<requests>>
fwVars == <<count, windowStart>>
vars == <<kind, tbVars, swVars, fwVars, clock, admitted>>

Times == 0 .. MaxTime
Bounds == 0 .. MaxTime + 1

\* NewTokenBucket, NewSlidingWindowLimiter, NewFixedWindowLimiter
Init ==
    /\ kind \in Kinds
    /\ tokens = capacity /\ lastRefill = 0
    /\ requests = <<>>
    /\ count = 0 /\ windowStart = 0
    /\ clock = 0
    /\ admitted = [t \in Bounds |-> 0]
    /\ full = 0 /\ spent = 0

Admit(n) ==
    admitted' = [t \in Bounds |-> IF t > clock THEN admitted[t] + n ELSE admitted[t]]

-----------------------------------------------------------------------------
\* int64(elapsed.Seconds()) * tb.refillRate
tokensToAdd == ((clock - lastRefill) \div TicksPerSecond) * refillRate

\* Mutant of Refilled: time that was already paid for is paid for again.
Refilled_FromStart == Min({capacity, tokens + (clock \div TicksPerSecond) * refillRate})

\* The number of tokens refill leaves.
Refilled == Min({capacity, tokens + tokensToAdd})

\* Mutant of refillTime: lastRefill moves even when nothing was added.
refillTime_Always == clock

\* lastRefill after refill.
refillTime == IF tokensToAdd > 0 THEN clock ELSE lastRefill

\* refill, and n tokens are taken after it.
RefillAndTake(n) ==
    /\ tokens' = Refilled - n
    /\ lastRefill' = refillTime
    /\ full' = IF Refilled = capacity THEN clock ELSE full
    /\ spent' = IF Refilled = capacity THEN n ELSE spent + n
    /\ UNCHANGED <<kind, swVars, fwVars, clock>>

\* TokenBucket.AllowN; Allow is AllowN(1).
BucketAllowN(n) ==
    /\ kind = "token_bucket"
    /\ \/ Refilled >= n /\ RefillAndTake(n) /\ Admit(n)
       \/ Refilled < n /\ RefillAndTake(0) /\ UNCHANGED admitted

\* GetTokens, and the calculateWaitTime of a WaitN: only refill.
GetTokens ==
    /\ kind = "token_bucket"
    /\ RefillAndTake(0)
    /\ UNCHANGED admitted

-----------------------------------------------------------------------------
\* The requests after sw.cleanup(now).
cleanup ==
    LET valid == {i \in DOMAIN requests : requests[i] > clock - window}
    IN  [n \in 1 .. Cardinality(valid) |-> requests[InOrder(valid)[n]]]

\* Mutant of SlidingAllowN: refused requests are remembered too.
SlidingAllowN_KeepsRefused(n) ==
    /\ kind = "sliding_window"
    /\ requests' = cleanup \o [i \in 1 .. n |-> clock]
    /\ IF Len(cleanup) + n <= limit THEN Admit(n) ELSE UNCHANGED admitted
    /\ UNCHANGED <<kind, tbVars, fwVars, clock>>

\* SlidingWindowLimiter.AllowN; Allow is AllowN(1).
SlidingAllowN(n) ==
    /\ kind = "sliding_window"
    /\ \/ /\ Len(cleanup) + n <= limit
          /\ requests' = cleanup \o [i \in 1 .. n |-> clock]
          /\ Admit(n)
       \/ /\ Len(cleanup) + n > limit
          /\ requests' = cleanup
          /\ UNCHANGED admitted
    /\ UNCHANGED <<kind, tbVars, fwVars, clock>>

\* SlidingWindowLimiter.GetCurrentCount
SlidingCount ==
    /\ kind = "sliding_window"
    /\ requests' = cleanup
    /\ UNCHANGED <<kind, tbVars, fwVars, clock, admitted>>

-----------------------------------------------------------------------------
\* Mutant of FixedAllowN: a new window is not given its start.
FixedAllowN_KeepsStart(n) ==
    LET counted == IF clock - windowStart >= window THEN 0 ELSE count IN
    /\ kind = "fixed_window"
    /\ \/ counted + n <= limit /\ count' = counted + n /\ Admit(n)
       \/ counted + n > limit /\ count' = counted /\ UNCHANGED admitted
    /\ UNCHANGED <<kind, windowStart, tbVars, swVars, clock>>

\* FixedWindowLimiter.AllowN; Allow is AllowN(1).  GetCurrentCount and
\* GetTimeToReset change nothing.
FixedAllowN(n) ==
    LET expired == clock - windowStart >= window
        counted == IF expired THEN 0 ELSE count IN
    /\ kind = "fixed_window"
    /\ windowStart' = IF expired THEN clock ELSE windowStart
    /\ \/ counted + n <= limit /\ count' = counted + n /\ Admit(n)
       \/ counted + n > limit /\ count' = counted /\ UNCHANGED admitted
    /\ UNCHANGED <<kind, tbVars, swVars, clock>>

-----------------------------------------------------------------------------
Tick ==
    /\ clock < MaxTime
    /\ clock' = clock + 1
    /\ UNCHANGED <<kind, tbVars, swVars, fwVars, admitted>>

Next ==
    \/ \E n \in 1 .. MaxN : BucketAllowN(n) \/ SlidingAllowN(n) \/ FixedAllowN(n)
    \/ GetTokens \/ SlidingCount
    \/ Tick

Spec == Init /\ [][Next]_vars

-----------------------------------------------------------------------------
TypeOK ==
    /\ kind \in Kinds
    /\ tokens \in 0 .. capacity /\ lastRefill \in 0 .. clock
    /\ requests \in Seq(0 .. clock)
    /\ count \in 0 .. limit /\ windowStart \in 0 .. clock
    /\ clock \in Times
    /\ admitted \in [Bounds -> Nat]

\* Requests admitted from time s to time t.
Used(s, t) == admitted[t + 1] - admitted[s]

\* The token bucket: in no interval more is handed out than a full bucket and
\* the refill of the interval's length, a second more because the refill may
\* have started before the interval.
RateBound ==
    kind = "token_bucket" =>
        \A s \in Times : \A t \in s .. MaxTime :
            Used(s, t) <= capacity + refillRate * (((t - s) \div TicksPerSecond) + 1)

\* The token bucket: refill forgets the fraction of a second that is left over
\* whenever it adds tokens, but never more than it pays for.  However often and
\* whenever the bucket is used, it fills at half its rate at least, counted
\* from the first whole second after it was last full.
FillsAtHalfRate ==
    kind = "token_bucket" =>
        Refilled >= Min({capacity,
            capacity - spent
                + refillRate * ((clock - full - TicksPerSecond) \div (2 * TicksPerSecond))})

\* The window limiters: no window, wherever it starts, holds more than the
\* sliding limiter's limit, and none more than twice the fixed limiter's,
\* whose windows start with the first request after the end of the one before.
WindowBound ==
    kind \in {"sliding_window", "fixed_window"} =>
        \A s \in Times :
            Used(s, Min({s + window - 1, MaxTime}))
                <= (IF kind = "sliding_window" THEN limit ELSE 2 * limit)

\* The sliding limiter never refuses without need: what it remembers of the
\* current window is exactly what it admitted in it.
SlidingExact ==
    kind = "sliding_window" =>
        Len(cleanup) = Used(Max({0, clock - window + 1}), clock)

=============================================================================
