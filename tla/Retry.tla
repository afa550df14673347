-------------------------------- MODULE Retry --------------------------------
(***************************************************************************)
(* WithTimeout, WithDeadline and WithRetry of pkg/timeout/timeout.go: one  *)
(* WithRetry whose fn runs some work under WithTimeout, or under           *)
(* WithDeadline with one deadline for all attempts.  Every attempt has a   *)
(* context, a goroutine that runs the work and a channel with room for one *)
(* result.  The work may take any time, ignore its context or never end.   *)
(***************************************************************************)
EXTENDS Integers

CONSTANTS
    RetryConfigs,    \* the RetryConfigs to look at
    AttemptLimit     \* bound of the model: the largest MaxAttempts

\* Multiplier is a fraction, <<numerator, denominator>>.
ASSUME RetryAssumption ==
    /\ AttemptLimit \in Nat
    /\ \A c \in RetryConfigs :
          /\ c.MaxAttempts \in 0 .. AttemptLimit
          /\ c.InitialDelay \in Nat /\ c.MaxDelay \in Nat
          /\ c.Multiplier \in Nat \X (Nat \ {0})

VARIABLES
    config,          \* config
    wrapper,         \* "timeout" or "deadline": what fn wraps the work in
    at,              \* where WithRetry is
    attempt,         \* attempt
    delay,           \* delay
    result,          \* what WithRetry returned
    cancelled,       \* the caller's ctx is done
    passed,          \* the deadline given to WithDeadline is over
    try,             \* for each attempt its context, goroutine and channel
    tooLate          \* history: attempts begun after ctx was done

retryVars == <<config, wrapper, at, attempt, delay, result, cancelled, passed,
               try, tooLate>>

Attempts == 1 .. AttemptLimit

\* ctx: the attempt's context.  work: its goroutine.  done: the channel.
\* outcome: what the work returned.  gaveUp: the select took ctx.Done().
NotTried == [ctx |-> "none", work |-> "none", done |-> "empty", outcome |-> "none",
             gaveUp |-> FALSE]

RetryInit ==
    /\ config \in RetryConfigs
    /\ wrapper \in {"timeout", "deadline"}
    /\ at = "loop" /\ attempt = 1
    /\ delay = config.InitialDelay
    /\ result = "none"
    /\ cancelled \in BOOLEAN
    /\ passed \in {FALSE, wrapper = "deadline"}
    /\ try = [k \in Attempts |-> NotTried]
    /\ tooLate = 0

Returned(r) == at' = "returned" /\ result' = r

-----------------------------------------------------------------------------
\* The loop's condition.  With MaxAttempts 0 lastErr is nil.
LoopEnds ==
    /\ at = "loop" /\ attempt > config.MaxAttempts
    /\ Returned(IF attempt = 1 THEN "nil" ELSE "lastErr")
    /\ UNCHANGED <<config, wrapper, attempt, delay, cancelled, passed, try, tooLate>>

\* A context derived from one that is done, or with a deadline that is over,
\* is done at once.
NewContext ==
    IF cancelled THEN "cancelled"
    ELSE IF wrapper = "deadline" /\ passed THEN "deadline" ELSE "live"

\* fn(ctx): WithTimeout or WithDeadline up to its select.
BeginAttempt ==
    /\ at' = "select"
    /\ try' = [try EXCEPT ![attempt] = [@ EXCEPT !.ctx = NewContext, !.work = "running"]]
    /\ tooLate' = IF cancelled THEN tooLate + 1 ELSE tooLate

FirstAttempt ==
    /\ at = "loop" /\ attempt = 1 /\ attempt <= config.MaxAttempts
    /\ BeginAttempt
    /\ UNCHANGED <<config, wrapper, attempt, delay, result, cancelled, passed>>

BeginWait ==
    /\ at = "loop" /\ attempt > 1 /\ attempt <= config.MaxAttempts
    /\ at' = "wait"
    /\ UNCHANGED <<config, wrapper, attempt, delay, result, cancelled, passed, try, tooLate>>

NextDelay ==
    LET d == (delay * config.Multiplier[1]) \div config.Multiplier[2]
    IN  IF d > config.MaxDelay THEN config.MaxDelay ELSE d

\* case <-time.After(delay)
WaitElapsed ==
    /\ at = "wait"
    /\ delay' = NextDelay
    /\ BeginAttempt
    /\ UNCHANGED <<config, wrapper, attempt, result, cancelled, passed>>

\* case <-ctx.Done()
WaitCancelled ==
    /\ at = "wait" /\ cancelled
    /\ Returned("cancelled")
    /\ UNCHANGED <<config, wrapper, attempt, delay, cancelled, passed, try, tooLate>>

-----------------------------------------------------------------------------
\* The work's goroutine: fn(ctx) returns ...
WorkReturns(k, r) ==
    /\ try[k].work = "running"
    /\ try' = [try EXCEPT ![k] = [@ EXCEPT !.work = "sending", !.outcome = r]]
    /\ UNCHANGED <<config, wrapper, at, attempt, delay, result, cancelled, passed, tooLate>>

\* Mutant of Send: the channel has no room and needs a receiver.
Send_Unbuffered(k) ==
    /\ try[k].work = "sending" /\ try[k].done = "empty"
    /\ at = "select" /\ attempt = k
    /\ try' = [try EXCEPT ![k] = [@ EXCEPT !.work = "ended", !.done = try[k].outcome]]
    /\ UNCHANGED <<config, wrapper, at, attempt, delay, result, cancelled, passed, tooLate>>

\* ... and its result goes into the channel.
Send(k) ==
    /\ try[k].work = "sending" /\ try[k].done = "empty"
    /\ try' = [try EXCEPT ![k] = [@ EXCEPT !.work = "ended", !.done = try[k].outcome]]
    /\ UNCHANGED <<config, wrapper, at, attempt, delay, result, cancelled, passed, tooLate>>

\* Mutant of Cancelled: cancel is not deferred.
Cancelled_Forgotten(ctx) == ctx

\* The deferred cancel, and what a cancelled ctx does to the contexts below it.
Cancelled(ctx) == IF ctx = "live" THEN "cancelled" ELSE ctx

\* Mutant of SelectResult: any result is taken for a failure.
SelectResult_AlwaysRetries ==
    /\ at = "select" /\ try[attempt].done # "empty"
    /\ try' = [try EXCEPT ![attempt] =
                  [@ EXCEPT !.ctx = Cancelled(try[attempt].ctx), !.done = "empty"]]
    /\ at' = "check" /\ UNCHANGED result
    /\ UNCHANGED <<config, wrapper, attempt, delay, cancelled, passed, tooLate>>

\* case err := <-done: the attempt ends, and with a nil WithRetry does too.
SelectResult ==
    /\ at = "select" /\ try[attempt].done # "empty"
    /\ try' = [try EXCEPT ![attempt] =
                  [@ EXCEPT !.ctx = Cancelled(try[attempt].ctx), !.done = "empty"]]
    /\ \/ try[attempt].done = "nil" /\ Returned("nil")
       \/ try[attempt].done = "err" /\ at' = "check" /\ UNCHANGED result
    /\ UNCHANGED <<config, wrapper, attempt, delay, cancelled, passed, tooLate>>

\* Mutant of SelectDone: only a deadline is noticed.
SelectDone_DeadlineOnly ==
    /\ at = "select" /\ try[attempt].ctx = "deadline"
    /\ try' = [try EXCEPT ![attempt].gaveUp = TRUE]
    /\ at' = "check"
    /\ UNCHANGED <<config, wrapper, attempt, delay, result, cancelled, passed, tooLate>>

\* case <-ctx.Done(): the attempt fails, a timeout or "context cancelled".
SelectDone ==
    /\ at = "select" /\ try[attempt].ctx # "live"
    /\ try' = [try EXCEPT ![attempt].gaveUp = TRUE]
    /\ at' = "check"
    /\ UNCHANGED <<config, wrapper, attempt, delay, result, cancelled, passed, tooLate>>

\* After a failed attempt: return if ctx is done, or go round the loop.
Check ==
    /\ at = "check"
    /\ \/ cancelled /\ Returned("cancelled") /\ UNCHANGED attempt
       \/ ~cancelled /\ at' = "loop" /\ attempt' = attempt + 1 /\ UNCHANGED result
    /\ UNCHANGED <<config, wrapper, delay, cancelled, passed, try, tooLate>>

-----------------------------------------------------------------------------
\* The timeout of one attempt, or the deadline of all of them.
Expire(k) ==
    /\ try[k].ctx = "live"
    /\ try' = [try EXCEPT ![k].ctx = "deadline"]
    /\ passed' = (passed \/ wrapper = "deadline")
    /\ UNCHANGED <<config, wrapper, at, attempt, delay, result, cancelled, tooLate>>

\* The deadline is over while no attempt runs.
DeadlinePasses ==
    /\ wrapper = "deadline" /\ ~passed /\ at # "returned"
    /\ \A k \in Attempts : try[k].ctx # "live"
    /\ passed' = TRUE
    /\ UNCHANGED <<config, wrapper, at, attempt, delay, result, cancelled, try, tooLate>>

\* The caller's context is cancelled.
Cancel ==
    /\ ~cancelled /\ at # "returned"
    /\ cancelled' = TRUE
    /\ try' = [k \in Attempts |->
                 [try[k] EXCEPT !.ctx = IF @ = "live" THEN "cancelled" ELSE @]]
    /\ UNCHANGED <<config, wrapper, at, attempt, delay, result, passed, tooLate>>

\* The steps of WithRetry itself.
RetryStep ==
    \/ LoopEnds \/ FirstAttempt \/ BeginWait \/ WaitElapsed \/ WaitCancelled
    \/ SelectResult \/ SelectDone \/ Check

RetryNext ==
    \/ RetryStep
    \/ \E k \in Attempts :
          \/ \E r \in {"nil", "err"} : WorkReturns(k, r)
          \/ Send(k) \/ Expire(k)
    \/ DeadlinePasses \/ Cancel

\* Goroutines run and timers fire.  Nothing is assumed of the work: it may
\* never return.
RetryFairness ==
    /\ WF_retryVars(RetryStep)
    /\ \A k \in Attempts : WF_retryVars(Send(k)) /\ WF_retryVars(Expire(k))

RetrySpec == RetryInit /\ [][RetryNext]_retryVars /\ RetryFairness

-----------------------------------------------------------------------------
\* WithRetry returns nil only if the work of its last attempt returned nil, or
\* if MaxAttempts is 0 and nothing was tried.  Work that returned nil is done
\* again only if its context ended before the select saw the result.
NilMeansDone ==
    /\ result = "nil" =>
          \/ config.MaxAttempts = 0
          \/ try[attempt].outcome = "nil" /\ ~try[attempt].gaveUp
    /\ \A k \in Attempts : k < attempt /\ try[k].outcome = "nil" => try[k].gaveUp

\* At most one attempt's context is live, and none while WithRetry waits or
\* after it returned: the work of earlier attempts that still runs has been
\* told to stop.  Once the caller's context is done at most one more attempt
\* begins, however the selects choose: the one for which the wait ended at the
\* same time, or the first.
OneLiveAttempt ==
    /\ \A j, k \in Attempts : try[j].ctx = "live" /\ try[k].ctx = "live" => j = k
    /\ at # "select" => \A k \in Attempts : try[k].ctx # "live"
    /\ tooLate <= 1

\* A WithRetry that has begun returns although the work may ignore its context for ever.
RetryReturns == (\E k \in Attempts : try[k].ctx # "none") ~> at = "returned"

\* A goroutine whose work has ended gets rid of the result and ends, although
\* WithTimeout may have returned long before: the channel has room.
NoLeak == \A k \in Attempts : try[k].work = "sending" ~> try[k].work = "ended"

=============================================================================
