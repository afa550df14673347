-------------------------- MODULE ConcurrencyLimiter --------------------------
(***************************************************************************)
(* ConcurrencyLimiter of pkg/limits/limiter.go.  An Acquire that finds no  *)
(* free slot starts a helper goroutine that calls cond.Wait(), and itself  *)
(* unlocks cl.mu before its select.  cond.Wait() also unlocks cl.mu, and   *)
(* locks it again before it returns.  A Go mutex does not know its owner:  *)
(* Unlock frees whoever holds it, and is a fatal error if nobody does.     *)
(*                                                                         *)
(* A critical section is a step that takes the lock and a step with its    *)
(* body and the deferred Unlock.  Once a helper has broken the mutual      *)
(* exclusion, bodies may race in ways finer than these steps; no property  *)
(* below speaks about the counter after that.                              *)
(***************************************************************************)
EXTENDS Integers, Sequences, FiniteSets

CONSTANTS
    Callers,        \* goroutines that use the limiter
    limit,          \* limit of NewConcurrencyLimiter
    MaxHelpers      \* bound of the model: helper goroutines there can be

ASSUME LimiterAssumption == limit \in Nat /\ MaxHelpers \in Nat

VARIABLES
    locked,         \* cl.mu
    current,        \* cl.current
    notify,         \* cl.cond: the helpers to be signalled, in order
    pc,             \* where each caller is
    helper,         \* helper[h]: where helper h is
    done,           \* done[g]: the helper whose done channel g waits for
    fatal,          \* "fatal error: sync: unlock of unlocked mutex"
    slots,          \* history: callers that have a slot
    waited          \* history: an Acquire has found no free slot

vars == <<locked, current, notify, pc, helper, done, fatal, slots, waited>>

Helpers == 1 .. MaxHelpers

-----------------------------------------------------------------------------
\* NewConcurrencyLimiter
Init ==
    /\ locked = FALSE
    /\ current = 0
    /\ notify = <<>>
    /\ pc = [g \in Callers |-> "idle"]
    /\ helper = [h \in Helpers |-> "none"]
    /\ done = [g \in Callers |-> 0]
    /\ fatal = FALSE
    /\ slots = {}
    /\ waited = FALSE

\* sync.Mutex (external)
Lock == ~fatal /\ ~locked /\ locked' = TRUE /\ UNCHANGED fatal
Unlock ==
    /\ ~fatal
    /\ locked' = FALSE
    /\ fatal' = ~locked

\* sync.Cond.Signal (external): the first in line will return from Wait.
Signal ==
    \/ /\ notify = <<>>
       /\ UNCHANGED <<notify, helper>>
    \/ /\ notify # <<>>
       /\ notify' = Tail(notify)
       /\ helper' = [helper EXCEPT ![Head(notify)] =
                       IF @ = "added" THEN "signalled" ELSE "wake"]

Go(g, from, to) == pc[g] = from /\ pc' = [pc EXCEPT ![g] = to]

\* The mutex is taken at the start of Acquire, TryAcquire and Release.
Begin(g, body) ==
    /\ Go(g, "idle", body)
    /\ (body = "release") <=> (g \in slots)
    /\ Lock
    /\ UNCHANGED <<current, notify, helper, done, slots, waited>>

\* Mutant of HasRoom: one slot too many.
HasRoom_OffByOne == current <= limit

\* The condition of TryAcquire, and of Acquire's loop negated.
HasRoom == current < limit

\* The end of Acquire and TryAcquire with a slot.
Take(g) ==
    /\ current' = current + 1
    /\ slots' = slots \cup {g}
    /\ Unlock

\* Acquire: the loop's test with a free slot, cl.current++ and return.
AcquireTake(g) ==
    /\ Go(g, "acquire", "idle")
    /\ HasRoom
    /\ Take(g)
    /\ UNCHANGED <<notify, helper, done, waited>>

\* Acquire: no free slot, start the helper.
AcquireSpawn(g) ==
    /\ Go(g, "acquire", "unlock")
    /\ ~HasRoom
    /\ ~fatal
    /\ \E h \in Helpers :
          /\ helper[h] = "none" /\ \A i \in 1 .. h - 1 : helper[i] # "none"
          /\ helper' = [helper EXCEPT ![h] = "spawned"]
          /\ done' = [done EXCEPT ![g] = h]
    /\ waited' = TRUE
    /\ UNCHANGED <<locked, current, notify, fatal, slots>>

\* Acquire: cl.mu.Unlock() before the select.
AcquireUnlock(g) ==
    /\ Go(g, "unlock", "select")
    /\ Unlock
    /\ UNCHANGED <<current, notify, helper, done, slots, waited>>

\* Acquire: case <-done, and cl.mu.Lock()
AcquireWoken(g) ==
    /\ Go(g, "select", "acquire")
    /\ helper[done[g]] = "done"
    /\ Lock
    /\ done' = [done EXCEPT ![g] = 0]
    /\ UNCHANGED <<current, notify, helper, slots, waited>>

\* Acquire: case <-ctx.Done(), cl.mu.Lock()
AcquireCancelled(g) ==
    /\ Go(g, "select", "cancel")
    /\ Lock
    /\ done' = [done EXCEPT ![g] = 0]
    /\ UNCHANGED <<current, notify, helper, slots, waited>>

\* Acquire: return the context's error; the helper stays behind.
AcquireError(g) ==
    /\ Go(g, "cancel", "idle")
    /\ Unlock
    /\ UNCHANGED <<current, notify, helper, done, slots, waited>>

TryAcquire(g) ==
    /\ Go(g, "try", "idle")
    /\ \/ HasRoom /\ Take(g)
       \/ ~HasRoom /\ Unlock /\ UNCHANGED <<current, slots>>
    /\ UNCHANGED <<notify, helper, done, waited>>

\* Release: with nothing counted it does nothing.
Release(g) ==
    /\ Go(g, "release", "idle")
    /\ slots' = slots \ {g}
    /\ IF current > 0 THEN current' = current - 1 /\ Signal
                      ELSE UNCHANGED <<current, notify, helper>>
    /\ Unlock
    /\ UNCHANGED <<done, waited>>

\* sync.Cond.Wait in the helper (external): get in line ...
WaitAdd(h) ==
    /\ ~fatal
    /\ helper[h] = "spawned"
    /\ helper' = [helper EXCEPT ![h] = "added"]
    /\ notify' = Append(notify, h)
    /\ UNCHANGED <<locked, current, pc, done, fatal, slots, waited>>

\* ... c.L.Unlock() ...
WaitUnlock(h) ==
    /\ helper[h] \in {"added", "signalled"}
    /\ helper' = [helper EXCEPT ![h] = IF @ = "added" THEN "wait" ELSE "wake"]
    /\ Unlock
    /\ UNCHANGED <<current, notify, pc, done, slots, waited>>

\* ... and, once signalled, c.L.Lock(); the helper closes done and ends.
WaitReturn(h) ==
    /\ helper[h] = "wake"
    /\ helper' = [helper EXCEPT ![h] = "done"]
    /\ Lock
    /\ UNCHANGED <<current, notify, pc, done, slots, waited>>

Next ==
    \/ \E g \in Callers :
          \/ \E body \in {"acquire", "try", "release"} : Begin(g, body)
          \/ AcquireTake(g) \/ AcquireSpawn(g) \/ AcquireUnlock(g)
          \/ AcquireWoken(g) \/ AcquireCancelled(g) \/ AcquireError(g)
          \/ TryAcquire(g) \/ Release(g)
    \/ \E h \in Helpers : WaitAdd(h) \/ WaitUnlock(h) \/ WaitReturn(h)

Spec == Init /\ [][Next]_vars

-----------------------------------------------------------------------------
\* Until an Acquire has to wait, the count is the number of callers that have
\* a slot, never above the limit, and the mutex is used as a mutex.
SlotsCounted ==
    ~waited =>
        /\ current = Cardinality(slots)
        /\ current <= limit
        /\ ~fatal
        /\ Cardinality({g \in Callers : pc[g] # "idle"}) <= 1

\* README.md:21, "Thread-safe operations across all components": an Acquire
\* at the limit waits and does not bring the process down.
AcquireIsSafe == ~fatal

=============================================================================
