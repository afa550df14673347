------------------------------- MODULE Timers -------------------------------
(***************************************************************************)
(* Timer and TimeoutGroup of pkg/timeout/timeout.go.  A Timer starts a     *)
(* runtime timer (time.AfterFunc); when that fires, a goroutine takes t.mu *)
(* to clear active and then calls the callback.  Between the firing and    *)
(* the two steps of that goroutine, any operation may come first.          *)
(* Durations only matter by their order in time: an armed runtime timer    *)
(* may fire at any moment.                                                 *)
(***************************************************************************)
EXTENDS Integers, FiniteSets, Functions

CONSTANTS
    SoloTimers,      \* Timers a program uses by themselves
    GroupTimers,     \* Timers that AddTimer may create
    Names,           \* names in the TimeoutGroup
    Resetters,       \* goroutines that call ResetTimer
    MaxArms          \* bound of the model: Starts and Resets of a Timer

ASSUME TimersAssumption ==
    /\ MaxArms \in Nat
    /\ SoloTimers \cap GroupTimers = {}
    /\ "none" \notin SoloTimers \cup GroupTimers

VARIABLES
    timer,           \* the Timers: active, and what the runtime does for them
    group,           \* tg.timers: name -> Timer or "none"
    created,         \* the group's Timers that exist
    resetting        \* the Timer a ResetTimer has looked up, or "none"

timersVars == <<timer, group, created, resetting>>

AllTimers == SoloTimers \cup GroupTimers

(***************************************************************************)
(* active   t.active                                                       *)
(* current  t.timer, by number; 0 is nil                                   *)
(* armed    the runtime timers that will fire                              *)
(* pending  functions that were fired and wait for t.mu                    *)
(* due      functions that are past t.mu and about to call the callback    *)
(* arms     runtime timers started or reset so far                         *)
(* silenced history: the last Stop returned true, and no Start followed    *)
(* late     history: it was armed again while a function was unfinished    *)
(***************************************************************************)
NewTimer == [active |-> FALSE, current |-> 0, armed |-> {}, pending |-> 0, due |-> 0,
             arms |-> 0, silenced |-> FALSE, late |-> FALSE]

TimersInit ==
    /\ timer = [t \in AllTimers |-> NewTimer]
    /\ group = [n \in Names |-> "none"]
    /\ created = {}
    /\ resetting = [g \in Resetters |-> "none"]

-----------------------------------------------------------------------------
\* The Timer r after Start.
Started(r) ==
    IF r.active THEN r
    ELSE [r EXCEPT !.active = TRUE, !.current = r.arms + 1,
                   !.armed = @ \cup {r.arms + 1}, !.arms = @ + 1,
                   !.silenced = FALSE, !.late = @ \/ r.pending + r.due > 0]

\* Mutant of Stopped: it returns what active was.
Stopped_ReturnsActive(r) ==
    IF ~r.active \/ r.current = 0 THEN r
    ELSE [r EXCEPT !.active = FALSE, !.armed = @ \ {r.current}, !.silenced = TRUE]

\* Mutant of Stopped: the runtime timer goes on.
Stopped_KeepsArmed(r) ==
    IF ~r.active \/ r.current = 0 THEN r
    ELSE [r EXCEPT !.active = FALSE]

\* The Timer r after Stop, which returns whether it stopped the runtime timer.
Stopped(r) ==
    IF ~r.active \/ r.current = 0 THEN r
    ELSE [r EXCEPT !.active = FALSE, !.armed = @ \ {r.current},
                   !.silenced = r.current \in r.armed]

\* Mutant of WasReset: the runtime timer is armed whether active or not.
WasReset_Inactive(r) ==
    IF r.current = 0 THEN r
    ELSE [r EXCEPT !.armed = @ \cup {r.current}, !.arms = @ + 1,
                   !.silenced = FALSE, !.late = @ \/ r.pending + r.due > 0]

\* The Timer r after Reset.  The runtime timer is armed, also if it had fired.
WasReset(r) ==
    IF ~r.active \/ r.current = 0 THEN r
    ELSE [r EXCEPT !.armed = @ \cup {r.current}, !.arms = @ + 1,
                   !.silenced = FALSE, !.late = @ \/ r.pending + r.due > 0]

Apply(t, r) ==
    /\ r.arms <= MaxArms
    /\ timer' = [timer EXCEPT ![t] = r]

TimerStart(t) == Apply(t, Started(timer[t])) /\ UNCHANGED <<group, created, resetting>>
TimerStop(t) == Apply(t, Stopped(timer[t])) /\ UNCHANGED <<group, created, resetting>>
TimerReset(t) == Apply(t, WasReset(timer[t])) /\ UNCHANGED <<group, created, resetting>>

\* The runtime (external): an armed timer fires and its function is started.
Fire(t) ==
    /\ \E k \in timer[t].armed :
          timer' = [timer EXCEPT ![t].armed = @ \ {k}, ![t].pending = @ + 1]
    /\ UNCHANGED <<group, created, resetting>>

\* The function's critical section.  It does not ask whose firing it is.
ClearActive(t) ==
    /\ timer[t].pending > 0
    /\ timer' = [timer EXCEPT ![t].pending = @ - 1, ![t].due = @ + 1, ![t].active = FALSE]
    /\ UNCHANGED <<group, created, resetting>>

\* t.callback(), with no lock held.
Callback(t) ==
    /\ timer[t].due > 0
    /\ timer' = [timer EXCEPT ![t].due = @ - 1]
    /\ UNCHANGED <<group, created, resetting>>

-----------------------------------------------------------------------------
\* AddTimer: stop the Timer of that name, put in a new one and start it.
AddTimer(n) ==
    /\ created # GroupTimers
    /\ LET t == CHOOSE t \in GroupTimers \ created : TRUE IN
       /\ created' = created \cup {t}
       /\ timer' = [s \in AllTimers |->
                      IF s = t THEN Started(timer[s])
                      ELSE IF s = group[n] THEN Stopped(timer[s]) ELSE timer[s]]
       /\ group' = [group EXCEPT ![n] = t]
    /\ UNCHANGED resetting

\* Mutant of RemoveTimer: the Timer is taken out and goes on.
RemoveTimer_NoStop(n) ==
    /\ group[n] # "none"
    /\ group' = [group EXCEPT ![n] = "none"]
    /\ UNCHANGED <<timer, created, resetting>>

RemoveTimer(n) ==
    /\ group[n] # "none"
    /\ timer' = [timer EXCEPT ![group[n]] = Stopped(@)]
    /\ group' = [group EXCEPT ![n] = "none"]
    /\ UNCHANGED <<created, resetting>>

\* ResetTimer: the look-up under tg.mu ...
ResetLookup(g, n) ==
    /\ resetting[g] = "none" /\ group[n] # "none"
    /\ resetting' = [resetting EXCEPT ![g] = group[n]]
    /\ UNCHANGED <<timer, group, created>>

\* ... and the Reset after tg.mu was free.
ResetApply(g) ==
    /\ resetting[g] # "none"
    /\ Apply(resetting[g], WasReset(timer[resetting[g]]))
    /\ resetting' = [resetting EXCEPT ![g] = "none"]
    /\ UNCHANGED <<group, created>>

StopAll ==
    /\ timer' = [t \in AllTimers |-> IF t \in Range(group) THEN Stopped(timer[t]) ELSE timer[t]]
    /\ group' = [n \in Names |-> "none"]
    /\ UNCHANGED <<created, resetting>>

RuntimeNext == \E t \in AllTimers : Fire(t) \/ ClearActive(t) \/ Callback(t)

SoloNext == \E t \in SoloTimers : TimerStart(t) \/ TimerStop(t) \/ TimerReset(t)

GroupNext ==
    \/ \E n \in Names : AddTimer(n) \/ RemoveTimer(n)
    \/ \E g \in Resetters : ResetApply(g) \/ \E n \in Names : ResetLookup(g, n)
    \/ StopAll

TimersNext == RuntimeNext \/ SoloNext \/ GroupNext

\* The runtime fires armed timers and runs their functions.
TimersFairness ==
    \A t \in AllTimers : WF_timersVars(Fire(t)) /\ WF_timersVars(ClearActive(t))

TimersSpec == TimersInit /\ [][TimersNext]_timersVars /\ TimersFairness

-----------------------------------------------------------------------------
\* IsActive tells the truth about a Timer that was never armed again while a
\* function of an earlier firing was unfinished: one runtime timer at most is
\* armed or has a function to run, active goes with it, and an armed one is the
\* one that Stop stops.
ActiveMatches ==
    \A t \in AllTimers : ~timer[t].late =>
        /\ timer[t].armed \subseteq {timer[t].current}
        /\ Cardinality(timer[t].armed) + timer[t].pending <= 1
        /\ timer[t].armed # {} => timer[t].active
        /\ timer[t].active => timer[t].armed # {} \/ timer[t].pending = 1

\* A Stop that returned true has prevented the callback: it is not called
\* until the Timer is started again; unless the Timer was armed again while a
\* function of an earlier firing was unfinished.
StopSilences ==
    [][\A t \in AllTimers :
          timer'[t].due < timer[t].due => ~timer[t].silenced \/ timer[t].late]_timersVars

\* RemoveTimer, AddTimer and StopAll leave nothing behind that would go off: a
\* Timer outside the group is not active, and nothing of it is armed.  There is
\* one exception, in which an armed runtime timer gets out of the group's reach:
\* a ResetTimer armed the Timer again after it had fired and before its function
\* took t.mu (late).  That function clears active, and the Stop of RemoveTimer
\* or StopAll then returns without stopping what the ResetTimer armed.
GroupReaches ==
    \A t \in created \ Range(group) :
        ~timer[t].active /\ (timer[t].armed # {} => timer[t].late)

\* Once RemoveTimer, AddTimer or StopAll has taken a Timer out of the group,
\* nothing arms a runtime timer for it any more, however late it was: a
\* ResetTimer that had looked the Timer up before finds it inactive.
TakenOutStaysQuiet ==
    [][\A t \in created \ Range(group) : timer'[t].armed \subseteq timer[t].armed]_timersVars

=============================================================================
