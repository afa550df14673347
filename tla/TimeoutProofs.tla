---------------------------- MODULE TimeoutProofs ----------------------------
(***************************************************************************)
(* Proofs about the parts of pkg/timeout, which share nothing: the         *)
(* CircuitBreaker, the Timers with their group, and WithRetry over         *)
(* WithTimeout and WithDeadline.                                           *)
(***************************************************************************)
EXTENDS CircuitBreaker, Timers, Retry, FiniteSetTheorems, TLAPS

(***************************************************************************)
(* CircuitBreaker, for every set of goroutines, threshold and timeout.     *)
(* ClosedIffBelowThreshold and QuietPeriod are not inductive on            *)
(* their own: QuietPeriod needs that HalfOpen is only reached after the    *)
(* timeout and that a failure recorded in HalfOpen reopens the circuit,    *)
(* which in turn is ClosedIffBelowThreshold.  IndInv joins them.           *)
(***************************************************************************)

\* The constructor's state satisfies the invariant.
LEMMA InitIndInv == Init => IndInv
  BY ConstantsAssumption
  DEF Init, IndInv, TypeOK, Timestamps, ClosedIffBelowThreshold, QuietPeriod,
      CircuitState, ZeroTime, NotRunning, Running

\* allowRequest keeps the counters and admits only in a quiet circuit.
LEMMA CallIndInv ==
  ASSUME IndInv, NEW g \in Callers, Call(g)
  PROVE  IndInv'
  <1> USE ConstantsAssumption
      DEF IndInv, TypeOK, Call, allowRequest, CircuitState, NotRunning, Running
  <1>1. TypeOK'
    OBVIOUS
  <1>2. Timestamps'
    BY DEF Timestamps
  <1>3. ClosedIffBelowThreshold'
    BY DEF ClosedIffBelowThreshold
  <1>4. QuietPeriod'
    BY DEF QuietPeriod, Timestamps
  <1>5. (state = "HalfOpen" => clock > lastFailTime + ResetTimeout)'
    BY DEF Timestamps
  <1> QED
    BY <1>1, <1>2, <1>3, <1>4, <1>5

\* recordResult keeps the counter and the state in step.
LEMMA ReturnIndInv ==
  ASSUME IndInv, NEW g \in Callers, NEW success \in BOOLEAN, Return(g, success)
  PROVE  IndInv'
  <1> USE ConstantsAssumption
      DEF IndInv, TypeOK, Return, CircuitState, NotRunning, Running
  <1>1. CASE success
    BY <1>1 DEF recordResult, Timestamps, ClosedIffBelowThreshold, QuietPeriod
  <1>2. CASE ~success
    <2> USE <1>2 DEF recordResult
    <2>1. TypeOK'
      OBVIOUS
    <2>2. Timestamps'
      BY DEF Timestamps
    <2>3. ClosedIffBelowThreshold'
      BY DEF ClosedIffBelowThreshold
    <2>4. state' \in {"Closed", "Open"}
      BY DEF ClosedIffBelowThreshold
    <2>5. QuietPeriod'
      BY <2>4 DEF QuietPeriod, Timestamps
    <2> QED
      BY <2>1, <2>2, <2>3, <2>4, <2>5
  <1> QED
    BY <1>1, <1>2

\* The invariant is inductive.
LEMMA NextIndInv == IndInv /\ [Next]_vars => IndInv'
  <1> SUFFICES ASSUME IndInv, [Next]_vars
               PROVE  IndInv'
    OBVIOUS
  <1> USE ConstantsAssumption
  <1>1. ASSUME NEW g \in Callers, Call(g)
        PROVE  IndInv'
    BY <1>1, CallIndInv
  <1>2. ASSUME NEW g \in Callers, NEW success \in BOOLEAN, Return(g, success)
        PROVE  IndInv'
    BY <1>2, ReturnIndInv
  <1>3. CASE Reset
    BY <1>3 DEF Reset, IndInv, TypeOK, Timestamps, ClosedIffBelowThreshold,
                QuietPeriod, CircuitState, ZeroTime
  <1>4. CASE Tick
    BY <1>4 DEF Tick, IndInv, TypeOK, Timestamps, ClosedIffBelowThreshold,
                QuietPeriod, Running, NotRunning
  <1>5. CASE UNCHANGED vars
    BY <1>5 DEF vars, IndInv, TypeOK, Timestamps, ClosedIffBelowThreshold,
                QuietPeriod, Running
  <1> QED
    BY <1>1, <1>2, <1>3, <1>4, <1>5 DEF Next

\* Every reachable state satisfies the inductive invariant.
THEOREM Invariance == Spec => []IndInv
  BY InitIndInv, NextIndInv, PTL DEF Spec

\* Type correctness of the circuit's fields.
THEOREM TypeCorrect == Spec => []TypeOK
  <1>1. IndInv => TypeOK
    BY DEF IndInv
  <1> QED
    BY <1>1, Invariance, PTL

\* The state and the failure counter of a Circuit agree in every reachable
\* state, for any number of goroutines and any threshold.
THEOREM ThresholdCorrect == Spec => []ClosedIffBelowThreshold
  <1>1. IndInv => ClosedIffBelowThreshold
    BY DEF IndInv
  <1> QED
    BY <1>1, Invariance, PTL

\* No call slips into the quiet period after a failure that tripped the
\* circuit, for any timeout.
THEOREM QuietPeriodCorrect == Spec => []QuietPeriod
  <1>1. IndInv => QuietPeriod
    BY DEF IndInv
  <1> QED
    BY <1>1, Invariance, PTL

\* A failure recorded in HalfOpen always reopens the circuit.
THEOREM ProbeCorrect == Spec => FailedProbeReopens
  <1>1. IndInv /\ [Next]_vars =>
          [state = "HalfOpen" /\ failures' > failures => state' = "Open"]_vars
    <2> SUFFICES ASSUME IndInv, [Next]_vars, state = "HalfOpen", failures' > failures
                 PROVE  state' = "Open"
      OBVIOUS
    <2>1. failures \in Nat /\ failures >= MaxFailures
      BY ConstantsAssumption DEF IndInv, TypeOK, ClosedIffBelowThreshold
    <2>2. ASSUME NEW g \in Callers, NEW success \in BOOLEAN, Return(g, success)
          PROVE  state' = "Open"
      BY <2>1, <2>2, ConstantsAssumption DEF Return, recordResult
    <2> QED
      BY <2>1, <2>2 DEF Next, Call, Reset, Tick, vars
  <1> QED
    BY <1>1, Invariance, PTL DEF Spec, FailedProbeReopens

-----------------------------------------------------------------------------
(***************************************************************************)
(* Timers, for any number of Timers, names, ResetTimer calls and arms.     *)
(* The Timers are independent records, so most of the argument             *)
(* is about one record r and the operators Started, Stopped and WasReset:  *)
(* each keeps InOrder(r), the per-Timer half of the inductive invariant.   *)
(***************************************************************************)

\* A Timer.
TimerRecord ==
    [active : BOOLEAN, current : Nat, armed : SUBSET (Nat \ {0}), pending : Nat,
     due : Nat, arms : Nat, silenced : BOOLEAN, late : BOOLEAN]

\* The types of the variables.
TimersTypeOK ==
    /\ timer \in [AllTimers -> TimerRecord]
    /\ created \in SUBSET GroupTimers
    /\ group \in [Names -> created \cup {"none"}]
    /\ resetting \in [Resetters -> created \cup {"none"}]

\* An active Timer has a runtime timer; and what holds of a Timer that was never
\* armed again while a function of an earlier firing was unfinished.
InOrder(r) ==
    /\ r.active => r.current # 0
    /\ ~r.late =>
        /\ r.armed = {} \/ (r.armed = {r.current} /\ r.pending = 0 /\ r.due = 0)
        /\ r.pending <= 1
        /\ r.armed # {} => r.active
        /\ r.active => r.armed # {} \/ r.pending = 1
        /\ r.silenced => r.armed = {} /\ r.pending = 0 /\ r.due = 0

\* The invariant of one Timer.
Good(r) == r \in TimerRecord /\ InOrder(r)

\* A Timer that is not in the group is not active, be it late or not.
OutIsInactive == \A t \in created : t \in Range(group) \/ ~timer[t].active

\* The inductive invariant.
TimersInv == TimersTypeOK /\ (\A t \in AllTimers : InOrder(timer[t])) /\ OutIsInactive

-----------------------------------------------------------------------------
\* A Timer record stays one when Start assigns to it.
LEMMA StartType ==
  ASSUME NEW r \in TimerRecord, NEW c \in Nat, NEW m \in SUBSET (Nat \ {0}),
         NEW n \in Nat, NEW l \in BOOLEAN
  PROVE  [r EXCEPT !.active = TRUE, !.current = c, !.armed = m, !.arms = n,
                   !.silenced = FALSE, !.late = l] \in TimerRecord
  BY DEF TimerRecord

\* A Timer record stays one when Stop assigns to it.
LEMMA StopType ==
  ASSUME NEW r \in TimerRecord, NEW m \in SUBSET (Nat \ {0}), NEW s \in BOOLEAN
  PROVE  [r EXCEPT !.active = FALSE, !.armed = m, !.silenced = s] \in TimerRecord
  BY DEF TimerRecord

\* A Timer record stays one when Reset assigns to it.
LEMMA ResetType ==
  ASSUME NEW r \in TimerRecord, NEW m \in SUBSET (Nat \ {0}),
         NEW n \in Nat, NEW l \in BOOLEAN
  PROVE  [r EXCEPT !.armed = m, !.arms = n, !.silenced = FALSE, !.late = l] \in TimerRecord
  BY DEF TimerRecord

\* Start keeps a Timer in order: it arms a runtime timer only when none is
\* armed, because an armed one means active.
LEMMA StartedGood ==
  ASSUME NEW r, Good(r)
  PROVE  Good(Started(r))
  <1> USE DEF Good
  <1>1. CASE r.active
    BY <1>1 DEF Started
  <1>2. CASE ~r.active
    <2> DEFINE n == r.arms + 1
               late == r.late \/ r.pending + r.due > 0
    <2>1. n \in Nat /\ n # 0 /\ (r.armed \cup {n}) \in SUBSET (Nat \ {0}) /\ late \in BOOLEAN
      BY DEF TimerRecord
    <2>2. Started(r) = [r EXCEPT !.active = TRUE, !.current = n, !.armed = r.armed \cup {n},
                                 !.arms = n, !.silenced = FALSE, !.late = late]
      BY <1>2 DEF Started
    <2>3. ~late => ~r.late /\ r.pending = 0 /\ r.due = 0
      BY DEF TimerRecord
    <2> HIDE DEF late, n
    <2>4. Started(r) \in TimerRecord
      <3>1. r \in TimerRecord
        OBVIOUS
      <3> HIDE DEF Good
      <3>2. [r EXCEPT !.active = TRUE, !.current = n, !.armed = r.armed \cup {n},
                      !.arms = n, !.silenced = FALSE, !.late = late] \in TimerRecord
        BY <2>1, <3>1, StartType, Zenon
      <3> QED
        BY <2>2, <3>2
    <2>5. /\ Started(r).active = TRUE /\ Started(r).current = n
          /\ Started(r).armed = r.armed \cup {n} /\ Started(r).silenced = FALSE
          /\ Started(r).late = late
          /\ Started(r).pending = r.pending /\ Started(r).due = r.due
      BY <2>2 DEF TimerRecord
    <2>6. ~late => r.armed = {}
      BY <1>2, <2>3 DEF InOrder
    <2>7. ~Started(r).late =>
            /\ Started(r).armed = {Started(r).current}
            /\ Started(r).pending = 0 /\ Started(r).due = 0
            /\ Started(r).active /\ ~Started(r).silenced
      BY <2>3, <2>5, <2>6
    <2>8. InOrder(Started(r))
      BY <2>1, <2>5, <2>7 DEF InOrder
    <2> QED
      BY <2>4, <2>8
  <1> QED
    BY <1>1, <1>2

\* Stop keeps a Timer in order, and leaves it inactive.
LEMMA StoppedGood ==
  ASSUME NEW r, Good(r)
  PROVE  /\ Good(Stopped(r))
         /\ ~Stopped(r).active /\ Stopped(r).armed \subseteq r.armed
  <1> USE DEF Good
  <1>1. CASE ~r.active \/ r.current = 0
    <2>1. Stopped(r) = r
      BY <1>1 DEF Stopped
    <2>2. ~r.active
      BY <1>1 DEF InOrder
    <2> QED
      BY <2>1, <2>2
  <1>2. CASE r.active /\ r.current # 0
    <2> DEFINE was == r.current \in r.armed
               rest == r.armed \ {r.current}
    <2>1. rest \in SUBSET (Nat \ {0}) /\ was \in BOOLEAN
      BY DEF TimerRecord
    <2>2. Stopped(r) = [r EXCEPT !.active = FALSE, !.armed = rest, !.silenced = was]
      BY <1>2 DEF Stopped
    <2>3. ~r.late => /\ rest = {} /\ r.pending <= 1
                     /\ was => r.pending = 0 /\ r.due = 0
      BY DEF InOrder
    <2>0. rest \subseteq r.armed
      OBVIOUS
    <2> HIDE DEF was, rest
    <2>4. Stopped(r) \in TimerRecord
      <3>1. r \in TimerRecord
        OBVIOUS
      <3> HIDE DEF Good
      <3>2. [r EXCEPT !.active = FALSE, !.armed = rest, !.silenced = was] \in TimerRecord
        BY <2>1, <3>1, StopType, Zenon
      <3> QED
        BY <2>2, <3>2
    <2>5. /\ Stopped(r).active = FALSE /\ Stopped(r).armed = rest
          /\ Stopped(r).silenced = was /\ Stopped(r).late = r.late
          /\ Stopped(r).pending = r.pending /\ Stopped(r).due = r.due
      BY <2>2 DEF TimerRecord
    <2>6. InOrder(Stopped(r))
      BY <2>3, <2>5 DEF InOrder
    <2> QED
      BY <2>0, <2>4, <2>5, <2>6
  <1> QED
    BY <1>1, <1>2

\* Reset keeps a Timer in order, and does nothing to an inactive one.
LEMMA WasResetGood ==
  ASSUME NEW r, Good(r)
  PROVE  /\ Good(WasReset(r))
         /\ WasReset(r).active = r.active
         /\ ~r.active => WasReset(r) = r
  <1> USE DEF Good
  <1>1. CASE ~r.active \/ r.current = 0
    BY <1>1 DEF WasReset
  <1>2. CASE r.active /\ r.current # 0
    <2> DEFINE late == r.late \/ r.pending + r.due > 0
               now == r.armed \cup {r.current}
    <2>1. r.arms + 1 \in Nat /\ now \in SUBSET (Nat \ {0}) /\ late \in BOOLEAN
      BY <1>2 DEF TimerRecord
    <2>2. WasReset(r) = [r EXCEPT !.armed = now, !.arms = r.arms + 1,
                                  !.silenced = FALSE, !.late = late]
      BY <1>2 DEF WasReset
    <2>3. ~late => ~r.late /\ r.pending = 0 /\ r.due = 0
      BY DEF TimerRecord
    <2>4. ~late => r.armed = {r.current} /\ now = {r.current}
      BY <1>2, <2>3 DEF InOrder
    <2> HIDE DEF late, now
    <2>5. WasReset(r) \in TimerRecord
      <3>1. r \in TimerRecord
        OBVIOUS
      <3> HIDE DEF Good
      <3>2. [r EXCEPT !.armed = now, !.arms = r.arms + 1, !.silenced = FALSE,
                      !.late = late] \in TimerRecord
        BY <2>1, <3>1, ResetType, Zenon
      <3> QED
        BY <2>2, <3>2
    <2>6. /\ WasReset(r).active = r.active /\ WasReset(r).armed = now
          /\ WasReset(r).silenced = FALSE /\ WasReset(r).late = late
          /\ WasReset(r).pending = r.pending /\ WasReset(r).due = r.due
          /\ WasReset(r).current = r.current
      BY <2>2 DEF TimerRecord
    <2>7. InOrder(WasReset(r))
      BY <1>2, <2>3, <2>4, <2>6 DEF InOrder
    <2> QED
      BY <1>2, <2>5, <2>6, <2>7
  <1> QED
    BY <1>1, <1>2

\* What the runtime and the function of a firing do keeps a Timer in order.
LEMMA RuntimeGood ==
  ASSUME NEW t \in AllTimers, timer \in [AllTimers -> TimerRecord], InOrder(timer[t]),
         Fire(t) \/ ClearActive(t) \/ Callback(t)
  PROVE  /\ \A s \in AllTimers : s # t => timer'[s] = timer[s]
         /\ timer' \in [AllTimers -> TimerRecord]
         /\ InOrder(timer'[t])
         /\ timer'[t].armed \subseteq timer[t].armed
         /\ timer'[t].active => timer[t].active
         /\ timer'[t].due < timer[t].due => ~timer[t].silenced \/ timer[t].late
  <1>0. timer[t] \in TimerRecord
    OBVIOUS
  <1>1. CASE Fire(t)
    <2>1. PICK k \in timer[t].armed :
             timer' = [timer EXCEPT ![t].armed = @ \ {k}, ![t].pending = @ + 1]
      BY <1>1 DEF Fire
    <2>2. /\ timer' \in [AllTimers -> TimerRecord]
          /\ \A s \in AllTimers : s # t => timer'[s] = timer[s]
      BY <2>1 DEF TimerRecord
    <2>3. /\ timer'[t].armed = timer[t].armed \ {k}
          /\ timer'[t].pending = timer[t].pending + 1
          /\ timer'[t].active = timer[t].active /\ timer'[t].due = timer[t].due
          /\ timer'[t].silenced = timer[t].silenced /\ timer'[t].late = timer[t].late
          /\ timer'[t].current = timer[t].current
      BY <1>0, <2>1 DEF TimerRecord
    <2>4. ~timer[t].late => /\ timer'[t].armed = {} /\ timer[t].pending = 0
                            /\ ~timer[t].silenced
      BY <2>3 DEF InOrder
    <2>5. InOrder(timer'[t])
      BY <2>3, <2>4 DEF InOrder
    <2> QED
      BY <1>0, <2>2, <2>3, <2>5 DEF TimerRecord
  <1>2. CASE ClearActive(t)
    <2>1. timer[t].pending > 0 /\
          timer' = [timer EXCEPT ![t].pending = @ - 1, ![t].due = @ + 1, ![t].active = FALSE]
      BY <1>2 DEF ClearActive
    <2>2. /\ timer' \in [AllTimers -> TimerRecord]
          /\ \A s \in AllTimers : s # t => timer'[s] = timer[s]
      BY <2>1 DEF TimerRecord
    <2>3. /\ timer'[t].armed = timer[t].armed /\ timer'[t].pending = timer[t].pending - 1
          /\ timer'[t].active = FALSE /\ timer'[t].due = timer[t].due + 1
          /\ timer'[t].silenced = timer[t].silenced /\ timer'[t].late = timer[t].late
          /\ timer'[t].current = timer[t].current
      BY <1>0, <2>1 DEF TimerRecord
    <2>4. ~timer[t].late => /\ timer[t].armed = {} /\ timer[t].pending = 1
                            /\ ~timer[t].silenced
      BY <1>0, <2>1 DEF InOrder, TimerRecord
    <2>5. InOrder(timer'[t])
      BY <2>3, <2>4 DEF InOrder
    <2> QED
      BY <1>0, <2>2, <2>3, <2>5 DEF TimerRecord
  <1>3. CASE Callback(t)
    <2>1. timer[t].due > 0 /\ timer' = [timer EXCEPT ![t].due = @ - 1]
      BY <1>3 DEF Callback
    <2>2. /\ timer' \in [AllTimers -> TimerRecord]
          /\ \A s \in AllTimers : s # t => timer'[s] = timer[s]
      BY <2>1 DEF TimerRecord
    <2>3. /\ timer'[t].armed = timer[t].armed /\ timer'[t].pending = timer[t].pending
          /\ timer'[t].active = timer[t].active /\ timer'[t].due = timer[t].due - 1
          /\ timer'[t].silenced = timer[t].silenced /\ timer'[t].late = timer[t].late
          /\ timer'[t].current = timer[t].current
      BY <1>0, <2>1 DEF TimerRecord
    <2>4. ~timer[t].late => timer[t].armed = {} /\ ~timer[t].silenced
      BY <1>0, <2>1 DEF InOrder, TimerRecord
    <2>5. InOrder(timer'[t])
      BY <2>3, <2>4 DEF InOrder
    <2> QED
      BY <2>2, <2>3, <2>4, <2>5
  <1> QED
    BY <1>1, <1>2, <1>3

\* A step on one Timer that does not make it active, and leaves the group alone,
\* keeps the invariant.
LEMMA OneTimerInv ==
  ASSUME TimersInv, NEW t \in AllTimers, NEW r, Good(r),
         timer' = [timer EXCEPT ![t] = r],
         UNCHANGED <<group, created>>,
         resetting' \in [Resetters -> created \cup {"none"}],
         t \in created /\ r.active => timer[t].active
  PROVE  TimersInv'
  <1> USE DEF TimersInv, Good
  <1>1. TimersTypeOK'
    BY DEF TimersTypeOK
  <1>2. timer'[t] = r /\ \A s \in AllTimers : s # t => timer'[s] = timer[s]
    BY DEF TimersTypeOK
  <1>3. (\A s \in AllTimers : InOrder(timer[s]))'
    <2> SUFFICES ASSUME NEW s \in AllTimers PROVE InOrder(timer'[s])
      OBVIOUS
    <2> QED
      BY <1>2
  <1>4. OutIsInactive'
    <2>1. created \subseteq AllTimers
      BY DEF TimersTypeOK, AllTimers
    <2> SUFFICES ASSUME NEW s \in created, timer'[s].active
                 PROVE  s \in Range(group)
      BY DEF OutIsInactive
    <2>2. timer[s].active
      BY <1>2, <2>1
    <2> QED
      BY <2>2 DEF OutIsInactive
  <1> QED
    BY <1>1, <1>3, <1>4

\* The operations that take Timers out of the group stop them: the Timers in
\* "out" are stopped, those in "new" started, and no name is left that loses a
\* running Timer.
LEMMA GroupInv ==
  ASSUME TimersInv, NEW out, NEW new \in SUBSET GroupTimers,
         timer' = [s \in AllTimers |->
                     IF s \in new THEN Started(timer[s])
                     ELSE IF s \in out THEN Stopped(timer[s]) ELSE timer[s]],
         created' = created \cup new,
         group' \in [Names -> created' \cup {"none"}],
         UNCHANGED resetting,
         \A s \in created : s \in Range(group) => s \in Range(group') \/ s \in out \ new,
         new \subseteq Range(group')
  PROVE  TimersInv'
  <1> USE DEF TimersInv
  <1>1. \A s \in AllTimers : Good(timer[s])
    BY DEF TimersTypeOK, Good
  <1>2. \A s \in AllTimers : Good(timer'[s])
    <2> TAKE s \in AllTimers
    <2>1. Good(timer[s]) /\ Good(Started(timer[s])) /\ Good(Stopped(timer[s]))
      BY <1>1, StartedGood, StoppedGood
    <2> QED
      BY <2>1
  <1>3. TimersTypeOK'
    <2>1. timer' \in [AllTimers -> TimerRecord]
      BY <1>2 DEF Good
    <2> QED
      BY <2>1 DEF TimersTypeOK
  <1>4. (\A s \in AllTimers : InOrder(timer[s]))'
    BY <1>2 DEF Good
  <1>5. OutIsInactive'
    <2>0. created' \subseteq AllTimers
      BY DEF TimersTypeOK, AllTimers
    <2> SUFFICES ASSUME NEW s \in created', timer'[s].active
                 PROVE  s \in Range(group')
      BY DEF OutIsInactive
    <2>1. CASE s \in new
      BY <2>1
    <2>2. CASE s \notin new /\ s \in out
      <3>1. timer'[s] = Stopped(timer[s]) /\ Good(timer[s])
        BY <1>1, <2>0, <2>2
      <3> QED
        BY <3>1, StoppedGood
    <2>3. CASE s \notin new /\ s \notin out
      <3>1. timer'[s] = timer[s] /\ s \in created
        BY <2>0, <2>3
      <3> QED
        BY <2>3, <3>1 DEF OutIsInactive
    <2> QED
      BY <2>1, <2>2, <2>3
  <1> QED
    BY <1>3, <1>4, <1>5

\* Every step keeps the invariant.
LEMMA TimersNextInv == TimersInv /\ [TimersNext]_timersVars => TimersInv'
  <1> SUFFICES ASSUME TimersInv, [TimersNext]_timersVars
               PROVE  TimersInv'
    OBVIOUS
  <1>0. /\ \A t \in AllTimers : Good(timer[t])
        /\ resetting \in [Resetters -> created \cup {"none"}]
    BY DEF TimersInv, TimersTypeOK, Good
  <1>1. ASSUME NEW t \in AllTimers, Fire(t) \/ ClearActive(t) \/ Callback(t)
        PROVE  TimersInv'
    <2>1. timer \in [AllTimers -> TimerRecord] /\ InOrder(timer[t])
      BY DEF TimersInv, TimersTypeOK
    <2>2. UNCHANGED <<group, created, resetting>>
      BY <1>1 DEF Fire, ClearActive, Callback
    <2>3. timer' = [timer EXCEPT ![t] = timer'[t]] /\ Good(timer'[t])
      BY <1>1, <2>1, RuntimeGood DEF Good
    <2>4. timer'[t].active => timer[t].active
      BY <1>1, <2>1, RuntimeGood
    <2> QED
      BY <1>0, <2>2, <2>3, <2>4, OneTimerInv
  <1>2. ASSUME NEW t \in SoloTimers, TimerStart(t) \/ TimerStop(t) \/ TimerReset(t)
        PROVE  TimersInv'
    <2>1. t \in AllTimers /\ t \notin created
      BY TimersAssumption DEF TimersInv, TimersTypeOK, AllTimers
    <2>2. PICK r : /\ r \in {Started(timer[t]), Stopped(timer[t]), WasReset(timer[t])}
                   /\ timer' = [timer EXCEPT ![t] = r]
                   /\ UNCHANGED <<group, created, resetting>>
      BY <1>2 DEF TimerStart, TimerStop, TimerReset, Apply
    <2>3. Good(r)
      BY <1>0, <2>1, <2>2, StartedGood, StoppedGood, WasResetGood
    <2> QED
      BY <1>0, <2>1, <2>2, <2>3, OneTimerInv
  <1>3. ASSUME NEW n \in Names, AddTimer(n)
        PROVE  TimersInv'
    <2> DEFINE t == CHOOSE t \in GroupTimers \ created : TRUE
    <2>1. t \in GroupTimers \ created
      BY <1>3 DEF AddTimer, TimersInv, TimersTypeOK
    <2>2. /\ created' = created \cup {t} /\ UNCHANGED resetting
          /\ timer' = [s \in AllTimers |->
                         IF s = t THEN Started(timer[s])
                         ELSE IF s = group[n] THEN Stopped(timer[s]) ELSE timer[s]]
          /\ group' = [group EXCEPT ![n] = t]
      BY <1>3 DEF AddTimer
    <2> HIDE DEF t
    <2>3. timer' = [s \in AllTimers |->
                     IF s \in {t} THEN Started(timer[s])
                     ELSE IF s \in {group[n]} THEN Stopped(timer[s]) ELSE timer[s]]
      BY <2>2
    <2>4. group \in [Names -> created \cup {"none"}]
      BY DEF TimersInv, TimersTypeOK
    <2>5. group' \in [Names -> created' \cup {"none"}] /\ {t} \subseteq Range(group')
      BY <2>2, <2>4 DEF Range
    <2>6. \A s \in created : s \in Range(group) =>
             s \in Range(group') \/ s \in {group[n]} \ {t}
      BY <2>1, <2>2, <2>4 DEF Range
    <2>7. {t} \in SUBSET GroupTimers
      BY <2>1
    <2> QED
      BY <2>2, <2>3, <2>5, <2>6, <2>7, GroupInv
  <1>4. ASSUME NEW n \in Names, RemoveTimer(n)
        PROVE  TimersInv'
    <2>1. group \in [Names -> created \cup {"none"}] /\ created \subseteq GroupTimers
      BY DEF TimersInv, TimersTypeOK
    <2>2. /\ group[n] \in AllTimers
          /\ timer' = [timer EXCEPT ![group[n]] = Stopped(timer[group[n]])]
          /\ group' = [group EXCEPT ![n] = "none"]
          /\ UNCHANGED <<created, resetting>>
      BY <1>4, <2>1 DEF RemoveTimer, AllTimers
    <2>3. timer' = [s \in AllTimers |->
                     IF s \in {} THEN Started(timer[s])
                     ELSE IF s \in {group[n]} THEN Stopped(timer[s]) ELSE timer[s]]
      BY <2>2 DEF TimersInv, TimersTypeOK
    <2>4. group' \in [Names -> created' \cup {"none"}]
      BY <2>1, <2>2
    <2>5. \A s \in created : s \in Range(group) =>
             s \in Range(group') \/ s \in {group[n]} \ {}
      BY <2>1, <2>2 DEF Range
    <2>6. created' = created \cup {} /\ UNCHANGED resetting
      BY <2>2
    <2> QED
      BY <2>3, <2>4, <2>5, <2>6, GroupInv
  <1>5. ASSUME StopAll
        PROVE  TimersInv'
    <2>1. /\ group' = [n \in Names |-> "none"]
          /\ created' = created \cup {} /\ UNCHANGED resetting
          /\ timer' = [s \in AllTimers |->
                     IF s \in {} THEN Started(timer[s])
                     ELSE IF s \in Range(group) THEN Stopped(timer[s]) ELSE timer[s]]
      BY <1>5 DEF StopAll
    <2>2. group' \in [Names -> created' \cup {"none"}]
      BY <2>1
    <2>3. {} \in SUBSET GroupTimers /\ {} \subseteq Range(group')
          /\ \A s \in created : s \in Range(group) =>
                s \in Range(group') \/ s \in Range(group) \ {}
      OBVIOUS
    <2> QED
      BY <2>1, <2>2, <2>3, GroupInv
  <1>6. ASSUME NEW g \in Resetters, ResetApply(g)
        PROVE  TimersInv'
    <2>1. /\ resetting[g] \in AllTimers
          /\ timer' = [timer EXCEPT ![resetting[g]] = WasReset(timer[resetting[g]])]
          /\ resetting' = [resetting EXCEPT ![g] = "none"] /\ UNCHANGED <<group, created>>
      BY <1>6 DEF ResetApply, Apply, TimersInv, TimersTypeOK, AllTimers
    <2>2. Good(timer[resetting[g]])
      BY <1>0, <2>1
    <2>3. resetting' \in [Resetters -> created \cup {"none"}]
      BY <1>0, <2>1
    <2> QED
      BY <2>1, <2>2, <2>3, OneTimerInv, WasResetGood
  <1>7. ASSUME NEW g \in Resetters, NEW n \in Names, ResetLookup(g, n)
        PROVE  TimersInv'
    BY <1>7 DEF ResetLookup, TimersInv, TimersTypeOK, OutIsInactive
  <1>8. CASE UNCHANGED timersVars
    BY <1>8 DEF timersVars, TimersInv, TimersTypeOK, OutIsInactive
  <1> QED
    BY <1>1, <1>2, <1>3, <1>4, <1>5, <1>6, <1>7, <1>8
    DEF TimersNext, RuntimeNext, SoloNext, GroupNext

\* The inductive invariant holds of every reachable state.
THEOREM TimersInvariance == TimersSpec => []TimersInv
  <1>1. TimersInit => TimersInv
    <2> SUFFICES ASSUME TimersInit PROVE TimersInv
      OBVIOUS
    <2>1. NewTimer \in TimerRecord /\ InOrder(NewTimer)
      BY DEF NewTimer, TimerRecord, InOrder
    <2> QED
      BY <2>1 DEF TimersInit, TimersInv, TimersTypeOK, OutIsInactive
  <1> QED
    BY <1>1, TimersNextInv, PTL DEF TimersSpec

\* IsActive tells the truth about a Timer that was never armed again while a
\* function of an earlier firing was unfinished (timeout.go, Start, Stop, Reset
\* and the function they hand to time.AfterFunc).
THEOREM ActiveMatchesCorrect == TimersSpec => []ActiveMatches
  <1>1. TimersInv => ActiveMatches
    <2> SUFFICES ASSUME TimersInv, NEW t \in AllTimers, ~timer[t].late
                 PROVE  /\ timer[t].armed \subseteq {timer[t].current}
                        /\ Cardinality(timer[t].armed) + timer[t].pending <= 1
                        /\ timer[t].armed # {} => timer[t].active
                        /\ timer[t].active => timer[t].armed # {} \/ timer[t].pending = 1
      BY DEF ActiveMatches
    <2>1. InOrder(timer[t]) /\ timer[t].pending \in Nat
      BY DEF TimersInv, TimersTypeOK, TimerRecord
    <2>2. Cardinality({}) = 0 /\ Cardinality({timer[t].current}) = 1
      BY FS_EmptySet, FS_Singleton
    <2>3. Cardinality(timer[t].armed) + timer[t].pending <= 1
      <3>1. CASE timer[t].armed = {}
        <4>1. timer[t].pending <= 1
          BY <2>1 DEF InOrder
        <4> QED
          BY <2>1, <2>2, <3>1, <4>1
      <3>2. CASE timer[t].armed # {}
        <4>1. timer[t].armed = {timer[t].current} /\ timer[t].pending = 0
          BY <2>1, <3>2 DEF InOrder
        <4> QED
          BY <2>2, <4>1
      <3> QED
        BY <3>1, <3>2
    <2> QED
      BY <2>1, <2>3 DEF InOrder
  <1> QED
    BY <1>1, TimersInvariance, PTL

\* A Timer that RemoveTimer, AddTimer or StopAll took out of the group is not
\* active, and nothing of it is armed, unless a ResetTimer armed it again between
\* a firing and its function (timeout.go, Stop, Reset and TimeoutGroup).
THEOREM GroupReachesCorrect == TimersSpec => []GroupReaches
  <1>1. TimersInv => GroupReaches
    <2> SUFFICES ASSUME TimersInv, NEW t \in created \ Range(group)
                 PROVE  ~timer[t].active /\ (timer[t].armed # {} => timer[t].late)
      BY DEF GroupReaches
    <2>1. ~timer[t].active
      BY DEF TimersInv, OutIsInactive
    <2>2. InOrder(timer[t])
      BY DEF TimersInv, TimersTypeOK, AllTimers
    <2> QED
      BY <2>1, <2>2 DEF InOrder
  <1> QED
    BY <1>1, TimersInvariance, PTL

\* Nothing arms a Timer that was taken out of the group, late or not: a
\* ResetTimer finds it inactive, AddTimer starts only a Timer it has just made
\* (timeout.go, ResetTimer and AddTimer).
THEOREM TakenOutStaysQuietCorrect == TimersSpec => TakenOutStaysQuiet
  <1> DEFINE Quiet == \A t \in created \ Range(group) :
                         timer'[t].armed \subseteq timer[t].armed
  <1>1. TimersInv /\ [TimersNext]_timersVars => [Quiet]_timersVars
    <2> SUFFICES ASSUME TimersInv, TimersNext, NEW t \in created \ Range(group)
                 PROVE  timer'[t].armed \subseteq timer[t].armed
      BY DEF Quiet
    <2>1. /\ timer \in [AllTimers -> TimerRecord] /\ t \in AllTimers /\ t \notin SoloTimers
          /\ Good(timer[t]) /\ ~timer[t].active
      BY TimersAssumption DEF TimersInv, TimersTypeOK, OutIsInactive, AllTimers, Good
    <2>2. /\ Stopped(timer[t]).armed \subseteq timer[t].armed
          /\ WasReset(timer[t]) = timer[t]
      BY <2>1, StoppedGood, WasResetGood
    <2>3. ASSUME NEW u \in AllTimers, Fire(u) \/ ClearActive(u) \/ Callback(u)
          PROVE  timer'[t].armed \subseteq timer[t].armed
      <3>1. InOrder(timer[u])
        BY DEF TimersInv
      <3> QED
        BY <2>1, <2>3, <3>1, RuntimeGood
    <2>4. ASSUME timer'[t] \in {timer[t], Stopped(timer[t]), WasReset(timer[t])}
          PROVE  timer'[t].armed \subseteq timer[t].armed
      BY <2>2, <2>4
    <2>5. ~RuntimeNext => timer'[t] \in {timer[t], Stopped(timer[t]), WasReset(timer[t])}
      <3> USE <2>1
      <3>1. ASSUME NEW s \in SoloTimers, TimerStart(s) \/ TimerStop(s) \/ TimerReset(s)
            PROVE  timer'[t] = timer[t]
        BY <3>1 DEF TimerStart, TimerStop, TimerReset, Apply
      <3>2. ASSUME NEW n \in Names, AddTimer(n)
            PROVE  timer'[t] \in {timer[t], Stopped(timer[t])}
        <4> DEFINE new == CHOOSE u \in GroupTimers \ created : TRUE
        <4>1. new \notin created
          BY <3>2 DEF AddTimer, TimersInv, TimersTypeOK
        <4>2. timer' = [s \in AllTimers |->
                  IF s = new THEN Started(timer[s])
                  ELSE IF s = group[n] THEN Stopped(timer[s]) ELSE timer[s]]
          BY <3>2 DEF AddTimer
        <4> HIDE DEF new
        <4> QED
          BY <4>1, <4>2
      <3>3. ASSUME NEW n \in Names, RemoveTimer(n)
            PROVE  timer'[t] \in {timer[t], Stopped(timer[t])}
        BY <3>3 DEF RemoveTimer
      <3>4. ASSUME NEW g \in Resetters, ResetApply(g)
            PROVE  timer'[t] \in {timer[t], WasReset(timer[t])}
        BY <3>4 DEF ResetApply, Apply
      <3>5. ASSUME NEW g \in Resetters, NEW n \in Names, ResetLookup(g, n)
            PROVE  timer'[t] = timer[t]
        BY <3>5 DEF ResetLookup
      <3>6. CASE StopAll
        BY <3>6 DEF StopAll
      <3> QED
        BY <3>1, <3>2, <3>3, <3>4, <3>5, <3>6 DEF TimersNext, SoloNext, GroupNext
    <2> QED
      BY <2>3, <2>4, <2>5 DEF RuntimeNext
  <1> QED
    BY <1>1, TimersInvariance, PTL DEF TimersSpec, TakenOutStaysQuiet

\* No operation takes back a callback that is due.
LEMMA KeepsDue ==
  ASSUME NEW r \in TimerRecord
  PROVE  Started(r).due = r.due /\ Stopped(r).due = r.due /\ WasReset(r).due = r.due
  BY DEF TimerRecord, Started, Stopped, WasReset

\* A Stop that returned true has prevented the callback: only Callback lowers
\* due, and a silenced Timer in order has no function past t.mu.
THEOREM StopSilencesCorrect == TimersSpec => StopSilences
  <1> DEFINE Silent == \A t \in AllTimers :
          timer'[t].due < timer[t].due => ~timer[t].silenced \/ timer[t].late
  <1>1. TimersInv /\ [TimersNext]_timersVars => [Silent]_timersVars
    <2> SUFFICES ASSUME TimersInv, TimersNext, NEW t \in AllTimers,
                        timer'[t].due < timer[t].due
                 PROVE  ~timer[t].silenced \/ timer[t].late
      BY DEF Silent
    <2> DEFINE Kept == {timer[t], Started(timer[t]), Stopped(timer[t]), WasReset(timer[t])}
    <2>1. /\ timer \in [AllTimers -> TimerRecord]
          /\ timer[t].due \in Nat /\ InOrder(timer[t])
      BY DEF TimersInv, TimersTypeOK, TimerRecord
    <2>2. ASSUME NEW u \in AllTimers, Fire(u) \/ ClearActive(u) \/ Callback(u)
          PROVE  ~timer[t].silenced \/ timer[t].late
      <3>1. InOrder(timer[u])
        BY DEF TimersInv
      <3> QED
        BY <2>1, <2>2, <3>1, RuntimeGood
    <2>3. ASSUME timer'[t] \in Kept
          PROVE  FALSE
      BY <2>1, <2>3, KeepsDue
    <2>4. ~RuntimeNext => timer'[t] \in Kept
      <3> USE <2>1
      <3>1. ASSUME NEW s \in SoloTimers, TimerStart(s) \/ TimerStop(s) \/ TimerReset(s)
            PROVE  timer'[t] \in Kept
        BY <3>1 DEF TimerStart, TimerStop, TimerReset, Apply
      <3>2. ASSUME NEW n \in Names, AddTimer(n) \/ RemoveTimer(n)
            PROVE  timer'[t] \in Kept
        BY <3>2 DEF AddTimer, RemoveTimer
      <3>3. ASSUME NEW g \in Resetters, ResetApply(g)
            PROVE  timer'[t] \in Kept
        BY <3>3 DEF ResetApply, Apply
      <3>4. ASSUME NEW g \in Resetters, NEW n \in Names, ResetLookup(g, n)
            PROVE  timer'[t] \in Kept
        BY <3>4 DEF ResetLookup
      <3>5. CASE StopAll
        BY <3>5 DEF StopAll
      <3> QED
        BY <3>1, <3>2, <3>3, <3>4, <3>5 DEF TimersNext, SoloNext, GroupNext
    <2> QED
      BY <2>2, <2>3, <2>4 DEF RuntimeNext
  <1> QED
    BY <1>1, TimersInvariance, PTL DEF TimersSpec, StopSilences

-----------------------------------------------------------------------------
(***************************************************************************)
(* WithRetry over WithTimeout and WithDeadline, for every configuration.   *)
(* An attempt whose work is slow goes on after WithRetry has moved to the  *)
(* next, so the invariant speaks of all attempts at once: what the past    *)
(* ones ended with, what a channel may still hold, which context is live.  *)
(***************************************************************************)

\* One attempt.
TryRecord ==
    [ctx : {"none", "live", "cancelled", "deadline"},
     work : {"none", "running", "sending", "ended"},
     done : {"empty", "nil", "err"},
     outcome : {"none", "nil", "err"},
     gaveUp : BOOLEAN]

\* The types of the variables.
RetryTypeOK ==
    /\ config \in RetryConfigs
    /\ at \in {"loop", "wait", "select", "check", "returned"}
    /\ attempt \in Nat \ {0}
    /\ result \in {"none", "nil", "lastErr", "cancelled"}
    /\ cancelled \in BOOLEAN
    /\ try \in [Attempts -> TryRecord]
    /\ tooLate \in Nat

\* Attempt k has not begun.
Untried(k) == try[k].ctx = "none" /\ try[k].work = "none" /\ ~try[k].gaveUp

\* An attempt that is over was given up or its work returned an error; the
\* ones to come have not begun.
AttemptOrder ==
    /\ at \in {"wait", "select", "check"} => attempt <= config.MaxAttempts
    /\ \A k \in Attempts :
          /\ k < attempt \/ (k = attempt /\ at = "check") =>
                try[k].gaveUp \/ try[k].outcome = "err"
          /\ k > attempt \/ (k = attempt /\ at \in {"loop", "wait"}) => Untried(k)
          /\ k = attempt /\ at = "select" => ~try[k].gaveUp

\* A result in the channel is what the work returned, and the work returns once.
ChannelHoldsOutcome ==
    \A k \in Attempts :
        /\ try[k].work \in {"none", "running"} =>
              try[k].outcome = "none" /\ try[k].done = "empty"
        /\ try[k].work = "sending" => try[k].done = "empty" /\ try[k].outcome # "none"
        /\ try[k].done \in {"empty", try[k].outcome}

\* Only the context of the attempt that WithRetry waits for is live.
LiveIsCurrent ==
    \A k \in Attempts : try[k].ctx = "live" => at = "select" /\ k = attempt

\* An attempt that began after the caller's ctx was done is the last.
LateIsLast ==
    tooLate # 0 => tooLate = 1 /\ cancelled /\ at \in {"select", "check", "returned"}

\* nil is what the last attempt's work returned, read before its context ended.
ResultHolds ==
    result = "nil" => /\ at = "returned"
                      /\ \/ config.MaxAttempts = 0
                         \/ /\ attempt \in Attempts
                            /\ try[attempt].outcome = "nil" /\ ~try[attempt].gaveUp

\* The inductive invariant.
RetryInv ==
    /\ RetryTypeOK /\ AttemptOrder /\ ChannelHoldsOutcome /\ LiveIsCurrent
    /\ LateIsLast /\ ResultHolds

\* WithRetry starts with no attempt made.
LEMMA RetryInitInv == RetryInit => RetryInv
  BY RetryAssumption
  DEF RetryInit, RetryInv, RetryTypeOK, AttemptOrder, ChannelHoldsOutcome,
      LiveIsCurrent, LateIsLast, ResultHolds, NotTried, Untried, TryRecord, Attempts

\* The number of attempts is bounded.
LEMMA ConfigBound ==
  ASSUME RetryTypeOK
  PROVE  config.MaxAttempts \in 0 .. AttemptLimit /\ AttemptLimit \in Nat
  BY RetryAssumption DEF RetryTypeOK

\* An attempt that begins, the first or after a delay: it is the only one with a
\* live context, and the last one if the caller's ctx is done.
LEMMA BeginAttemptInv ==
  ASSUME RetryInv, at \in {"loop", "wait"}, attempt <= config.MaxAttempts, BeginAttempt,
         UNCHANGED <<config, wrapper, attempt, result, cancelled, passed>>
  PROVE  RetryInv'
  <1> USE DEF RetryInv, BeginAttempt
  <1>1. attempt \in Attempts /\ Untried(attempt)
    <2>1. attempt \in Attempts
      BY ConfigBound DEF RetryTypeOK, Attempts
    <2> QED
      BY <2>1 DEF AttemptOrder
  <1>2. RetryTypeOK'
    <2>1. NewContext \in {"live", "cancelled", "deadline"}
      BY DEF NewContext
    <2>2. [try[attempt] EXCEPT !.ctx = NewContext, !.work = "running"] \in TryRecord
      BY <1>1, <2>1 DEF RetryTypeOK, TryRecord
    <2>3. try' \in [Attempts -> TryRecord]
      BY <1>1, <2>2 DEF RetryTypeOK
    <2> QED
      BY <2>3 DEF RetryTypeOK
  <1>3. AttemptOrder'
    <2>2. /\ ~try'[attempt].gaveUp
          /\ \A k \in Attempts : k # attempt => try'[k] = try[k]
      BY <1>1 DEF RetryTypeOK, TryRecord, Untried
    <2> QED
      BY <1>1, <2>2, ConfigBound DEF AttemptOrder, RetryTypeOK, Attempts, Untried
  <1>4. ChannelHoldsOutcome'
    BY <1>1 DEF ChannelHoldsOutcome, RetryTypeOK, Untried
  <1>5. LiveIsCurrent'
    BY <1>1 DEF LiveIsCurrent, RetryTypeOK, Untried
  <1>6. LateIsLast'
    BY <1>1 DEF LateIsLast, RetryTypeOK
  <1>7. ResultHolds'
    BY <1>1 DEF ResultHolds, RetryTypeOK
  <1> QED
    BY <1>2, <1>3, <1>4, <1>5, <1>6, <1>7

\* Every step of WithRetry, of the attempts' goroutines and of the contexts.
LEMMA RetryNextInv == RetryInv /\ [RetryNext]_retryVars => RetryInv'
  <1> SUFFICES ASSUME RetryInv, [RetryNext]_retryVars
               PROVE  RetryInv'
    OBVIOUS
  <1> USE ConfigBound DEF RetryInv
  <1>1. CASE LoopEnds
    <2>1. RetryTypeOK'
      BY <1>1 DEF LoopEnds, Returned, RetryTypeOK, TryRecord, Attempts
    <2>2. AttemptOrder'
      BY <1>1
      DEF LoopEnds, Returned, RetryTypeOK, TryRecord, Attempts, AttemptOrder,
          Untried
    <2>3. ChannelHoldsOutcome'
      BY <1>1
      DEF LoopEnds, Returned, RetryTypeOK, TryRecord, Attempts, ChannelHoldsOutcome
    <2>4. LiveIsCurrent'
      BY <1>1 DEF LoopEnds, Returned, RetryTypeOK, TryRecord, Attempts, LiveIsCurrent
    <2>5. LateIsLast'
      BY <1>1 DEF LoopEnds, Returned, RetryTypeOK, TryRecord, Attempts, LateIsLast
    <2>6. ResultHolds'
      BY <1>1 DEF LoopEnds, Returned, RetryTypeOK, TryRecord, Attempts, ResultHolds
    <2> QED
      BY <2>1, <2>2, <2>3, <2>4, <2>5, <2>6
  <1>2. CASE FirstAttempt
    BY <1>2, BeginAttemptInv DEF FirstAttempt
  <1>3. CASE BeginWait
    <2>1. RetryTypeOK'
      BY <1>3 DEF BeginWait, RetryTypeOK, TryRecord, Attempts
    <2>2. AttemptOrder'
      BY <1>3 DEF BeginWait, RetryTypeOK, TryRecord, Attempts, AttemptOrder, Untried
    <2>3. ChannelHoldsOutcome'
      BY <1>3 DEF BeginWait, RetryTypeOK, TryRecord, Attempts, ChannelHoldsOutcome
    <2>4. LiveIsCurrent'
      BY <1>3 DEF BeginWait, RetryTypeOK, TryRecord, Attempts, LiveIsCurrent
    <2>5. LateIsLast'
      BY <1>3 DEF BeginWait, RetryTypeOK, TryRecord, Attempts, LateIsLast
    <2>6. ResultHolds'
      BY <1>3 DEF BeginWait, RetryTypeOK, TryRecord, Attempts, ResultHolds
    <2> QED
      BY <2>1, <2>2, <2>3, <2>4, <2>5, <2>6
  <1>4. CASE WaitElapsed
    BY <1>4, BeginAttemptInv DEF WaitElapsed, AttemptOrder
  <1>5. CASE WaitCancelled
    <2>1. RetryTypeOK'
      BY <1>5 DEF WaitCancelled, Returned, RetryTypeOK, TryRecord, Attempts
    <2>2. AttemptOrder'
      BY <1>5
      DEF WaitCancelled, Returned, RetryTypeOK, TryRecord, Attempts, AttemptOrder,
          Untried
    <2>3. ChannelHoldsOutcome'
      BY <1>5
      DEF WaitCancelled, Returned, RetryTypeOK, TryRecord, Attempts,
          ChannelHoldsOutcome
    <2>4. LiveIsCurrent'
      BY <1>5
      DEF WaitCancelled, Returned, RetryTypeOK, TryRecord, Attempts, LiveIsCurrent
    <2>5. LateIsLast'
      BY <1>5 DEF WaitCancelled, Returned, RetryTypeOK, TryRecord, Attempts, LateIsLast
    <2>6. ResultHolds'
      BY <1>5 DEF WaitCancelled, Returned, RetryTypeOK, TryRecord, Attempts, ResultHolds
    <2> QED
      BY <2>1, <2>2, <2>3, <2>4, <2>5, <2>6
  <1>6. CASE SelectResult
    <2>0. attempt \in Attempts /\ try[attempt] \in TryRecord
      BY <1>6 DEF SelectResult, RetryTypeOK, AttemptOrder, Attempts
    <2>1. RetryTypeOK'
      <3>1. [try[attempt] EXCEPT !.ctx = Cancelled(try[attempt].ctx), !.done = "empty"]
              \in TryRecord
        BY <2>0 DEF TryRecord, Cancelled
      <3>2. try' \in [Attempts -> TryRecord]
        BY <1>6, <3>1 DEF SelectResult, RetryTypeOK
      <3> QED
        BY <1>6, <3>2 DEF SelectResult, Returned, RetryTypeOK
    <2>2. AttemptOrder'
      BY <1>6, <2>0
      DEF SelectResult, Returned, Cancelled, RetryTypeOK, TryRecord, Attempts,
          AttemptOrder, Untried, ChannelHoldsOutcome
    <2>3. ChannelHoldsOutcome'
      BY <1>6, <2>0
      DEF SelectResult, Returned, Cancelled, RetryTypeOK, TryRecord, Attempts,
          ChannelHoldsOutcome
    <2>4. LiveIsCurrent'
      BY <1>6, <2>0
      DEF SelectResult, Returned, Cancelled, RetryTypeOK, TryRecord, Attempts,
          LiveIsCurrent
    <2>5. LateIsLast'
      BY <1>6, <2>0
      DEF SelectResult, Returned, Cancelled, RetryTypeOK, TryRecord, Attempts,
          LateIsLast
    <2>6. ResultHolds'
      BY <1>6, <2>0
      DEF SelectResult, Returned, Cancelled, RetryTypeOK, TryRecord, Attempts,
          ResultHolds, ChannelHoldsOutcome, AttemptOrder
    <2> QED
      BY <2>1, <2>2, <2>3, <2>4, <2>5, <2>6
  <1>7. CASE SelectDone
    <2>1. RetryTypeOK'
      <3>1. attempt \in Attempts
        BY <1>7, ConfigBound DEF SelectDone, RetryTypeOK, AttemptOrder, Attempts
      <3>2. [try[attempt] EXCEPT !.gaveUp = TRUE] \in TryRecord
        BY <1>7, <3>1 DEF SelectDone, RetryTypeOK, TryRecord
      <3>3. try' \in [Attempts -> TryRecord]
        BY <1>7, <3>1, <3>2 DEF SelectDone, RetryTypeOK
      <3> QED
        BY <1>7, <3>3 DEF SelectDone, RetryTypeOK
    <2>2. AttemptOrder'
      BY <1>7 DEF SelectDone, RetryTypeOK, TryRecord, Attempts, AttemptOrder, Untried
    <2>3. ChannelHoldsOutcome'
      BY <1>7 DEF SelectDone, RetryTypeOK, TryRecord, Attempts, ChannelHoldsOutcome
    <2>4. LiveIsCurrent'
      BY <1>7 DEF SelectDone, RetryTypeOK, TryRecord, Attempts, LiveIsCurrent
    <2>5. LateIsLast'
      BY <1>7 DEF SelectDone, RetryTypeOK, TryRecord, Attempts, LateIsLast
    <2>6. ResultHolds'
      BY <1>7 DEF SelectDone, RetryTypeOK, TryRecord, Attempts, ResultHolds
    <2> QED
      BY <2>1, <2>2, <2>3, <2>4, <2>5, <2>6
  <1>8. CASE Check
    <2>1. RetryTypeOK'
      BY <1>8 DEF Check, Returned, RetryTypeOK, TryRecord, Attempts
    <2>2. AttemptOrder'
      BY <1>8
      DEF Check, Returned, RetryTypeOK, TryRecord, Attempts, AttemptOrder, Untried
    <2>3. ChannelHoldsOutcome'
      BY <1>8 DEF Check, Returned, RetryTypeOK, TryRecord, Attempts, ChannelHoldsOutcome
    <2>4. LiveIsCurrent'
      BY <1>8 DEF Check, Returned, RetryTypeOK, TryRecord, Attempts, LiveIsCurrent
    <2>5. LateIsLast'
      BY <1>8 DEF Check, Returned, RetryTypeOK, TryRecord, Attempts, LateIsLast
    <2>6. ResultHolds'
      BY <1>8 DEF Check, Returned, RetryTypeOK, TryRecord, Attempts, ResultHolds
    <2> QED
      BY <2>1, <2>2, <2>3, <2>4, <2>5, <2>6
  <1>9. CASE DeadlinePasses
    <2>1. RetryTypeOK'
      BY <1>9 DEF DeadlinePasses, RetryTypeOK, TryRecord, Attempts
    <2>2. AttemptOrder'
      BY <1>9
      DEF DeadlinePasses, RetryTypeOK, TryRecord, Attempts, AttemptOrder, Untried
    <2>3. ChannelHoldsOutcome'
      BY <1>9 DEF DeadlinePasses, RetryTypeOK, TryRecord, Attempts, ChannelHoldsOutcome
    <2>4. LiveIsCurrent'
      BY <1>9 DEF DeadlinePasses, RetryTypeOK, TryRecord, Attempts, LiveIsCurrent
    <2>5. LateIsLast'
      BY <1>9 DEF DeadlinePasses, RetryTypeOK, TryRecord, Attempts, LateIsLast
    <2>6. ResultHolds'
      BY <1>9 DEF DeadlinePasses, RetryTypeOK, TryRecord, Attempts, ResultHolds
    <2> QED
      BY <2>1, <2>2, <2>3, <2>4, <2>5, <2>6
  <1>10. CASE Cancel
    <2>1. RetryTypeOK'
      <3>1. try' \in [Attempts -> TryRecord]
        BY <1>10 DEF Cancel, RetryTypeOK, TryRecord
      <3> QED
        BY <1>10, <3>1 DEF Cancel, RetryTypeOK
    <2>2. AttemptOrder'
      BY <1>10 DEF Cancel, RetryTypeOK, TryRecord, Attempts, AttemptOrder, Untried
    <2>3. ChannelHoldsOutcome'
      BY <1>10 DEF Cancel, RetryTypeOK, TryRecord, Attempts, ChannelHoldsOutcome
    <2>4. LiveIsCurrent'
      BY <1>10 DEF Cancel, RetryTypeOK, TryRecord, Attempts, LiveIsCurrent
    <2>5. LateIsLast'
      BY <1>10 DEF Cancel, RetryTypeOK, TryRecord, Attempts, LateIsLast
    <2>6. ResultHolds'
      BY <1>10 DEF Cancel, RetryTypeOK, TryRecord, Attempts, ResultHolds
    <2> QED
      BY <2>1, <2>2, <2>3, <2>4, <2>5, <2>6
  <1>11. ASSUME NEW k \in Attempts, NEW r \in {"nil", "err"}, WorkReturns(k, r)
        PROVE  RetryInv'
    <2>1. RetryTypeOK'
      <3>1. k \in Attempts
        BY <1>11
      <3>2. [try[k] EXCEPT !.work = "sending", !.outcome = r] \in TryRecord
        BY <1>11, <3>1 DEF WorkReturns, RetryTypeOK, TryRecord
      <3>3. try' \in [Attempts -> TryRecord]
        BY <1>11, <3>1, <3>2 DEF WorkReturns, RetryTypeOK
      <3> QED
        BY <1>11, <3>3 DEF WorkReturns, RetryTypeOK
    <2>2. AttemptOrder'
      BY <1>11
      DEF WorkReturns, RetryTypeOK, TryRecord, Attempts, AttemptOrder, Untried,
          ChannelHoldsOutcome
    <2>3. ChannelHoldsOutcome'
      BY <1>11 DEF WorkReturns, RetryTypeOK, TryRecord, Attempts, ChannelHoldsOutcome
    <2>4. LiveIsCurrent'
      BY <1>11 DEF WorkReturns, RetryTypeOK, TryRecord, Attempts, LiveIsCurrent
    <2>5. LateIsLast'
      BY <1>11 DEF WorkReturns, RetryTypeOK, TryRecord, Attempts, LateIsLast
    <2>6. ResultHolds'
      BY <1>11
      DEF WorkReturns, RetryTypeOK, TryRecord, Attempts, ResultHolds,
          ChannelHoldsOutcome
    <2> QED
      BY <2>1, <2>2, <2>3, <2>4, <2>5, <2>6
  <1>12. ASSUME NEW k \in Attempts, Send(k)
        PROVE  RetryInv'
    <2>1. RetryTypeOK'
      <3>1. k \in Attempts
        BY <1>12
      <3>2. [try[k] EXCEPT !.work = "ended", !.done = try[k].outcome] \in TryRecord
        BY <1>12, <3>1 DEF Send, RetryTypeOK, TryRecord, ChannelHoldsOutcome
      <3>3. try' \in [Attempts -> TryRecord]
        BY <1>12, <3>1, <3>2 DEF Send, RetryTypeOK
      <3> QED
        BY <1>12, <3>3 DEF Send, RetryTypeOK
    <2>2. AttemptOrder'
      BY <1>12 DEF Send, RetryTypeOK, TryRecord, Attempts, AttemptOrder, Untried
    <2>3. ChannelHoldsOutcome'
      BY <1>12 DEF Send, RetryTypeOK, TryRecord, Attempts, ChannelHoldsOutcome
    <2>4. LiveIsCurrent'
      BY <1>12 DEF Send, RetryTypeOK, TryRecord, Attempts, LiveIsCurrent
    <2>5. LateIsLast'
      BY <1>12 DEF Send, RetryTypeOK, TryRecord, Attempts, LateIsLast
    <2>6. ResultHolds'
      BY <1>12 DEF Send, RetryTypeOK, TryRecord, Attempts, ResultHolds
    <2> QED
      BY <2>1, <2>2, <2>3, <2>4, <2>5, <2>6
  <1>13. ASSUME NEW k \in Attempts, Expire(k)
        PROVE  RetryInv'
    <2>1. RetryTypeOK'
      <3>1. k \in Attempts
        BY <1>13
      <3>2. [try[k] EXCEPT !.ctx = "deadline"] \in TryRecord
        BY <1>13, <3>1 DEF Expire, RetryTypeOK, TryRecord
      <3>3. try' \in [Attempts -> TryRecord]
        BY <1>13, <3>1, <3>2 DEF Expire, RetryTypeOK
      <3> QED
        BY <1>13, <3>3 DEF Expire, RetryTypeOK
    <2>2. AttemptOrder'
      BY <1>13 DEF Expire, RetryTypeOK, TryRecord, Attempts, AttemptOrder, Untried
    <2>3. ChannelHoldsOutcome'
      BY <1>13 DEF Expire, RetryTypeOK, TryRecord, Attempts, ChannelHoldsOutcome
    <2>4. LiveIsCurrent'
      BY <1>13 DEF Expire, RetryTypeOK, TryRecord, Attempts, LiveIsCurrent
    <2>5. LateIsLast'
      BY <1>13 DEF Expire, RetryTypeOK, TryRecord, Attempts, LateIsLast
    <2>6. ResultHolds'
      BY <1>13 DEF Expire, RetryTypeOK, TryRecord, Attempts, ResultHolds
    <2> QED
      BY <2>1, <2>2, <2>3, <2>4, <2>5, <2>6
  <1>14. CASE UNCHANGED retryVars
    <2>1. RetryTypeOK'
      BY <1>14 DEF retryVars, RetryTypeOK, TryRecord, Attempts
    <2>2. AttemptOrder'
      BY <1>14 DEF retryVars, RetryTypeOK, TryRecord, Attempts, AttemptOrder, Untried
    <2>3. ChannelHoldsOutcome'
      BY <1>14 DEF retryVars, RetryTypeOK, TryRecord, Attempts, ChannelHoldsOutcome
    <2>4. LiveIsCurrent'
      BY <1>14 DEF retryVars, RetryTypeOK, TryRecord, Attempts, LiveIsCurrent
    <2>5. LateIsLast'
      BY <1>14 DEF retryVars, RetryTypeOK, TryRecord, Attempts, LateIsLast
    <2>6. ResultHolds'
      BY <1>14 DEF retryVars, RetryTypeOK, TryRecord, Attempts, ResultHolds
    <2> QED
      BY <2>1, <2>2, <2>3, <2>4, <2>5, <2>6
  <1> QED
    BY <1>1, <1>2, <1>3, <1>4, <1>5, <1>6, <1>7, <1>8, <1>9, <1>10, <1>11, <1>12,
       <1>13, <1>14
    DEF RetryNext, RetryStep

\* Every reachable state of WithRetry satisfies the inductive invariant.
THEOREM RetryInvariance == RetrySpec => []RetryInv
  BY RetryInitInv, RetryNextInv, PTL DEF RetrySpec

\* WithRetry returns nil only if the attempt it waited for returned nil in time,
\* every earlier one having failed or been given up (timeout.go WithRetry), or
\* if MaxAttempts is 0.
THEOREM NilMeansDoneCorrect == RetrySpec => []NilMeansDone
  <1>1. RetryInv => NilMeansDone
    BY DEF RetryInv, NilMeansDone, ResultHolds, AttemptOrder, RetryTypeOK,
           TryRecord, Attempts
  <1> QED
    BY <1>1, RetryInvariance, PTL

\* At most one attempt has a live context, none after WithRetry has returned, and
\* at most one attempt begins after the caller's ctx is done.
THEOREM OneLiveAttemptCorrect == RetrySpec => []OneLiveAttempt
  <1>1. RetryInv => OneLiveAttempt
    BY DEF RetryInv, OneLiveAttempt, LiveIsCurrent, LateIsLast, RetryTypeOK
  <1> QED
    BY <1>1, RetryInvariance, PTL

=============================================================================
