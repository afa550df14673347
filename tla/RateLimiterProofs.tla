------------------------- MODULE RateLimiterProofs -------------------------
(***************************************************************************)
(* Proofs about the token bucket, the window limiters and the chain of two *)
(* limiters in MultiLimiter, for every capacity, rate, limit and window.   *)
(*                                                                         *)
(* The state of each limiter and the history of what it admitted are bound *)
(* by one predicate (BucketOK, FillOK, SlidingOK, FixedOK) whose arguments *)
(* are plain values, so that the same lemmas serve a limiter on its own    *)
(* and a limiter inside the chain, which has a history of its own.         *)
(***************************************************************************)
EXTENDS MultiLimiter, FiniteSetTheorems, TLAPS

\* Histories, and what one looks like at time c: it never decreases, and
\* nothing has been admitted yet after c.
Totals == [Bounds -> Nat]
History(A, c) ==
    /\ A \in Totals
    /\ \A s, t \in Bounds : s <= t => A[s] <= A[t]
    /\ \A t \in Bounds : t > c => A[t] = A[c + 1]

\* The history after n more at time c.
AdmitTo(A, c, n) == [t \in Bounds |-> IF t > c THEN A[t] + n ELSE A[t]]

\* The two ends of an interval that a bound speaks of.
LEMMA TimesInBounds ==
  ASSUME NEW t \in Times
  PROVE  t \in Bounds /\ t + 1 \in Bounds /\ t \in Nat
  BY LimiterAssumption DEF Times, Bounds

\* Admitting more keeps a history a history.
LEMMA AdmitHistory ==
  ASSUME NEW c \in Times, NEW A, History(A, c), NEW n \in Nat
  PROVE  History(AdmitTo(A, c, n), c)
  <1> DEFINE B == AdmitTo(A, c, n)
  <1>1. A \in Totals /\ c \in Nat /\ c + 1 \in Bounds
    BY TimesInBounds DEF History
  <1>2. \A t \in Bounds : A[t] \in Nat /\ t \in Nat
    BY <1>1 DEF Totals, Bounds
  <1>3. \A t \in Bounds : B[t] = IF t > c THEN A[t] + n ELSE A[t]
    BY DEF AdmitTo
  <1>4. B \in Totals
    BY <1>2 DEF AdmitTo, Totals
  <1> HIDE DEF B
  <1>5. \A s, t \in Bounds : s <= t => B[s] <= B[t]
    BY <1>1, <1>2, <1>3 DEF History
  <1>6. \A t \in Bounds : t > c => B[t] = B[c + 1]
    BY <1>1, <1>2, <1>3 DEF History
  <1> QED
    BY <1>4, <1>5, <1>6 DEF B, History

\* Time passes: still nothing after the clock.
LEMMA TickHistory ==
  ASSUME NEW c \in Times, c < MaxTime, NEW A, History(A, c)
  PROVE  History(A, c + 1) /\ c + 1 \in Times /\ A[c + 2] = A[c + 1]
  <1>1. c + 1 \in Times /\ c + 1 \in Bounds /\ c + 2 \in Bounds /\ c \in Nat
    BY LimiterAssumption DEF Times, Bounds
  <1>2. A[c + 2] = A[c + 1]
    BY <1>1 DEF History
  <1>3. \A t \in Bounds : t > c + 1 => A[t] = A[c + 1]
    BY <1>1 DEF History, Bounds
  <1>4. c + 1 + 1 = c + 2
    BY <1>1
  <1> QED
    BY <1>1, <1>2, <1>3, <1>4 DEF History

-----------------------------------------------------------------------------
(***************************************************************************)
(* Arithmetic of whole seconds.                                            *)
(***************************************************************************)

\* Whole seconds in a time x.
Seconds(x) == x \div TicksPerSecond

\* What \div by the ticks of a second is.
LEMMA SecondsOf ==
  ASSUME NEW x \in Int
  PROVE  /\ Seconds(x) \in Int
         /\ TicksPerSecond * Seconds(x) <= x
         /\ x < TicksPerSecond * Seconds(x) + TicksPerSecond
         /\ x >= 0 => Seconds(x) \in Nat
  BY LimiterAssumption DEF Seconds

\* Two times have together no fewer seconds than apart.
LEMMA SecondsAdd ==
  ASSUME NEW x \in Int, NEW y \in Int
  PROVE  Seconds(x) + Seconds(y) <= Seconds(x + y)
  BY LimiterAssumption DEF Seconds

\* A longer time has no fewer seconds.
LEMMA SecondsGrow ==
  ASSUME NEW x \in Int, NEW y \in Int, x <= y
  PROVE  Seconds(x) <= Seconds(y)
  BY LimiterAssumption DEF Seconds

\* A time that is less than a second longer has at most a second more.
LEMMA SecondsStart ==
  ASSUME NEW x \in Int
  PROVE  Seconds(x + TicksPerSecond - 1) <= Seconds(x) + 1
  BY LimiterAssumption DEF Seconds

\* The refill of more seconds is no less.
LEMMA RateGrows ==
  ASSUME NEW x \in Int, NEW y \in Int, x <= y
  PROVE  refillRate * x <= refillRate * y /\ refillRate * x \in Int
  BY LimiterAssumption

\* The smaller of two numbers.
LEMMA MinOfTwo ==
  ASSUME NEW a \in Int, NEW b \in Int
  PROVE  Min({a, b}) = IF a <= b THEN a ELSE b
  BY DEF Min

-----------------------------------------------------------------------------
(***************************************************************************)
(* The token bucket: k tokens, L the time of the last refill, A what was   *)
(* admitted, c the clock.                                                  *)
(***************************************************************************)

\* Seconds the refill may have paid for since s, if something was admitted since.
Paid(s, L) == Seconds(L - s + TicksPerSecond - 1)

\* RateBound at time c: what was admitted since s and what is left together are
\* no more than a full bucket and the seconds that were paid for.  Once
\* something has been admitted since s, the last refill is less than a second
\* before s at most: AllowN refills first.
BucketOK(A, k, L, c) ==
    /\ k \in 0 .. capacity /\ L \in 0 .. c
    /\ \A s \in 0 .. c : A[c + 1] # A[s] =>
          /\ L > s - TicksPerSecond
          /\ A[c + 1] - A[s] + k <= capacity + refillRate * Paid(s, L)
    /\ \A s \in Times : \A t \in s .. MaxTime :
          A[t + 1] - A[s] <= capacity + refillRate * (Seconds(t - s) + 1)

\* refill: the tokens and the time of the last refill after it.
RefillTo(k, L, c) == Min({capacity, k + Seconds(c - L) * refillRate})
RefillAt(L, c) == IF Seconds(c - L) * refillRate > 0 THEN c ELSE L

\* What refill leaves: L moves to the clock and tokens are added, or nothing
\* changes within the second.
LEMMA RefillResult ==
  ASSUME NEW c \in Times, NEW k \in 0 .. capacity, NEW L \in 0 .. c
  PROVE  /\ RefillTo(k, L, c) \in 0 .. capacity /\ RefillAt(L, c) \in 0 .. c
         /\ c - RefillAt(L, c) < TicksPerSecond
         /\ Seconds(c - L) \in Nat
         /\ RefillTo(k, L, c) <= k + refillRate * Seconds(c - L)
         /\ RefillTo(k, L, c) # capacity
              => RefillTo(k, L, c) = k + refillRate * Seconds(c - L)
         /\ Seconds(c - L) > 0 => RefillAt(L, c) = c
         /\ Seconds(c - L) = 0 => RefillAt(L, c) = L /\ RefillTo(k, L, c) = k
  <1> DEFINE q == Seconds(c - L)
             add == q * refillRate
  <1>1. /\ c \in Nat /\ L \in Nat /\ k \in Nat /\ k <= capacity /\ L <= c
        /\ capacity \in Nat /\ refillRate \in Nat \ {0} /\ TicksPerSecond \in Nat \ {0}
    BY LimiterAssumption, TimesInBounds
  <1>2. /\ q \in Nat /\ c - L < TicksPerSecond * q + TicksPerSecond
    BY <1>1, SecondsOf
  <1> HIDE DEF q
  <1>3. /\ add \in Nat /\ add = refillRate * q /\ (add > 0 <=> q > 0)
    BY <1>1, <1>2
  <1>4. RefillTo(k, L, c) = IF capacity <= k + add THEN capacity ELSE k + add
    BY <1>1, <1>3, MinOfTwo DEF RefillTo, q
  <1>5. RefillAt(L, c) = IF q > 0 THEN c ELSE L
    BY <1>3 DEF RefillAt, q
  <1>6. c - RefillAt(L, c) < TicksPerSecond
    BY <1>1, <1>2, <1>5
  <1>7. q = 0 => add = 0
    BY <1>3
  <1> HIDE DEF add
  <1> QED
    BY <1>1, <1>2, <1>3, <1>4, <1>5, <1>6, <1>7 DEF q

\* refill keeps BucketOK.
LEMMA RefillOK ==
  ASSUME NEW c \in Times, NEW A, History(A, c), NEW k, NEW L, BucketOK(A, k, L, c)
  PROVE  BucketOK(A, RefillTo(k, L, c), RefillAt(L, c), c)
  <1> DEFINE j == RefillTo(k, L, c)
             M == RefillAt(L, c)
             q == Seconds(c - L)
  <1>1. /\ k \in 0 .. capacity /\ L \in 0 .. c /\ c \in Nat
        /\ capacity \in Nat /\ refillRate \in Nat \ {0} /\ TicksPerSecond \in Nat \ {0}
    BY LimiterAssumption, TimesInBounds DEF BucketOK
  <1>2. /\ j \in 0 .. capacity /\ M \in 0 .. c /\ q \in Nat /\ j <= k + refillRate * q
        /\ q > 0 => M = c
        /\ q = 0 => M = L /\ j = k
    BY <1>1, RefillResult
  <1> HIDE DEF j, M, q
  <1>3. ASSUME NEW s \in 0 .. c, A[c + 1] # A[s]
        PROVE  /\ M > s - TicksPerSecond
               /\ A[c + 1] - A[s] + j <= capacity + refillRate * Paid(s, M)
    <2>1. /\ L > s - TicksPerSecond
          /\ A[c + 1] - A[s] + k <= capacity + refillRate * Paid(s, L)
      BY <1>3 DEF BucketOK
    <2>2. CASE q = 0
      BY <1>2, <2>1, <2>2
    <2>3. CASE q > 0
      <3>1. M = c /\ s \in Nat /\ s <= c
        BY <1>1, <1>2, <2>3
      <3>2. A[c + 1] \in Nat /\ A[s] \in Nat
        BY <1>1, LimiterAssumption DEF History, Totals, Times, Bounds
      <3>3. Paid(s, L) + q <= Paid(s, c)
        <4>1. L - s + TicksPerSecond - 1 + (c - L) = c - s + TicksPerSecond - 1
          BY <1>1, <3>1
        <4> QED
          BY <1>1, <3>1, <4>1, SecondsAdd DEF Paid, q
      <3>4. Paid(s, L) \in Int /\ Paid(s, c) \in Int
        BY <1>1, <3>1, SecondsOf DEF Paid
      <3>5. refillRate * (Paid(s, L) + q) <= refillRate * Paid(s, c)
        BY <1>2, <3>3, <3>4, RateGrows
      <3>6. refillRate * (Paid(s, L) + q) = refillRate * Paid(s, L) + refillRate * q
        BY <1>1, <1>2, <3>4
      <3>7. /\ refillRate * Paid(s, L) \in Int /\ refillRate * q \in Int
            /\ refillRate * Paid(s, c) \in Int
        BY <1>1, <1>2, <3>4
      <3>8. A[c + 1] - A[s] + j <= capacity + refillRate * Paid(s, c)
        BY <1>1, <1>2, <2>1, <3>2, <3>5, <3>6, <3>7
      <3> QED
        BY <1>1, <3>1, <3>8
    <2> QED
      BY <1>2, <2>2, <2>3
  <1> QED
    BY <1>2, <1>3 DEF BucketOK, j, M

\* Taking n tokens less than a second after the last refill keeps BucketOK.
LEMMA TakeOK ==
  ASSUME NEW c \in Times, NEW A, History(A, c), NEW k, NEW L, BucketOK(A, k, L, c),
         c - L < TicksPerSecond, NEW n \in Nat, n <= k
  PROVE  BucketOK(AdmitTo(A, c, n), k - n, L, c)
  <1> DEFINE B == AdmitTo(A, c, n)
  <1>1. /\ k \in 0 .. capacity /\ L \in 0 .. c /\ c \in Nat
        /\ capacity \in Nat /\ refillRate \in Nat \ {0} /\ TicksPerSecond \in Nat \ {0}
    BY LimiterAssumption, TimesInBounds DEF BucketOK
  <1>2. \A t \in Bounds : /\ B[t] = IF t > c THEN A[t] + n ELSE A[t]
                          /\ A[t] \in Nat /\ t \in Nat
    BY DEF AdmitTo, History, Totals, Bounds
  <1>3. \A t \in Bounds : t > c => A[t] = A[c + 1]
    BY DEF History
  <1> HIDE DEF B
  <1>4. ASSUME NEW s \in 0 .. c
        PROVE  /\ L > s - TicksPerSecond
               /\ B[c + 1] - B[s] + (k - n) <= capacity + refillRate * Paid(s, L)
    <2>1. L > s - TicksPerSecond /\ Paid(s, L) \in Nat
      BY <1>1, SecondsOf DEF Paid
    <2>2. s \in Bounds /\ c + 1 \in Bounds
      BY <1>1, LimiterAssumption DEF Times, Bounds
    <2>3. B[c + 1] - B[s] = A[c + 1] + n - A[s]
      BY <1>1, <1>2, <2>2
    <2>4. /\ A[c + 1] \in Nat /\ A[s] \in Nat /\ refillRate * Paid(s, L) \in Nat
      BY <1>1, <1>2, <2>1, <2>2
    <2>5. CASE A[c + 1] = A[s]
      BY <1>1, <2>1, <2>3, <2>4, <2>5
    <2>6. CASE A[c + 1] # A[s]
      BY <1>1, <2>1, <2>3, <2>4, <2>6 DEF BucketOK
    <2> QED
      BY <2>5, <2>6
  <1>5. ASSUME NEW s \in Times, NEW t \in s .. MaxTime
        PROVE  B[t + 1] - B[s] <= capacity + refillRate * (Seconds(t - s) + 1)
    <2>1. /\ s \in Nat /\ t \in Nat /\ s <= t /\ t \in Times
          /\ s \in Bounds /\ t + 1 \in Bounds /\ c + 1 \in Bounds
      BY LimiterAssumption, TimesInBounds DEF Times
    <2>2. A[t + 1] - A[s] <= capacity + refillRate * (Seconds(t - s) + 1)
      BY DEF BucketOK
    <2>3. CASE t < c \/ s > c
      <3>1. t + 1 > c <=> s > c
        BY <1>1, <2>1, <2>3
      <3>2. B[t + 1] - B[s] = A[t + 1] - A[s]
        BY <1>1, <1>2, <2>1, <3>1
      <3> QED
        BY <2>2, <3>2
    <2>4. CASE t >= c /\ s <= c
      <3>1. B[t + 1] - B[s] = B[c + 1] - B[s]
        BY <1>1, <1>2, <1>3, <2>1, <2>4
      <3>2. B[c + 1] - B[s] + (k - n) <= capacity + refillRate * Paid(s, L)
        BY <1>1, <1>4, <2>1, <2>4
      <3>3. Paid(s, L) <= Seconds(t - s) + 1 /\ Paid(s, L) \in Int /\ Seconds(t - s) \in Int
        <4>1. /\ L - s \in Int /\ t - s \in Int /\ L - s <= t - s
              /\ L - s + TicksPerSecond - 1 \in Int
          BY <1>1, <2>1, <2>4
        <4>2. /\ Seconds(L - s) \in Int /\ Seconds(t - s) \in Int
              /\ Paid(s, L) \in Int
          BY <4>1, SecondsOf DEF Paid
        <4>3. Paid(s, L) <= Seconds(L - s) + 1
          BY <4>1, SecondsStart DEF Paid
        <4>4. Seconds(L - s) <= Seconds(t - s)
          BY <4>1, SecondsGrow
        <4> QED
          BY <4>2, <4>3, <4>4
      <3>4. refillRate * Paid(s, L) <= refillRate * (Seconds(t - s) + 1)
        BY <3>3, RateGrows
      <3>5. /\ refillRate * Paid(s, L) \in Int /\ refillRate * (Seconds(t - s) + 1) \in Int
            /\ B[c + 1] \in Nat /\ B[s] \in Nat
        BY <1>1, <1>2, <2>1, <3>3
      <3> QED
        BY <1>1, <3>1, <3>2, <3>4, <3>5
    <2> QED
      BY <1>1, <2>1, <2>3, <2>4
  <1>6. k - n \in 0 .. capacity
    BY <1>1
  <1> QED
    BY <1>1, <1>4, <1>5, <1>6 DEF BucketOK, B

\* Time passes: nothing was admitted yet since the new time.
LEMMA TickBucket ==
  ASSUME NEW c \in Times, c < MaxTime, NEW A, History(A, c), NEW k, NEW L,
         BucketOK(A, k, L, c)
  PROVE  BucketOK(A, k, L, c + 1)
  <1>1. A[c + 2] = A[c + 1] /\ c \in Nat
    BY TickHistory, TimesInBounds
  <1>2. c + 1 + 1 = c + 2 /\ 0 .. c + 1 = (0 .. c) \cup {c + 1}
    BY <1>1
  <1>3. L \in 0 .. c + 1
    BY <1>1 DEF BucketOK
  <1> QED
    BY <1>1, <1>2, <1>3 DEF BucketOK

-----------------------------------------------------------------------------
(***************************************************************************)
(* How fast the bucket fills: F is when it was last full, S what it handed *)
(* out since.                                                              *)
(***************************************************************************)

\* Since F the bucket was paid for q seconds and no token was cut off, and the
\* time up to the last refill is at most twice what was paid for: a refill that
\* pays for whole seconds forgets less than one more.
FillOK(k, L, F, S, c) ==
    /\ F \in 0 .. c /\ S \in Nat
    /\ \E q \in Nat : /\ k = capacity - S + refillRate * q
                      /\ L - F <= 2 * TicksPerSecond * q

\* Half the seconds of the whole time are at most those paid for in its parts.
LEMMA HalfSeconds ==
  ASSUME NEW T \in Nat \ {0}, NEW q \in Nat, NEW d \in Nat, NEW x \in Int,
         x < 2 * T * q + T * d
  PROVE  x \div (2 * T) <= q + d
  <1>1. 2 * T \in Nat \ {0}
    OBVIOUS
  <1>2. x < 2 * T * (q + d) + 1
    <2>1. T * d <= 2 * (T * d) /\ T * d \in Nat
      OBVIOUS
    <2>2. 2 * T * (q + d) = 2 * T * q + 2 * (T * d)
      OBVIOUS
    <2> QED
      BY <2>1, <2>2
  <1> DEFINE U == 2 * T
             h == x \div U
  <1>3. h \in Int /\ U * h <= x
    BY <1>1
  <1>4. U * h <= U * (q + d)
    BY <1>1, <1>2, <1>3
  <1> HIDE DEF U, h
  <1>5. U \in Nat \ {0} /\ h \in Int
    BY <1>1, <1>3 DEF U
  <1>6. h <= q + d
    BY <1>4, <1>5
  <1> QED
    BY <1>6 DEF U, h

\* FillsAtHalfRate follows.
LEMMA FillsFast ==
  ASSUME NEW c \in Times, NEW k \in 0 .. capacity, NEW L \in 0 .. c, NEW F, NEW S,
         FillOK(k, L, F, S, c)
  PROVE  RefillTo(k, L, c)
           >= Min({capacity, capacity - S + refillRate *
                     ((c - F - TicksPerSecond) \div (2 * TicksPerSecond))})
  <1> DEFINE T == TicksPerSecond
             d == Seconds(c - L)
             h == (c - F - T) \div (2 * T)
  <1>1. /\ c \in Nat /\ L \in Nat /\ L <= c /\ F \in Nat /\ F <= c /\ S \in Nat
        /\ capacity \in Nat /\ refillRate \in Nat \ {0} /\ T \in Nat \ {0} /\ k \in Nat
    BY LimiterAssumption, TimesInBounds DEF FillOK
  <1>2. PICK q \in Nat : /\ k = capacity - S + refillRate * q
                         /\ L - F <= 2 * T * q
    BY DEF FillOK
  <1>3. d \in Nat /\ c - L < T * d + T
    BY <1>1, SecondsOf
  <1> HIDE DEF d
  <1>4. h <= q + d
    <2>1. c - F - T < 2 * T * q + T * d
      <3>1. 2 * T * q \in Int /\ T * d \in Int
        BY <1>1, <1>2, <1>3
      <3> HIDE DEF T
      <3> QED
        BY <1>1, <1>2, <1>3, <3>1
    <2>2. c - F - T \in Int
      BY <1>1
    <2> QED
      BY <1>1, <1>3, <2>1, <2>2, HalfSeconds
  <1>5. h \in Int
    BY <1>1
  <1> HIDE DEF h
  <1>6. refillRate * h <= refillRate * q + refillRate * d
    <2>1. refillRate * h <= refillRate * (q + d)
      BY <1>3, <1>4, <1>5, RateGrows
    <2>2. refillRate * (q + d) = refillRate * q + refillRate * d
      BY <1>1, <1>3
    <2> QED
      BY <2>1, <2>2
  <1>7. refillRate * h \in Int /\ refillRate * q \in Int /\ refillRate * d \in Int
    BY <1>1, <1>3, <1>5
  <1>8. Min({capacity, capacity - S + refillRate * h})
          = IF capacity <= capacity - S + refillRate * h
            THEN capacity ELSE capacity - S + refillRate * h
    BY <1>1, <1>7, MinOfTwo
  <1>9. /\ RefillTo(k, L, c) \in 0 .. capacity
        /\ RefillTo(k, L, c) # capacity => RefillTo(k, L, c) = k + refillRate * d
    BY <1>1, RefillResult DEF d
  <1>10. RefillTo(k, L, c) >= Min({capacity, capacity - S + refillRate * h})
    BY <1>1, <1>2, <1>6, <1>7, <1>8, <1>9
  <1> QED
    BY <1>10 DEF h

\* refill and taking n tokens keep FillOK.
LEMMA TakeFill ==
  ASSUME NEW c \in Times, NEW k \in 0 .. capacity, NEW L \in 0 .. c, NEW F, NEW S,
         FillOK(k, L, F, S, c), NEW n \in Nat
  PROVE  FillOK(RefillTo(k, L, c) - n, RefillAt(L, c),
                IF RefillTo(k, L, c) = capacity THEN c ELSE F,
                IF RefillTo(k, L, c) = capacity THEN n ELSE S + n, c)
  <1> DEFINE T == TicksPerSecond
             d == Seconds(c - L)
             j == RefillTo(k, L, c)
             M == RefillAt(L, c)
  <1>1. /\ c \in Nat /\ L \in Nat /\ L <= c /\ F \in Nat /\ F <= c /\ S \in Nat
        /\ capacity \in Nat /\ refillRate \in Nat \ {0} /\ T \in Nat \ {0} /\ k \in Nat
    BY LimiterAssumption, TimesInBounds DEF FillOK
  <1>2. PICK q \in Nat : /\ k = capacity - S + refillRate * q
                         /\ L - F <= 2 * T * q
    BY DEF FillOK
  <1>3. d \in Nat /\ c - L < T * d + T
    BY <1>1, SecondsOf
  <1>4. /\ j \in 0 .. capacity /\ M \in 0 .. c
        /\ j # capacity => j = k + refillRate * d
        /\ d > 0 => M = c
        /\ d = 0 => M = L /\ j = k
    BY <1>1, RefillResult
  <1> HIDE DEF d, j, M
  <1>5. CASE j = capacity
    <2>1. j - n = capacity - n + refillRate * 0 /\ M - c <= 2 * T * 0
      BY <1>1, <1>4, <1>5
    <2>2. c \in 0 .. c /\ 0 \in Nat
      BY <1>1
    <2>3. FillOK(j - n, M, c, n, c)
      BY <2>1, <2>2 DEF FillOK
    <2> QED
      BY <1>5, <2>3 DEF j, M
  <1>6. CASE j # capacity
    <2>1. j - n = capacity - (S + n) + refillRate * (q + d)
      <3>1. refillRate * (q + d) = refillRate * q + refillRate * d
        BY <1>1, <1>3
      <3>2. refillRate * q \in Int /\ refillRate * d \in Int
        BY <1>1, <1>3
      <3> QED
        BY <1>1, <1>2, <1>4, <1>6, <3>1, <3>2
    <2>2. M - F <= 2 * T * (q + d)
      <3>1. 2 * T * (q + d) = 2 * T * q + 2 * (T * d) /\ T * d \in Nat /\ 2 * T * q \in Nat
        BY <1>1, <1>2, <1>3
      <3>2. d > 0 => T * d >= T
        BY <1>1, <1>3
      <3> HIDE DEF T
      <3> QED
        BY <1>1, <1>2, <1>3, <1>4, <3>1, <3>2
    <2>3. q + d \in Nat /\ S + n \in Nat /\ F \in 0 .. c
      BY <1>1, <1>3
    <2>4. FillOK(j - n, M, F, S + n, c)
      BY <2>1, <2>2, <2>3 DEF FillOK
    <2> QED
      BY <1>6, <2>4 DEF j, M
  <1> QED
    BY <1>5, <1>6

-----------------------------------------------------------------------------
(***************************************************************************)
(* The sliding window: q is what it remembers.                             *)
(***************************************************************************)

\* The first time of the window that ends at c.
Low(c) == IF c - window + 1 > 0 THEN c - window + 1 ELSE 0

\* No interval shorter than a window holds more than m requests.
WindowHolds(A, m) ==
    \A s \in Times : \A t \in s .. MaxTime :
        t - s < window => A[t + 1] - A[s] <= m

\* Number the requests as they were admitted: the limiter remembers the last
\* Len(q) of them, in this order and with their times, and has forgotten none
\* of the window.
SlidingOK(A, q, c) ==
    /\ q \in Seq(0 .. c) /\ Len(q) <= limit
    /\ \A i \in 1 .. Len(q) :
          /\ A[q[i]] < A[c + 1] - Len(q) + i
          /\ A[c + 1] - Len(q) + i <= A[q[i] + 1]
    /\ A[c + 1] - Len(q) <= A[Low(c)]
    /\ WindowHolds(A, limit)

\* cleanup(now)
Kept(q, c) ==
    LET valid == {i \in DOMAIN q : q[i] > c - window}
    IN  [n \in 1 .. Cardinality(valid) |-> q[InOrder(valid)[n]]]

\* The window begins within the history.
LEMMA LowInBounds ==
  ASSUME NEW c \in Times
  PROVE  Low(c) \in 0 .. c /\ Low(c) \in Bounds /\ c - Low(c) < window
         /\ \A t \in 0 .. c : t > c - window <=> t >= Low(c)
  BY LimiterAssumption DEF Low, Times, Bounds

\* Numbers from a to b in order.
LEMMA InOrderInterval ==
  ASSUME NEW a \in Nat \ {0}, NEW b \in Nat, a <= b + 1
  PROVE  /\ Cardinality(a .. b) = b - a + 1
         /\ \A n \in 1 .. b - a + 1 : InOrder(a .. b)[n] = a + n - 1
  <1>1. Cardinality(a .. b) = b - a + 1
    <2>1. CASE a <= b
      BY <2>1, FS_Interval
    <2>2. CASE a = b + 1
      BY <2>2, FS_Interval
    <2> QED
      BY <2>1, <2>2
  <1>2. ASSUME NEW i \in a .. b
        PROVE  Cardinality({j \in a .. b : j < i}) = i - a
    <2>1. {j \in a .. b : j < i} = a .. (i - 1)
      OBVIOUS
    <2>2. Cardinality(a .. (i - 1)) = i - a
      BY FS_Interval
    <2> QED
      BY <2>1, <2>2
  <1>3. ASSUME NEW n \in 1 .. b - a + 1
        PROVE  InOrder(a .. b)[n] = a + n - 1
    <2>1. InOrder(a .. b)[n]
            = CHOOSE i \in a .. b : Cardinality({j \in a .. b : j < i}) = n - 1
      BY <1>1 DEF InOrder
    <2>2. a + n - 1 \in a .. b
      OBVIOUS
    <2>3. \A i \in a .. b : Cardinality({j \in a .. b : j < i}) = n - 1 <=> i = a + n - 1
      BY <1>2
    <2> QED
      BY <2>1, <2>2, <2>3
  <1> QED
    BY <1>1, <1>3

\* A function on 1 .. n is a list of length n.
LEMMA ListOf ==
  ASSUME NEW S, NEW n \in Nat, NEW f \in [1 .. n -> S]
  PROVE  f \in Seq(S) /\ Len(f) = n
  OBVIOUS

\* What stands in a list.
LEMMA MemberOf ==
  ASSUME NEW S, NEW q \in Seq(S), NEW i \in 1 .. Len(q)
  PROVE  q[i] \in S
  OBVIOUS

\* A list of members of S is one of members of a larger set.
LEMMA WiderList ==
  ASSUME NEW S, NEW T, S \subseteq T, NEW q \in Seq(S)
  PROVE  q \in Seq(T)
  <1>1. Len(q) \in Nat /\ q \in [1 .. Len(q) -> S]
    OBVIOUS
  <1>2. q \in [1 .. Len(q) -> T]
    BY <1>1
  <1> QED
    BY <1>1, <1>2, ListOf

\* cleanup keeps exactly the requests of the window, the last of the list.
LEMMA KeptIsTail ==
  ASSUME NEW c \in Times, NEW A, History(A, c), NEW q, SlidingOK(A, q, c)
  PROVE  LET d == A[c + 1] - A[Low(c)] IN
         /\ d \in 0 .. Len(q)
         /\ Kept(q, c) = [n \in 1 .. d |-> q[Len(q) - d + n]]
  <1> DEFINE d == A[c + 1] - A[Low(c)]
             l == Len(q)
             valid == {i \in DOMAIN q : q[i] > c - window}
  <1>1. /\ c \in Nat /\ q \in Seq(0 .. c) /\ l \in Nat /\ DOMAIN q = 1 .. l
        /\ c + 1 \in Bounds /\ Low(c) \in Bounds /\ Low(c) \in 0 .. c
    BY TimesInBounds, LowInBounds DEF SlidingOK
  <1>2. \A t \in Bounds : A[t] \in Nat
    BY DEF History, Totals
  <1>3. \A s, t \in Bounds : s <= t => A[s] <= A[t]
    BY DEF History
  <1>4. d \in 0 .. l
    <2>1. A[Low(c)] <= A[c + 1] /\ A[Low(c)] \in Nat /\ A[c + 1] \in Nat
      BY <1>1, <1>2, <1>3
    <2>2. A[c + 1] - l <= A[Low(c)]
      BY DEF SlidingOK
    <2> QED
      BY <1>1, <2>1, <2>2
  <1> HIDE DEF d, l
  <1>5. ASSUME NEW i \in 1 .. l
        PROVE  q[i] > c - window <=> i > l - d
    <2>1. q[i] \in 0 .. c /\ q[i] \in Bounds /\ q[i] + 1 \in Bounds
      BY <1>1, LimiterAssumption DEF Times, Bounds, l
    <2>2. q[i] > c - window <=> q[i] >= Low(c)
      BY <2>1, LowInBounds
    <2>3. /\ A[q[i]] < A[c + 1] - l + i
          /\ A[c + 1] - l + i <= A[q[i] + 1]
      BY DEF SlidingOK, l
    <2>4. q[i] >= Low(c) => A[Low(c)] <= A[q[i]]
      BY <1>1, <1>3, <2>1
    <2>5. q[i] < Low(c) => A[q[i] + 1] <= A[Low(c)]
      BY <1>1, <1>3, <2>1
    <2>6. /\ A[q[i]] \in Nat /\ A[q[i] + 1] \in Nat /\ A[Low(c)] \in Nat
          /\ A[c + 1] \in Nat /\ Low(c) \in Nat /\ q[i] \in Nat
      BY <1>1, <1>2, <2>1
    <2>7. l \in Nat /\ i \in Nat
      BY <1>1
    <2>8. q[i] >= Low(c) => A[Low(c)] < A[c + 1] - l + i
      BY <2>3, <2>4, <2>6, <2>7
    <2>9. q[i] < Low(c) => A[c + 1] - l + i <= A[Low(c)]
      BY <2>3, <2>5, <2>6, <2>7
    <2>10. A[Low(c)] < A[c + 1] - l + i <=> i > l - d
      BY <2>6, <2>7 DEF d
    <2> QED
      BY <2>2, <2>6, <2>7, <2>8, <2>9, <2>10
  <1>6. valid = (l - d + 1) .. l
    BY <1>1, <1>4, <1>5
  <1>7. l - d + 1 \in Nat \ {0} /\ l - d + 1 <= l + 1 /\ l - (l - d + 1) + 1 = d
    BY <1>1, <1>4
  <1>8. /\ Cardinality(valid) = d
        /\ \A n \in 1 .. d : InOrder(valid)[n] = l - d + n
    <2> HIDE DEF valid
    <2>1. /\ Cardinality(valid) = l - (l - d + 1) + 1
          /\ \A n \in 1 .. l - (l - d + 1) + 1 : InOrder(valid)[n] = (l - d + 1) + n - 1
      BY <1>1, <1>6, <1>7, InOrderInterval
    <2>2. \A n \in 1 .. d : (l - d + 1) + n - 1 = l - d + n
      BY <1>1, <1>4
    <2> QED
      BY <1>7, <2>1, <2>2
  <1>9. Kept(q, c) = [n \in 1 .. Cardinality(valid) |-> q[InOrder(valid)[n]]]
    BY DEF Kept
  <1> HIDE DEF valid
  <1>10. Kept(q, c) = [n \in 1 .. d |-> q[l - d + n]]
    BY <1>8, <1>9
  <1> QED
    BY <1>4, <1>10 DEF d, l

\* cleanup keeps SlidingOK.
LEMMA KeptOK ==
  ASSUME NEW c \in Times, NEW A, History(A, c), NEW q, SlidingOK(A, q, c)
  PROVE  /\ SlidingOK(A, Kept(q, c), c)
         /\ Len(Kept(q, c)) = A[c + 1] - A[Low(c)]
  <1> DEFINE d == A[c + 1] - A[Low(c)]
             l == Len(q)
             k == Kept(q, c)
  <1>1. /\ c \in Nat /\ q \in Seq(0 .. c) /\ l \in Nat /\ l <= limit /\ DOMAIN q = 1 .. l
        /\ c + 1 \in Bounds /\ Low(c) \in Bounds /\ limit \in Nat
    BY TimesInBounds, LowInBounds, LimiterAssumption DEF SlidingOK
  <1>2. A[c + 1] \in Nat /\ A[Low(c)] \in Nat
    BY <1>1 DEF History, Totals
  <1>3. d \in 0 .. l /\ k = [n \in 1 .. d |-> q[l - d + n]]
    BY KeptIsTail
  <1>4. A[c + 1] - d = A[Low(c)]
    BY <1>2
  <1> HIDE DEF d, l, k
  <1>5. \A n \in 1 .. d : l - d + n \in 1 .. l
    BY <1>1, <1>3
  <1>6. k \in Seq(0 .. c) /\ Len(k) = d
    <2>1. \A n \in 1 .. d : q[l - d + n] \in 0 .. c
      BY <1>1, <1>5
    <2>2. k \in [1 .. d -> 0 .. c] /\ d \in Nat
      BY <1>3, <2>1
    <2> QED
      BY <2>2, ListOf
  <1>7. ASSUME NEW n \in 1 .. d
        PROVE  /\ A[k[n]] < A[c + 1] - d + n
               /\ A[c + 1] - d + n <= A[k[n] + 1]
    <2>1. k[n] = q[l - d + n] /\ l - d + n \in 1 .. l
      BY <1>3, <1>5
    <2>2. /\ A[k[n]] < A[c + 1] - l + (l - d + n)
          /\ A[c + 1] - l + (l - d + n) <= A[k[n] + 1]
      <3>1. \A i \in 1 .. l : /\ A[q[i]] < A[c + 1] - l + i
                              /\ A[c + 1] - l + i <= A[q[i] + 1]
        BY DEF SlidingOK, l
      <3> QED
        BY <2>1, <3>1
    <2>3. A[c + 1] - l + (l - d + n) = A[c + 1] - d + n
      BY <1>1, <1>2, <1>3
    <2> QED
      BY <2>2, <2>3
  <1>8. d <= limit /\ A[c + 1] - d <= A[Low(c)]
    BY <1>1, <1>2, <1>3, <1>4
  <1>9. SlidingOK(A, k, c)
    BY <1>6, <1>7, <1>8 DEF SlidingOK
  <1> QED
    BY <1>6, <1>9 DEF k, d

\* Remembering n requests after a cleanup keeps SlidingOK.
LEMMA SlideOK ==
  ASSUME NEW c \in Times, NEW A, History(A, c), NEW q, SlidingOK(A, q, c),
         NEW n \in Nat, Len(q) + n <= limit
  PROVE  SlidingOK(AdmitTo(A, c, n), q \o [i \in 1 .. n |-> c], c)
  <1> DEFINE B == AdmitTo(A, c, n)
             p == q \o [i \in 1 .. n |-> c]
             l == Len(q)
  <1>0. /\ q \in Seq(0 .. c)
        /\ \A t \in 0 .. c : t \in Bounds /\ t + 1 \in Bounds
    BY LimiterAssumption DEF SlidingOK, Times, Bounds
  <1>1. /\ c \in Nat /\ l \in Nat /\ l + n <= limit /\ limit \in Nat
        /\ c + 1 \in Bounds /\ c \in Bounds /\ Low(c) \in Bounds /\ Low(c) \in 0 .. c
    BY <1>0, TimesInBounds, LowInBounds, LimiterAssumption
  <1>2. \A t \in Bounds : /\ B[t] = IF t > c THEN A[t] + n ELSE A[t]
                          /\ A[t] \in Nat /\ t \in Nat
    BY DEF AdmitTo, History, Totals, Bounds
  <1>3. /\ \A s, t \in Bounds : s <= t => A[s] <= A[t]
        /\ \A t \in Bounds : t > c => A[t] = A[c + 1]
    BY DEF History
  <1>4. /\ p \in Seq(0 .. c) /\ Len(p) = l + n
        /\ \A i \in 1 .. l + n : p[i] = IF i <= l THEN q[i] ELSE c
    <2>1. [i \in 1 .. n |-> c] \in Seq(0 .. c) /\ Len([i \in 1 .. n |-> c]) = n
      BY <1>1
    <2> QED
      BY <1>0, <1>1, <2>1
  <1>5. B[c + 1] = A[c + 1] + n
    BY <1>1, <1>2
  <1> HIDE DEF B, p, l
  <1>6. PICK N \in Int : /\ N = A[c + 1] - l /\ N = B[c + 1] - (l + n)
                         /\ N + l = A[c + 1]
    <2>1. A[c + 1] \in Nat /\ l \in Nat /\ n \in Nat
      BY <1>1, <1>2
    <2>2. B[c + 1] - (l + n) = A[c + 1] - l /\ A[c + 1] - l \in Int
      BY <1>5, <2>1
    <2>3. A[c + 1] - l + l = A[c + 1]
      BY <2>1
    <2> QED
      BY <2>2, <2>3
  <1>7. ASSUME NEW i \in 1 .. l + n
        PROVE  B[p[i]] < N + i /\ N + i <= B[p[i] + 1]
    <2>0. i \in Nat /\ i <= l + n
      BY <1>1
    <2>1. CASE i <= l
      <3>1. i \in 1 .. l
        BY <1>1, <2>1
      <3>2. A[q[i]] < N + i /\ N + i <= A[q[i] + 1]
        BY <1>6, <3>1 DEF SlidingOK, l
      <3>3. p[i] = q[i]
        BY <1>4, <2>1
      <3>4. q[i] \in 0 .. c
        BY <1>0, <3>1, MemberOf DEF l
      <3> DEFINE u == q[i]
      <3> HIDE DEF u
      <3>5. u \in 0 .. c /\ A[u] < N + i /\ N + i <= A[u + 1]
        BY <3>2, <3>4 DEF u
      <3>6. u \in Bounds /\ u + 1 \in Bounds /\ ~(u > c)
        BY <1>0, <1>1, <3>5
      <3>7. B[u] = A[u]
        BY <1>2, <3>6
      <3>8. A[u + 1] <= B[u + 1] /\ A[u + 1] \in Nat /\ B[u + 1] \in Nat
        BY <1>2, <3>6
      <3>9. N + i <= B[u + 1]
        BY <2>0, <3>5, <3>8
      <3> QED
        BY <3>3, <3>5, <3>7, <3>9 DEF u
    <2>2. CASE i > l
      <3>1. p[i] = c
        BY <1>1, <1>4, <2>2
      <3>2. B[c] = A[c] /\ A[c] <= A[c + 1] /\ A[c] \in Nat /\ A[c + 1] \in Nat
        BY <1>1, <1>2, <1>3
      <3>3. N \in Int /\ l \in Nat /\ N + l = A[c + 1]
        BY <1>1, <1>6
      <3>4. A[c] < N + i
        BY <2>0, <2>2, <3>2, <3>3
      <3>5. n \in Nat /\ B[c + 1] = N + l + n
        BY <1>5, <3>3
      <3>6. N + i <= B[c + 1]
        BY <2>0, <3>3, <3>5
      <3> QED
        BY <3>1, <3>2, <3>4, <3>6
    <2> QED
      BY <1>1, <2>0, <2>1, <2>2
  <1>8. B[c + 1] - (l + n) <= B[Low(c)]
    <2>1. B[Low(c)] = A[Low(c)]
      BY <1>1, <1>2
    <2> QED
      BY <1>6, <2>1 DEF SlidingOK, l
  <1>10. \A i \in 1 .. l + n : /\ B[p[i]] < B[c + 1] - (l + n) + i
                               /\ B[c + 1] - (l + n) + i <= B[p[i] + 1]
    BY <1>6, <1>7
  <1>9. WindowHolds(B, limit)
    <2> SUFFICES ASSUME NEW s \in Times, NEW t \in s .. MaxTime, t - s < window
                 PROVE  B[t + 1] - B[s] <= limit
      BY DEF WindowHolds
    <2>1. /\ s \in Nat /\ t \in Nat /\ s <= t /\ t \in Times
          /\ s \in Bounds /\ t + 1 \in Bounds /\ window \in Nat
      BY LimiterAssumption DEF Times, Bounds
    <2>2. A[t + 1] - A[s] <= limit
      BY DEF SlidingOK, WindowHolds
    <2>3. CASE t < c \/ s > c
      <3>1. t + 1 > c <=> s > c
        BY <1>1, <2>1, <2>3
      <3>2. B[t + 1] - B[s] = A[t + 1] - A[s]
        BY <1>2, <2>1, <3>1
      <3> QED
        BY <2>2, <3>2
    <2>4. CASE t >= c /\ s <= c
      <3>1. B[t + 1] = B[c + 1] /\ B[s] = A[s]
        <4>1. t + 1 > c /\ c + 1 > c /\ ~(s > c)
          BY <1>1, <2>1, <2>4
        <4>2. B[t + 1] = A[t + 1] + n /\ B[c + 1] = A[c + 1] + n /\ B[s] = A[s]
          BY <1>1, <1>2, <2>1, <4>1
        <4>3. A[t + 1] = A[c + 1]
          BY <1>3, <2>1, <4>1
        <4> QED
          BY <4>2, <4>3
      <3>2. s > c - window /\ s \in 0 .. c
        BY <1>1, <2>1, <2>4
      <3>3. s >= Low(c)
        BY <3>2, LowInBounds
      <3>4. A[Low(c)] <= A[s]
        BY <1>1, <1>3, <2>1, <3>3
      <3>5. N <= A[Low(c)]
        BY <1>6 DEF SlidingOK, l
      <3>6. A[s] \in Nat /\ A[Low(c)] \in Nat /\ A[c + 1] \in Nat
        BY <1>1, <1>2, <2>1
      <3>7. B[c + 1] - A[s] <= limit
        <4>1. N <= A[s] /\ N \in Int
          <5>1. N \in Int
            BY <1>6
          <5> QED
            BY <3>4, <3>5, <3>6, <5>1
        <4>2. N + l = A[c + 1] /\ l \in Nat
          BY <1>1, <1>6
        <4>3. B[c + 1] = N + (l + n) /\ n \in Nat
          BY <1>5, <4>1, <4>2
        <4>4. l + n <= limit /\ limit \in Nat
          BY <1>1
        <4> QED
          BY <4>1, <4>2, <4>3, <4>4, <3>6
      <3> QED
        BY <3>1, <3>7
    <2> QED
      BY <1>1, <2>1, <2>3, <2>4
  <1> QED
    BY <1>1, <1>4, <1>8, <1>9, <1>10 DEF SlidingOK, B, p

\* Time passes: the window moves on.
LEMMA TickSliding ==
  ASSUME NEW c \in Times, c < MaxTime, NEW A, History(A, c), NEW q, SlidingOK(A, q, c)
  PROVE  SlidingOK(A, q, c + 1)
  <1>1. A[c + 2] = A[c + 1] /\ c \in Nat /\ c + 1 \in Times /\ c + 1 + 1 = c + 2
        /\ c + 1 \in Bounds
    BY TickHistory, TimesInBounds
  <1>2. q \in Seq(0 .. c + 1)
    <2>1. 0 .. c \subseteq 0 .. c + 1 /\ q \in Seq(0 .. c)
      BY <1>1 DEF SlidingOK
    <2> QED
      BY <2>1, WiderList
  <1>3. A[Low(c)] <= A[Low(c + 1)] /\ A[Low(c)] \in Nat /\ A[Low(c + 1)] \in Nat
        /\ A[c + 1] \in Nat /\ Len(q) \in Nat
    <2>1. Low(c) \in Bounds /\ Low(c + 1) \in Bounds
      BY <1>1, LowInBounds
    <2>2. Low(c) <= Low(c + 1)
      BY <1>1, LimiterAssumption DEF Low
    <2> QED
      BY <1>1, <1>2, <2>1, <2>2 DEF History, Totals
  <1>4. A[c + 1] - Len(q) <= A[Low(c + 1)]
    BY <1>3 DEF SlidingOK
  <1> QED
    BY <1>1, <1>2, <1>4 DEF SlidingOK

-----------------------------------------------------------------------------
(***************************************************************************)
(* The fixed window: m requests counted since the window's start W.        *)
(***************************************************************************)

\* The count is exact, and what it counts lies within the window.  Less than a
\* window before the start there was at most one other window: its requests,
\* and so all of that time, are within limit.
FixedOK(A, m, W, c) ==
    /\ W \in 0 .. c /\ m \in 0 .. limit
    /\ m = A[c + 1] - A[W]
    /\ \A t \in 0 .. c : t - W >= window => A[c + 1] = A[t]
    /\ \A s \in 0 .. W : W - s < window => A[W] - A[s] <= limit
    /\ WindowHolds(A, 2 * limit)

\* A new window starts now.
LEMMA NewWindow ==
  ASSUME NEW c \in Times, NEW A, History(A, c), NEW m, NEW W, FixedOK(A, m, W, c),
         c - W >= window
  PROVE  FixedOK(A, 0, c, c)
  <1>1. /\ c \in Nat /\ W \in 0 .. c /\ m \in 0 .. limit /\ limit \in Nat
        /\ window \in Nat \ {0} /\ \A t \in 0 .. c : t \in Bounds
    BY LimiterAssumption DEF FixedOK, Times, Bounds
  <1>2. \A t \in Bounds : A[t] \in Nat
    BY DEF History, Totals
  <1>3. c \in 0 .. c
    BY <1>1
  <1>4. A[c + 1] = A[c]
    BY <1>3 DEF FixedOK
  <1>5. ASSUME NEW s \in 0 .. c, c - s < window
        PROVE  A[c] - A[s] <= limit
    <2>1. W <= s /\ W \in Bounds /\ s \in Bounds /\ c \in Bounds
      BY <1>1, <1>3, <1>5
    <2>2. A[W] <= A[s]
      BY <2>1 DEF History
    <2>3. A[c] - A[W] <= limit
      BY <1>1, <1>4 DEF FixedOK
    <2>4. A[c] \in Nat /\ A[s] \in Nat /\ A[W] \in Nat
      BY <1>2, <2>1
    <2> QED
      BY <1>1, <2>2, <2>3, <2>4
  <1>6. 0 \in 0 .. limit /\ 0 = A[c + 1] - A[c]
    BY <1>1, <1>2, <1>3, <1>4
  <1>7. \A t \in 0 .. c : ~(t - c >= window)
    BY <1>1
  <1> QED
    BY <1>3, <1>5, <1>6, <1>7 DEF FixedOK

\* Counting n more in the current window keeps FixedOK.
LEMMA CountOK ==
  ASSUME NEW c \in Times, NEW A, History(A, c), NEW m, NEW W, FixedOK(A, m, W, c),
         c - W < window, NEW n \in Nat, m + n <= limit
  PROVE  FixedOK(AdmitTo(A, c, n), m + n, W, c)
  <1> DEFINE B == AdmitTo(A, c, n)
  <1>1. /\ c \in Nat /\ W \in 0 .. c /\ m \in 0 .. limit /\ limit \in Nat
        /\ window \in Nat \ {0} /\ c + 1 \in Bounds
    BY LimiterAssumption, TimesInBounds DEF FixedOK
  <1>2. \A t \in 0 .. c : t \in Bounds /\ t \in Nat /\ ~(t > c)
    BY LimiterAssumption DEF Times, Bounds
  <1>3. \A t \in Bounds : /\ B[t] = IF t > c THEN A[t] + n ELSE A[t]
                          /\ A[t] \in Nat
    BY DEF AdmitTo, History, Totals
  <1>4. /\ \A s, t \in Bounds : s <= t => A[s] <= A[t]
        /\ \A t \in Bounds : t > c => A[t] = A[c + 1]
    BY DEF History
  <1> HIDE DEF B
  <1>5. B[c + 1] = A[c + 1] + n /\ B[W] = A[W] /\ A[W] \in Nat /\ A[c + 1] \in Nat
    BY <1>1, <1>2, <1>3
  <1>6. m + n \in 0 .. limit /\ m + n = B[c + 1] - B[W]
    BY <1>1, <1>5 DEF FixedOK
  <1>7. \A t \in 0 .. c : ~(t - W >= window)
    BY <1>1, <1>2
  <1>8. ASSUME NEW s \in 0 .. W, W - s < window
        PROVE  B[W] - B[s] <= limit
    <2>1. s \in 0 .. c
      BY <1>1
    <2>2. B[s] = A[s]
      BY <1>2, <1>3, <2>1
    <2> QED
      BY <1>5, <1>8, <2>2 DEF FixedOK
  <1>9. WindowHolds(B, 2 * limit)
    <2> SUFFICES ASSUME NEW s \in Times, NEW t \in s .. MaxTime, t - s < window
                 PROVE  B[t + 1] - B[s] <= 2 * limit
      BY DEF WindowHolds
    <2>1. /\ s \in Nat /\ t \in Nat /\ s <= t /\ t \in Times
          /\ s \in Bounds /\ t + 1 \in Bounds
      BY LimiterAssumption DEF Times, Bounds
    <2>2. A[t + 1] - A[s] <= 2 * limit
      BY DEF FixedOK, WindowHolds
    <2>3. CASE t < c \/ s > c
      <3>1. B[t + 1] - B[s] = A[t + 1] - A[s]
        BY <1>1, <1>3, <2>1, <2>3
      <3> QED
        BY <2>2, <3>1
    <2>4. CASE t >= c /\ s <= c
      <3>1. B[t + 1] = B[c + 1] /\ B[s] = A[s] /\ A[s] \in Nat
        <4>1. t + 1 > c /\ ~(s > c)
          BY <1>1, <2>1, <2>4
        <4>2. B[t + 1] = A[t + 1] + n /\ A[t + 1] = A[c + 1]
          BY <1>3, <1>4, <2>1, <4>1
        <4> QED
          BY <1>3, <1>5, <2>1, <4>1, <4>2
      <3>2. CASE s >= W
        <4>1. A[W] <= A[s]
          BY <1>1, <1>2, <1>4, <2>1, <3>2
        <4> QED
          BY <1>1, <1>5, <1>6, <3>1, <4>1
      <3>3. CASE s < W
        <4>1. s \in 0 .. W /\ W - s < window
          BY <1>1, <2>1, <2>4, <3>3
        <4>2. A[W] - A[s] <= limit
          BY <4>1 DEF FixedOK
        <4> QED
          BY <1>1, <1>5, <1>6, <3>1, <4>2
      <3> QED
        BY <1>1, <2>1, <3>2, <3>3
    <2> QED
      BY <1>1, <2>1, <2>3, <2>4
  <1> QED
    BY <1>1, <1>6, <1>7, <1>8, <1>9 DEF FixedOK, B

\* Time passes.
LEMMA TickFixed ==
  ASSUME NEW c \in Times, c < MaxTime, NEW A, History(A, c), NEW m, NEW W,
         FixedOK(A, m, W, c)
  PROVE  FixedOK(A, m, W, c + 1)
  <1>1. A[c + 2] = A[c + 1] /\ c \in Nat
    BY TickHistory, TimesInBounds
  <1>2. c + 1 + 1 = c + 2 /\ 0 .. c + 1 = (0 .. c) \cup {c + 1}
    BY <1>1
  <1>3. W \in 0 .. c + 1
    BY <1>1 DEF FixedOK
  <1> QED
    BY <1>1, <1>2, <1>3 DEF FixedOK

-----------------------------------------------------------------------------
(***************************************************************************)
(* The limiters on their own.                                              *)
(***************************************************************************)

\* The inductive invariant: the one limiter that is at work keeps its
\* predicate, the others stay as they were made.
RateInv ==
    /\ TypeOK
    /\ History(admitted, clock)
    /\ kind = "token_bucket" =>
          /\ BucketOK(admitted, tokens, lastRefill, clock)
          /\ FillOK(tokens, lastRefill, full, spent, clock)
    /\ kind = "sliding_window" => SlidingOK(admitted, requests, clock)
    /\ kind = "fixed_window" => FixedOK(admitted, count, windowStart, clock)

\* The history of a limiter that has admitted nothing.
LEMMA NoHistory ==
  LET A == [t \in Bounds |-> 0] IN
  /\ 0 \in Times /\ History(A, 0)
  /\ BucketOK(A, capacity, 0, 0) /\ FillOK(capacity, 0, 0, 0, 0)
  /\ SlidingOK(A, <<>>, 0) /\ FixedOK(A, 0, 0, 0)
  <1> DEFINE A == [t \in Bounds |-> 0]
  <1>1. /\ MaxTime \in Nat /\ capacity \in Nat /\ limit \in Nat /\ window \in Nat \ {0}
        /\ refillRate \in Nat \ {0} /\ TicksPerSecond \in Nat \ {0}
    BY LimiterAssumption
  <1>2. 0 \in Times /\ 0 \in Bounds /\ 1 \in Bounds
    BY <1>1 DEF Times, Bounds
  <1>3. \A t \in Bounds : A[t] = 0
    OBVIOUS
  <1>4. History(A, 0)
    BY <1>2 DEF History, Totals
  <1> HIDE DEF A
  <1>5. \A s \in Times : \A t \in s .. MaxTime :
           A[t + 1] = 0 /\ A[s] = 0 /\ t - s \in Nat
    BY <1>1, <1>3 DEF Times, Bounds
  <1>6. BucketOK(A, capacity, 0, 0)
    <2>1. \A s \in 0 .. 0 : A[0 + 1] = A[s]
      BY <1>2, <1>3
    <2>2. ASSUME NEW s \in Times, NEW t \in s .. MaxTime
          PROVE  A[t + 1] - A[s] <= capacity + refillRate * (Seconds(t - s) + 1)
      <3>1. A[t + 1] - A[s] = 0 /\ t - s \in Nat
        BY <1>5
      <3>2. Seconds(t - s) + 1 \in Nat
        BY <3>1, SecondsOf
      <3>3. refillRate * (Seconds(t - s) + 1) \in Nat
        BY <1>1, <3>2
      <3> QED
        BY <1>1, <3>1, <3>3
    <2> QED
      BY <1>1, <2>1, <2>2 DEF BucketOK
  <1>7. FillOK(capacity, 0, 0, 0, 0)
    <2>1. capacity = capacity - 0 + refillRate * 0 /\ 0 - 0 <= 2 * TicksPerSecond * 0
      BY <1>1
    <2> QED
      BY <2>1 DEF FillOK
  <1>8. ASSUME NEW m \in Nat
        PROVE  WindowHolds(A, m)
    BY <1>5 DEF WindowHolds
  <1>9. SlidingOK(A, <<>>, 0)
    <2>1. Low(0) = 0
      BY <1>1 DEF Low
    <2>2. A[0 + 1] - 0 <= A[Low(0)]
      BY <1>2, <1>3, <2>1
    <2> QED
      BY <1>1, <1>8, <2>2 DEF SlidingOK
  <1>10. FixedOK(A, 0, 0, 0)
    <2>1. 2 * limit \in Nat /\ 0 .. 0 = {0}
      BY <1>1
    <2>2. A[0] = 0 /\ A[0 + 1] = 0
      BY <1>2, <1>3
    <2> QED
      BY <1>1, <1>8, <2>1, <2>2 DEF FixedOK
  <1> QED
    BY <1>2, <1>4, <1>6, <1>7, <1>9, <1>10 DEF A

\* The constructors establish the invariant.
LEMMA RateInitInv == Init => RateInv
  <1> SUFFICES ASSUME Init
               PROVE  RateInv
    OBVIOUS
  <1>1. TypeOK
    BY LimiterAssumption DEF Init, TypeOK, Times, Bounds
  <1> QED
    BY <1>1, NoHistory DEF Init, RateInv

\* What refill and Admit of the model are in terms of their arguments.
LEMMA RefillDefs ==
  /\ Refilled = RefillTo(tokens, lastRefill, clock)
  /\ refillTime = RefillAt(lastRefill, clock)
  BY DEF Refilled, refillTime, tokensToAdd, RefillTo, RefillAt, Seconds

\* AllowN and GetTokens of the token bucket.
LEMMA BucketInv ==
  ASSUME RateInv, NEW n \in Nat, BucketAllowN(n) \/ GetTokens
  PROVE  RateInv'
  <1> DEFINE j == RefillTo(tokens, lastRefill, clock)
             M == RefillAt(lastRefill, clock)
  <1>1. /\ kind = "token_bucket" /\ TypeOK /\ clock \in Times /\ History(admitted, clock)
        /\ tokens \in 0 .. capacity /\ lastRefill \in 0 .. clock
        /\ BucketOK(admitted, tokens, lastRefill, clock)
        /\ FillOK(tokens, lastRefill, full, spent, clock)
        /\ capacity \in Nat
    BY LimiterAssumption DEF RateInv, TypeOK, BucketAllowN, GetTokens
  <1>2. /\ j \in 0 .. capacity /\ M \in 0 .. clock /\ clock - M < TicksPerSecond
    BY <1>1, RefillResult
  <1>3. BucketOK(admitted, j, M, clock)
    BY <1>1, RefillOK
  <1>4. PICK taken \in Nat :
           /\ taken <= j /\ RefillAndTake(taken)
           /\ admitted' = AdmitTo(admitted, clock, taken)
    <2>1. CASE Refilled >= n /\ RefillAndTake(n) /\ Admit(n)
      <3>1. n <= j
        BY <1>1, <1>2, <2>1, RefillDefs
      <3> QED
        BY <2>1, <3>1 DEF Admit, AdmitTo
    <2>2. CASE RefillAndTake(0) /\ UNCHANGED admitted
      <3>1. 0 <= j
        BY <1>1, <1>2
      <3>2. admitted = AdmitTo(admitted, clock, 0)
        BY <1>1 DEF AdmitTo, History, Totals
      <3> QED
        BY <2>2, <3>1, <3>2
    <2> QED
      BY <2>1, <2>2 DEF BucketAllowN, GetTokens
  <1> HIDE DEF j, M
  <1>5. /\ tokens' = j - taken /\ lastRefill' = M
        /\ full' = IF j = capacity THEN clock ELSE full
        /\ spent' = IF j = capacity THEN taken ELSE spent + taken
        /\ UNCHANGED <<kind, requests, count, windowStart, clock>>
    BY <1>4, RefillDefs DEF RefillAndTake, swVars, fwVars, j, M
  <1>6. History(admitted', clock)
    BY <1>1, <1>4, AdmitHistory
  <1>7. BucketOK(admitted', tokens', lastRefill', clock)
    BY <1>1, <1>2, <1>3, <1>4, <1>5, TakeOK
  <1>8. FillOK(tokens', lastRefill', full', spent', clock)
    BY <1>1, <1>4, <1>5, TakeFill DEF j, M
  <1>9. TypeOK'
    <2>1. tokens' \in 0 .. capacity /\ admitted' \in [Bounds -> Nat]
      BY <1>6, <1>7 DEF BucketOK, History, Totals
    <2> QED
      BY <1>1, <1>2, <1>5, <2>1 DEF TypeOK
  <1> QED
    BY <1>1, <1>5, <1>6, <1>7, <1>8, <1>9 DEF RateInv

\* AllowN and GetCurrentCount of the sliding window.
LEMMA SlidingInv ==
  ASSUME RateInv, NEW n \in Nat, SlidingAllowN(n) \/ SlidingCount
  PROVE  RateInv'
  <1>1. /\ kind = "sliding_window" /\ TypeOK /\ clock \in Times /\ History(admitted, clock)
        /\ SlidingOK(admitted, requests, clock)
    BY DEF RateInv, TypeOK, SlidingAllowN, SlidingCount
  <1>2. cleanup = Kept(requests, clock)
    BY DEF cleanup, Kept
  <1>3. SlidingOK(admitted, cleanup, clock)
    BY <1>1, <1>2, KeptOK
  <1>4. UNCHANGED <<kind, tokens, lastRefill, full, spent, count, windowStart, clock>>
    BY DEF SlidingAllowN, SlidingCount, tbVars, fwVars
  <1>5. History(admitted', clock) /\ SlidingOK(admitted', requests', clock)
    <2>1. CASE /\ Len(cleanup) + n <= limit
               /\ requests' = cleanup \o [i \in 1 .. n |-> clock]
               /\ Admit(n)
      <3>1. admitted' = AdmitTo(admitted, clock, n)
        BY <2>1 DEF Admit, AdmitTo
      <3> QED
        BY <1>1, <1>3, <2>1, <3>1, SlideOK, AdmitHistory
    <2>2. CASE requests' = cleanup /\ UNCHANGED admitted
      BY <1>1, <1>3, <2>2
    <2> QED
      BY <2>1, <2>2 DEF SlidingAllowN, SlidingCount
  <1>6. TypeOK'
    <2>1. requests' \in Seq(0 .. clock) /\ admitted' \in [Bounds -> Nat]
      BY <1>5 DEF SlidingOK, History, Totals
    <2> QED
      BY <1>1, <1>4, <2>1 DEF TypeOK
  <1> QED
    BY <1>1, <1>4, <1>5, <1>6 DEF RateInv

\* AllowN of the fixed window.
LEMMA FixedInv ==
  ASSUME RateInv, NEW n \in Nat, FixedAllowN(n)
  PROVE  RateInv'
  <1> DEFINE expired == clock - windowStart >= window
             counted == IF expired THEN 0 ELSE count
             start == IF expired THEN clock ELSE windowStart
  <1>1. /\ kind = "fixed_window" /\ TypeOK /\ clock \in Times /\ History(admitted, clock)
        /\ FixedOK(admitted, count, windowStart, clock)
        /\ clock \in Nat /\ windowStart \in 0 .. clock /\ window \in Nat \ {0}
    BY LimiterAssumption, TimesInBounds DEF RateInv, TypeOK, FixedAllowN
  <1>2. FixedOK(admitted, counted, start, clock) /\ clock - start < window
    <2>1. CASE expired
      BY <1>1, <2>1, NewWindow
    <2>2. CASE ~expired
      BY <1>1, <2>2
    <2> QED
      BY <2>1, <2>2
  <1>3. /\ UNCHANGED <<kind, tokens, lastRefill, full, spent, requests, clock>>
        /\ windowStart' = start
    BY DEF FixedAllowN, tbVars, swVars
  <1>4. \/ counted + n <= limit /\ count' = counted + n /\ Admit(n)
        \/ count' = counted /\ UNCHANGED admitted
    BY DEF FixedAllowN
  <1> HIDE DEF counted, start
  <1>5. History(admitted', clock) /\ FixedOK(admitted', count', start, clock)
    <2>1. CASE counted + n <= limit /\ count' = counted + n /\ Admit(n)
      <3>1. admitted' = AdmitTo(admitted, clock, n)
        BY <2>1 DEF Admit, AdmitTo
      <3> QED
        BY <1>1, <1>2, <2>1, <3>1, CountOK, AdmitHistory
    <2>2. CASE count' = counted /\ UNCHANGED admitted
      BY <1>1, <1>2, <2>2
    <2> QED
      BY <1>4, <2>1, <2>2
  <1>6. TypeOK'
    <2>1. count' \in 0 .. limit /\ start \in 0 .. clock /\ admitted' \in [Bounds -> Nat]
      BY <1>5 DEF FixedOK, History, Totals
    <2> QED
      BY <1>1, <1>3, <2>1 DEF TypeOK
  <1> QED
    BY <1>1, <1>3, <1>5, <1>6 DEF RateInv

\* Time passes.
LEMMA TickInv ==
  ASSUME RateInv, Tick
  PROVE  RateInv'
  <1>1. /\ TypeOK /\ clock \in Times /\ clock < MaxTime /\ clock' = clock + 1
        /\ clock \in Nat /\ History(admitted, clock)
    BY TimesInBounds DEF RateInv, TypeOK, Tick
  <1>2. UNCHANGED <<kind, tokens, lastRefill, full, spent, requests, count, windowStart,
                    admitted>>
    BY DEF Tick, tbVars, swVars, fwVars
  <1>3. clock + 1 \in Times /\ History(admitted, clock + 1)
    BY <1>1, TickHistory
  <1>4. TypeOK'
    <2>1. 0 .. clock \subseteq 0 .. clock + 1
      BY <1>1
    <2>2. requests \in Seq(0 .. clock + 1)
      BY <1>1, <2>1, WiderList DEF TypeOK
    <2> QED
      BY <1>1, <1>2, <1>3, <2>1, <2>2 DEF TypeOK
  <1>5. kind = "token_bucket" =>
           /\ BucketOK(admitted, tokens, lastRefill, clock + 1)
           /\ FillOK(tokens, lastRefill, full, spent, clock + 1)
    <2> SUFFICES ASSUME kind = "token_bucket"
                 PROVE  /\ BucketOK(admitted, tokens, lastRefill, clock + 1)
                        /\ FillOK(tokens, lastRefill, full, spent, clock + 1)
      OBVIOUS
    <2>1. /\ BucketOK(admitted, tokens, lastRefill, clock)
          /\ FillOK(tokens, lastRefill, full, spent, clock)
      BY DEF RateInv
    <2>2. full \in 0 .. clock + 1
      BY <1>1, <2>1 DEF FillOK
    <2> QED
      BY <1>1, <2>1, <2>2, TickBucket DEF FillOK
  <1>6. kind = "sliding_window" => SlidingOK(admitted, requests, clock + 1)
    BY <1>1, TickSliding DEF RateInv
  <1>7. kind = "fixed_window" => FixedOK(admitted, count, windowStart, clock + 1)
    BY <1>1, TickFixed DEF RateInv
  <1> QED
    BY <1>1, <1>2, <1>3, <1>4, <1>5, <1>6, <1>7 DEF RateInv

\* Every step keeps the invariant.
LEMMA RateNextInv == RateInv /\ [Next]_vars => RateInv'
  <1> SUFFICES ASSUME RateInv, [Next]_vars
               PROVE  RateInv'
    OBVIOUS
  <1>1. CASE \E n \in 1 .. MaxN : BucketAllowN(n) \/ SlidingAllowN(n) \/ FixedAllowN(n)
    <2>1. PICK n \in 1 .. MaxN : BucketAllowN(n) \/ SlidingAllowN(n) \/ FixedAllowN(n)
      BY <1>1
    <2>2. n \in Nat
      BY LimiterAssumption
    <2> QED
      BY <2>1, <2>2, BucketInv, SlidingInv, FixedInv
  <1>2. CASE GetTokens \/ SlidingCount
    <2>1. 0 \in Nat
      OBVIOUS
    <2> QED
      BY <1>2, <2>1, BucketInv, SlidingInv
  <1>3. CASE Tick
    BY <1>3, TickInv
  <1>4. CASE UNCHANGED vars
    BY <1>4 DEF vars, tbVars, swVars, fwVars, RateInv, TypeOK
  <1> QED
    BY <1>1, <1>2, <1>3, <1>4 DEF Next

\* RateInv holds throughout.
THEOREM RateInvariance == Spec => []RateInv
  BY RateInitInv, RateNextInv, PTL DEF Spec

\* The properties that follow from the invariant in every state.
LEMMA RateFollows ==
  RateInv => RateBound /\ FillsAtHalfRate /\ WindowBound /\ SlidingExact
  <1> SUFFICES ASSUME RateInv
               PROVE  RateBound /\ FillsAtHalfRate /\ WindowBound /\ SlidingExact
    OBVIOUS
  <1>1. /\ TypeOK /\ clock \in Times /\ clock \in Nat /\ History(admitted, clock)
        /\ tokens \in 0 .. capacity /\ lastRefill \in 0 .. clock
        /\ limit \in Nat /\ window \in Nat \ {0} /\ MaxTime \in Nat
    BY TimesInBounds, LimiterAssumption DEF RateInv, TypeOK
  <1>2. RateBound
    BY DEF RateInv, RateBound, BucketOK, Used, Seconds
  <1>3. FillsAtHalfRate
    BY <1>1, FillsFast, RefillDefs DEF RateInv, FillsAtHalfRate
  <1>4. WindowBound
    <2> SUFFICES ASSUME kind \in {"sliding_window", "fixed_window"}, NEW s \in Times
                 PROVE  Used(s, Min({s + window - 1, MaxTime}))
                          <= (IF kind = "sliding_window" THEN limit ELSE 2 * limit)
      BY DEF WindowBound
    <2> DEFINE t == Min({s + window - 1, MaxTime})
    <2>1. s \in Nat /\ s <= MaxTime
      BY <1>1 DEF Times
    <2>2. t = IF s + window - 1 <= MaxTime THEN s + window - 1 ELSE MaxTime
      BY <1>1, <2>1, MinOfTwo
    <2> HIDE DEF t
    <2>3. t \in s .. MaxTime /\ t - s < window
      BY <1>1, <2>1, <2>2
    <2>4. CASE kind = "sliding_window"
      BY <2>3, <2>4 DEF RateInv, SlidingOK, WindowHolds, Used, t
    <2>5. CASE kind = "fixed_window"
      BY <2>3, <2>5 DEF RateInv, FixedOK, WindowHolds, Used, t
    <2> QED
      BY <2>4, <2>5
  <1>5. SlidingExact
    <2> SUFFICES ASSUME kind = "sliding_window"
                 PROVE  Len(cleanup) = Used(Max({0, clock - window + 1}), clock)
      BY DEF SlidingExact
    <2>1. Max({0, clock - window + 1}) = Low(clock)
      BY <1>1 DEF Max, Low
    <2>2. cleanup = Kept(requests, clock) /\ SlidingOK(admitted, requests, clock)
      BY DEF cleanup, Kept, RateInv
    <2>3. Len(Kept(requests, clock)) = admitted[clock + 1] - admitted[Low(clock)]
      BY <1>1, <2>2, KeptOK
    <2> QED
      BY <2>1, <2>2, <2>3 DEF Used
  <1> QED
    BY <1>2, <1>3, <1>4, <1>5

\* The token bucket hands out no more than its capacity and its rate, in any
\* interval, for every capacity and rate.
THEOREM RateBoundCorrect == Spec => []RateBound
  BY RateInvariance, RateFollows, PTL

\* The token bucket fills at half its rate at least, however refills are timed.
THEOREM FillsAtHalfRateCorrect == Spec => []FillsAtHalfRate
  BY RateInvariance, RateFollows, PTL

\* No window holds more than limit requests of the sliding limiter or more than
\* twice limit of the fixed limiter.
THEOREM WindowBoundCorrect == Spec => []WindowBound
  BY RateInvariance, RateFollows, PTL

\* The sliding limiter counts exactly what it admitted in the current window.
THEOREM SlidingExactCorrect == Spec => []SlidingExact
  BY RateInvariance, RateFollows, PTL

-----------------------------------------------------------------------------
(***************************************************************************)
(* The MultiLimiter.  Each limiter keeps its predicate with its own        *)
(* history.  What came through all of them is the history of the last one, *)
(* and lags behind that of the first by no more than the calls that are    *)
(* between the two.                                                        *)
(***************************************************************************)

\* The orders of the two limiters, and the history of one.
Chains == {<<"token_bucket", "sliding_window">>, <<"sliding_window", "token_bucket">>}
Gave(limiter) == IF limiter = "token_bucket" THEN bucketGave ELSE slidingGave

\* The requests of the calls between the two limiters, for at = a and wants = w.
PendingOf(a, w) ==
    {p \in Callers \X (1 .. MultiN) : a[p[1]] = 2 /\ p[2] <= w[p[1]]}

\* The most that can be between the two limiters.
Most == MultiN * Cardinality(Callers)

\* What came through since s, with the P requests still between the limiters,
\* is no more than the first limiter gave since then and what was between the
\* limiters at s; and what came through from s to t no more than it gave.
Behind(A, F, c, P) ==
    /\ \A s \in Bounds : A[c + 1] - A[s] + P <= F[c + 1] - F[s] + Most
    /\ \A s, t \in Bounds : s <= t => A[t] - A[s] <= F[t] - F[s] + Most

\* The types of a call's variables; a call in progress is in the chain.
CallTypeOK ==
    /\ at \in [Callers -> 0 .. 2]
    /\ wants \in [Callers -> 0 .. MultiN]
    /\ waits \in [Callers -> BOOLEAN]
    /\ kind # "multi" => \A c \in Callers : at[c] = 0

\* The part of the invariant about a chain at work.
ChainInv ==
    /\ chain \in Chains
    /\ History(admitted, clock) /\ History(bucketGave, clock) /\ History(slidingGave, clock)
    /\ BucketOK(bucketGave, tokens, lastRefill, clock)
    /\ SlidingOK(slidingGave, requests, clock)
    /\ Gave(chain[2]) = admitted
    /\ Behind(admitted, Gave(chain[1]), clock, Cardinality(PendingOf(at, wants)))

\* The inductive invariant of the MultiLimiter.
MultiInv ==
    /\ clock \in Times
    /\ CallTypeOK
    /\ kind = "multi" => ChainInv

\* The requests between the limiters are finitely many and no more than Most.
LEMMA PendingSize ==
  ASSUME NEW a, NEW w
  PROVE  /\ IsFiniteSet(PendingOf(a, w))
         /\ Cardinality(PendingOf(a, w)) \in Nat
         /\ Cardinality(PendingOf(a, w)) <= Most
         /\ Most \in Nat
  <1>0. IsFiniteSet(Callers) /\ MultiN \in Nat
    BY MultiAssumption
  <1>1. IsFiniteSet(Callers) /\ MultiN \in Nat /\ Cardinality(Callers) \in Nat
    BY <1>0, FS_CardinalityType
  <1>2. IsFiniteSet(1 .. MultiN) /\ Cardinality(1 .. MultiN) = MultiN
    <2>1. 1 \in Int /\ MultiN \in Int /\ MultiN >= 1 - 1 /\ MultiN - 1 + 1 = MultiN
      BY <1>0
    <2>2. IsFiniteSet(1 .. MultiN)
          /\ Cardinality(1 .. MultiN) = IF 1 > MultiN THEN 0 ELSE MultiN - 1 + 1
      BY <2>1, FS_Interval
    <2>3. 1 > MultiN => MultiN = 0
      BY <1>0
    <2> QED
      BY <2>1, <2>2, <2>3
  <1>3. /\ IsFiniteSet(Callers \X (1 .. MultiN))
        /\ Cardinality(Callers \X (1 .. MultiN)) = Cardinality(Callers) * MultiN
    BY <1>0, <1>2, FS_Product
  <1>4. PendingOf(a, w) \in SUBSET (Callers \X (1 .. MultiN))
    BY DEF PendingOf
  <1> DEFINE P == PendingOf(a, w)
             T == Callers \X (1 .. MultiN)
  <1>5. Cardinality(T) = Most
    <2>1. \A x, y \in Nat : x * y = y * x
      OBVIOUS
    <2>2. Cardinality(Callers) * MultiN = MultiN * Cardinality(Callers)
      BY <1>0, <1>1, <2>1
    <2> QED
      BY <1>3, <2>2 DEF Most
  <1>6. IsFiniteSet(T) /\ P \in SUBSET T
    BY <1>3, <1>4
  <1> HIDE DEF P, T
  <1>7. IsFiniteSet(P) /\ Cardinality(P) <= Cardinality(T)
    BY <1>6, FS_Subset
  <1>8. Cardinality(P) \in Nat /\ Cardinality(T) \in Nat
    BY <1>6, <1>7, FS_CardinalityType
  <1> QED
    BY <1>5, <1>7, <1>8 DEF P

\* The n requests of one call.
LEMMA OneCall ==
  ASSUME NEW c, NEW n \in Nat
  PROVE  IsFiniteSet({c} \X (1 .. n)) /\ Cardinality({c} \X (1 .. n)) = n
  <1>1. IsFiniteSet({c}) /\ Cardinality({c}) = 1
    BY FS_Singleton
  <1>2. IsFiniteSet(1 .. n) /\ Cardinality(1 .. n) = n
    BY FS_Interval
  <1>3. /\ IsFiniteSet({c} \X (1 .. n))
        /\ Cardinality({c} \X (1 .. n)) = Cardinality({c}) * Cardinality(1 .. n)
    BY <1>1, <1>2, FS_Product
  <1>4. Cardinality({c}) * Cardinality(1 .. n) = n
    BY <1>1, <1>2
  <1> QED
    BY <1>3, <1>4

\* A call that passes the first limiter is between the two.
LEMMA PendingMore ==
  ASSUME NEW a \in [Callers -> 0 .. 2], NEW w \in [Callers -> 0 .. MultiN],
         NEW c \in Callers, a[c] = 1
  PROVE  Cardinality(PendingOf([a EXCEPT ![c] = 2], w))
           = Cardinality(PendingOf(a, w)) + w[c]
  <1> DEFINE P == PendingOf(a, w)
             Q == PendingOf([a EXCEPT ![c] = 2], w)
             N == {c} \X (1 .. w[c])
  <1>1. w[c] \in Nat /\ MultiN \in Nat /\ w[c] <= MultiN
    BY MultiAssumption
  <1>2. \A i \in 1 .. w[c] : i \in 1 .. MultiN /\ i <= w[c]
    BY <1>1
  <1>3. Q = P \cup N
    <2>1. ASSUME NEW p \in Q PROVE p \in P \cup N
      <3>1. p \in Callers \X (1 .. MultiN) /\ p[2] <= w[p[1]]
        BY DEF PendingOf
      <3>2. CASE p[1] = c
        <4>1. p[2] \in 1 .. w[c]
          BY <1>1, <3>1, <3>2
        <4>2. p = <<c, p[2]>>
          BY <3>1, <3>2
        <4> QED
          BY <4>1, <4>2
      <3>3. CASE p[1] # c
        <4>1. a[p[1]] = 2
          BY <3>1, <3>3 DEF PendingOf
        <4> QED
          BY <3>1, <4>1 DEF PendingOf
      <3> QED
        BY <3>2, <3>3
    <2>2. ASSUME NEW p \in P PROVE p \in Q
      <3>1. p \in Callers \X (1 .. MultiN) /\ a[p[1]] = 2 /\ p[2] <= w[p[1]]
        BY DEF PendingOf
      <3>2. [a EXCEPT ![c] = 2][p[1]] = 2
        BY <3>1
      <3> QED
        BY <3>1, <3>2 DEF PendingOf
    <2>3. ASSUME NEW p \in N PROVE p \in Q
      <3>1. p[1] = c /\ p[2] \in 1 .. w[c] /\ p = <<p[1], p[2]>>
        OBVIOUS
      <3>2. [a EXCEPT ![c] = 2][p[1]] = 2 /\ p \in Callers \X (1 .. MultiN)
        BY <1>2, <3>1
      <3> QED
        BY <1>2, <3>1, <3>2 DEF PendingOf
    <2> QED
      BY <2>1, <2>2, <2>3
  <1>4. P \cap N = {}
    BY DEF PendingOf
  <1>5. /\ IsFiniteSet(P) /\ IsFiniteSet(N) /\ Cardinality(N) = w[c]
        /\ Cardinality(P) \in Nat
    BY <1>1, PendingSize, OneCall
  <1> HIDE DEF P, Q, N
  <1>6. Cardinality(P \cap N) = 0
    BY <1>4, FS_EmptySet
  <1>7. Cardinality(Q) = Cardinality(P) + w[c] - 0
    BY <1>3, <1>5, <1>6, FS_Union
  <1>8. Cardinality(Q) = Cardinality(P) + w[c]
    BY <1>1, <1>5, <1>7
  <1> QED
    BY <1>8 DEF P, Q

\* A call that ends is no longer between the limiters.
LEMMA PendingLess ==
  ASSUME NEW a \in [Callers -> 0 .. 2], NEW w \in [Callers -> 0 .. MultiN],
         NEW c \in Callers, NEW b, b[c] # 2, NEW u,
         \A e \in Callers \ {c} : b[e] = a[e] /\ u[e] = w[e]
  PROVE  /\ a[c] = 2 => Cardinality(PendingOf(b, u)) = Cardinality(PendingOf(a, w)) - w[c]
         /\ a[c] # 2 => Cardinality(PendingOf(b, u)) = Cardinality(PendingOf(a, w))
  <1> DEFINE P == PendingOf(a, w)
             Q == PendingOf(b, u)
             N == {c} \X (1 .. w[c])
  <1>1. w[c] \in Nat /\ MultiN \in Nat /\ w[c] <= MultiN
    BY MultiAssumption
  <1>2. \A p \in Callers \X (1 .. MultiN) :
           p \in Q <=> p[1] # c /\ a[p[1]] = 2 /\ p[2] <= w[p[1]]
    BY DEF PendingOf
  <1>3. \A p \in Callers \X (1 .. MultiN) : p \in P <=> a[p[1]] = 2 /\ p[2] <= w[p[1]]
    BY DEF PendingOf
  <1>4. P \in SUBSET (Callers \X (1 .. MultiN)) /\ Q \in SUBSET (Callers \X (1 .. MultiN))
    BY DEF PendingOf
  <1>5. /\ IsFiniteSet(P) /\ Cardinality(P) \in Nat /\ Cardinality(N) = w[c]
    BY <1>1, PendingSize, OneCall
  <1> HIDE DEF P, Q
  <1>6. CASE a[c] = 2
    <2>1. N \subseteq P
      <3>1. ASSUME NEW p \in N PROVE p \in P
        <4>1. p[1] = c /\ p[2] \in 1 .. w[c] /\ p = <<p[1], p[2]>>
          OBVIOUS
        <4>2. p[2] \in 1 .. MultiN /\ p[2] <= w[c]
          BY <1>1, <4>1
        <4>3. p \in Callers \X (1 .. MultiN)
          BY <4>1, <4>2
        <4> QED
          BY <1>3, <1>6, <4>1, <4>2, <4>3
      <3> QED
        BY <3>1
    <2>2. Q = P \ N
      <3>1. ASSUME NEW p \in Callers \X (1 .. MultiN)
            PROVE  p \in Q <=> p \in P \ N
        <4>1. CASE p[1] = c
          <5>1. p \in P => p \in N
            <6>1. p[2] <= w[c] => p[2] \in 1 .. w[c]
              BY <1>1
            <6>2. p = <<c, p[2]>>
              BY <4>1
            <6> QED
              BY <1>3, <4>1, <6>1, <6>2
          <5> QED
            BY <1>2, <4>1, <5>1
        <4>2. CASE p[1] # c
          BY <1>2, <1>3, <4>2
        <4> QED
          BY <4>1, <4>2
      <3> QED
        BY <1>4, <3>1
    <2>3. P \cap N = N
      BY <2>1
    <2> HIDE DEF N
    <2>4. Cardinality(P \ N) = Cardinality(P) - Cardinality(P \cap N)
      BY <1>5, FS_Difference
    <2>5. Cardinality(Q) = Cardinality(P) - w[c]
      BY <1>5, <2>2, <2>3, <2>4
    <2> QED
      BY <1>6, <2>5 DEF P, Q
  <1>7. CASE a[c] # 2
    <2>1. Q = P
      <3>1. ASSUME NEW p \in Callers \X (1 .. MultiN)
            PROVE  p \in Q <=> p \in P
        BY <1>2, <1>3, <1>7
      <3> QED
        BY <1>4, <3>1
    <2> QED
      BY <1>7, <2>1 DEF P, Q
  <1> QED
    BY <1>6, <1>7

\* The first limiter gives n, which are between the limiters then.
LEMMA FirstGives ==
  ASSUME NEW c \in Times, NEW A, History(A, c), NEW F, History(F, c), NEW P \in Nat,
         Behind(A, F, c, P), NEW n \in Nat, P + n <= Most
  PROVE  Behind(A, AdmitTo(F, c, n), c, P + n)
  <1> DEFINE G == AdmitTo(F, c, n)
  <1>1. c \in Nat /\ c + 1 \in Bounds /\ Most \in Nat
    BY TimesInBounds, PendingSize
  <1>2. \A t \in Bounds : /\ G[t] = IF t > c THEN F[t] + n ELSE F[t]
                          /\ F[t] \in Nat /\ A[t] \in Nat /\ t \in Nat
    BY DEF AdmitTo, History, Totals, Bounds
  <1>3. \A t \in Bounds : t > c => A[t] = A[c + 1] /\ F[t] = F[c + 1]
    BY DEF History
  <1> HIDE DEF G
  <1>4. G[c + 1] = F[c + 1] + n
    BY <1>1, <1>2
  <1>5. ASSUME NEW s \in Bounds
        PROVE  A[c + 1] - A[s] + (P + n) <= G[c + 1] - G[s] + Most
    <2>1. A[c + 1] - A[s] + P <= F[c + 1] - F[s] + Most
      BY DEF Behind
    <2>2. CASE s > c
      <3>1. G[s] = G[c + 1] /\ A[s] = A[c + 1] /\ G[s] \in Nat
        BY <1>2, <1>3, <1>4, <2>2
      <3>2. A[c + 1] \in Nat
        BY <1>1, <1>2
      <3> QED
        BY <1>1, <3>1, <3>2
    <2>3. CASE ~(s > c)
      <3>1. G[s] = F[s]
        BY <1>2, <2>3
      <3>2. A[c + 1] \in Nat /\ A[s] \in Nat /\ F[c + 1] \in Nat /\ F[s] \in Nat
        BY <1>1, <1>2
      <3> QED
        BY <1>1, <1>4, <2>1, <3>1, <3>2
    <2> QED
      BY <2>2, <2>3
  <1>6. ASSUME NEW s \in Bounds, NEW t \in Bounds, s <= t
        PROVE  A[t] - A[s] <= G[t] - G[s] + Most
    <2>1. A[t] - A[s] <= F[t] - F[s] + Most
      BY <1>6 DEF Behind
    <2>2. F[t] - F[s] <= G[t] - G[s]
      BY <1>1, <1>2, <1>6
    <2>3. /\ A[t] \in Nat /\ A[s] \in Nat /\ F[t] \in Nat /\ F[s] \in Nat
          /\ G[t] \in Nat /\ G[s] \in Nat
      BY <1>2
    <2> QED
      BY <1>1, <2>1, <2>2, <2>3
  <1> QED
    BY <1>5, <1>6 DEF Behind, G

\* The last limiter lets n of those between the limiters through.
LEMMA LastGives ==
  ASSUME NEW c \in Times, NEW A, History(A, c), NEW F, History(F, c), NEW P \in Nat,
         Behind(A, F, c, P), NEW n \in Nat, n <= P
  PROVE  Behind(AdmitTo(A, c, n), F, c, P - n)
  <1> DEFINE B == AdmitTo(A, c, n)
  <1>1. c \in Nat /\ c + 1 \in Bounds /\ Most \in Nat
    BY TimesInBounds, PendingSize
  <1>2. \A t \in Bounds : /\ B[t] = IF t > c THEN A[t] + n ELSE A[t]
                          /\ F[t] \in Nat /\ A[t] \in Nat /\ t \in Nat
    BY DEF AdmitTo, History, Totals, Bounds
  <1>3. \A t \in Bounds : t > c => A[t] = A[c + 1] /\ F[t] = F[c + 1]
    BY DEF History
  <1> HIDE DEF B
  <1>4. B[c + 1] = A[c + 1] + n
    BY <1>1, <1>2
  <1>5. ASSUME NEW s \in Bounds
        PROVE  B[c + 1] - B[s] + (P - n) <= F[c + 1] - F[s] + Most
    <2>1. A[c + 1] - A[s] + P <= F[c + 1] - F[s] + Most
      BY DEF Behind
    <2>2. A[s] <= B[s] /\ B[s] \in Nat
      BY <1>2
    <2>3. A[c + 1] \in Nat /\ A[s] \in Nat /\ F[c + 1] \in Nat /\ F[s] \in Nat
      BY <1>1, <1>2
    <2> QED
      BY <1>1, <1>4, <2>1, <2>2, <2>3
  <1>6. ASSUME NEW s \in Bounds, NEW t \in Bounds, s <= t
        PROVE  B[t] - B[s] <= F[t] - F[s] + Most
    <2>1. A[t] - A[s] <= F[t] - F[s] + Most
      BY <1>6 DEF Behind
    <2>2. /\ A[t] \in Nat /\ A[s] \in Nat /\ F[t] \in Nat /\ F[s] \in Nat
      BY <1>2
    <2>3. CASE t > c /\ ~(s > c)
      <3>1. /\ B[t] = B[c + 1] /\ F[t] = F[c + 1]
        BY <1>2, <1>3, <1>4, <2>3
      <3>2. B[c + 1] - B[s] + (P - n) <= F[c + 1] - F[s] + Most
        BY <1>5
      <3>3. B[c + 1] \in Nat /\ B[s] \in Nat /\ F[c + 1] \in Nat
        BY <1>1, <1>2, <1>4
      <3> QED
        BY <1>1, <2>2, <3>1, <3>2, <3>3
    <2>4. CASE ~(t > c) \/ s > c
      <3>1. B[t] - B[s] = A[t] - A[s]
        BY <1>1, <1>2, <1>6, <2>4
      <3> QED
        BY <2>1, <3>1
    <2> QED
      BY <2>3, <2>4
  <1> QED
    BY <1>5, <1>6 DEF Behind, B

\* Calls that give up between the limiters only help.
LEMMA BehindLess ==
  ASSUME NEW c \in Times, NEW A, History(A, c), NEW F, History(F, c), NEW P \in Nat,
         Behind(A, F, c, P), NEW Q \in Nat, Q <= P
  PROVE  Behind(A, F, c, Q)
  <1>1. c + 1 \in Bounds /\ Most \in Nat
    BY TimesInBounds, PendingSize
  <1>2. \A s \in Bounds : A[s] \in Nat /\ F[s] \in Nat
    BY DEF History, Totals
  <1>3. ASSUME NEW s \in Bounds
        PROVE  A[c + 1] - A[s] + Q <= F[c + 1] - F[s] + Most
    <2>1. A[c + 1] - A[s] + P <= F[c + 1] - F[s] + Most
      BY DEF Behind
    <2>2. A[c + 1] \in Nat /\ A[s] \in Nat /\ F[c + 1] \in Nat /\ F[s] \in Nat
      BY <1>1, <1>2
    <2> QED
      BY <1>1, <2>1, <2>2
  <1> QED
    BY <1>3 DEF Behind

\* NewMultiLimiter establishes the invariant.
LEMMA MultiInitInv == MultiInit => MultiInv
  <1> SUFFICES ASSUME MultiInit
               PROVE  MultiInv
    OBVIOUS
  <1> DEFINE A == [t \in Bounds |-> 0]
  <1>1. /\ clock = 0 /\ tokens = capacity /\ lastRefill = 0 /\ requests = <<>>
        /\ admitted = A /\ bucketGave = A /\ slidingGave = A
        /\ at = [c \in Callers |-> 0] /\ wants = [c \in Callers |-> 0]
        /\ waits = [c \in Callers |-> FALSE]
        /\ kind = "multi" => chain \in Chains
    BY DEF MultiInit, Init, Chains
  <1>2. /\ 0 \in Times /\ History(A, 0) /\ BucketOK(A, capacity, 0, 0)
        /\ SlidingOK(A, <<>>, 0)
    BY NoHistory
  <1>3. CallTypeOK
    BY <1>1, MultiAssumption DEF CallTypeOK
  <1>4. Behind(A, A, 0, Cardinality(PendingOf(at, wants)))
    <2>1. PendingOf(at, wants) = {}
      BY <1>1 DEF PendingOf
    <2>2. Cardinality(PendingOf(at, wants)) = 0 /\ Most \in Nat
      BY <2>1, FS_EmptySet, PendingSize
    <2>3. \A t \in Bounds : A[t] = 0
      OBVIOUS
    <2>4. 0 + 1 \in Bounds
      BY LimiterAssumption DEF Bounds
    <2> QED
      BY <2>2, <2>3, <2>4 DEF Behind
  <1> HIDE DEF A
  <1>5. Gave("token_bucket") = A /\ Gave("sliding_window") = A
    BY <1>1 DEF Gave
  <1>6. \A ch \in Chains : Gave(ch[1]) = A /\ Gave(ch[2]) = A
    BY <1>5 DEF Chains
  <1> QED
    BY <1>1, <1>2, <1>3, <1>4, <1>6 DEF MultiInv, ChainInv

\* The token bucket of the chain: it keeps its predicate, and what it gives is n.
LEMMA BucketOfChain ==
  ASSUME clock \in Times, History(bucketGave, clock),
         BucketOK(bucketGave, tokens, lastRefill, clock), NEW n \in Nat,
         Bucket!BucketAllowN(n) \/ Bucket!GetTokens
  PROVE  /\ UNCHANGED <<requests, clock>>
         /\ BucketOK(bucketGave', tokens', lastRefill', clock)
         /\ bucketGave' # bucketGave => bucketGave' = AdmitTo(bucketGave, clock, n)
         /\ History(bucketGave', clock)
  <1> DEFINE j == RefillTo(tokens, lastRefill, clock)
             M == RefillAt(lastRefill, clock)
  <1>1. tokens \in 0 .. capacity /\ lastRefill \in 0 .. clock /\ capacity \in Nat
    BY LimiterAssumption DEF BucketOK
  <1>2. j \in 0 .. capacity /\ M \in 0 .. clock /\ clock - M < TicksPerSecond
    BY <1>1, RefillResult
  <1>3. BucketOK(bucketGave, j, M, clock)
    BY RefillOK
  <1>4. Bucket!Refilled = j /\ Bucket!refillTime = M
    BY DEF Bucket!Refilled, Bucket!refillTime, Bucket!tokensToAdd, Bucket!Min,
           RefillTo, RefillAt, Seconds, Min
  <1> HIDE DEF j, M
  <1>5. PICK taken \in {0, n} :
           /\ taken <= j /\ Bucket!RefillAndTake(taken)
           /\ bucketGave' = AdmitTo(bucketGave, clock, taken)
           /\ bucketGave' # bucketGave => taken = n
    <2>1. CASE Bucket!Refilled >= n /\ Bucket!RefillAndTake(n) /\ Bucket!Admit(n)
      <3>1. n <= j
        BY <1>1, <1>2, <1>4, <2>1
      <3>2. bucketGave' = AdmitTo(bucketGave, clock, n)
        BY <2>1 DEF Bucket!Admit, AdmitTo, Bounds, Bucket!Bounds
      <3> QED
        BY <2>1, <3>1, <3>2
    <2>2. CASE Bucket!RefillAndTake(0) /\ UNCHANGED bucketGave
      <3>1. 0 <= j
        BY <1>1, <1>2
      <3>2. bucketGave = AdmitTo(bucketGave, clock, 0)
        BY DEF AdmitTo, History, Totals
      <3> QED
        BY <2>2, <3>1, <3>2
    <2> QED
      BY <2>1, <2>2 DEF Bucket!BucketAllowN, Bucket!GetTokens
  <1>6. /\ tokens' = j - taken /\ lastRefill' = M
        /\ UNCHANGED <<requests, clock>>
    BY <1>4, <1>5 DEF Bucket!RefillAndTake, Bucket!swVars
  <1>7. taken \in Nat
    BY <1>5
  <1>8. History(bucketGave', clock)
    BY <1>5, <1>7, AdmitHistory
  <1>9. BucketOK(bucketGave', tokens', lastRefill', clock)
    BY <1>2, <1>3, <1>5, <1>6, <1>7, TakeOK
  <1> QED
    BY <1>5, <1>6, <1>8, <1>9

\* The sliding window of the chain.
LEMMA SlidingOfChain ==
  ASSUME clock \in Times, History(slidingGave, clock),
         SlidingOK(slidingGave, requests, clock), NEW n \in Nat,
         Sliding!SlidingAllowN(n)
  PROVE  /\ UNCHANGED <<tokens, lastRefill, clock>>
         /\ SlidingOK(slidingGave', requests', clock)
         /\ slidingGave' # slidingGave => slidingGave' = AdmitTo(slidingGave, clock, n)
         /\ History(slidingGave', clock)
  <1>1. Sliding!cleanup = Kept(requests, clock)
    BY DEF Sliding!cleanup, Sliding!InOrder, Sliding!Cardinality, Kept, InOrder,
           Cardinality
  <1>2. SlidingOK(slidingGave, Kept(requests, clock), clock)
    BY KeptOK
  <1>3. UNCHANGED <<tokens, lastRefill, clock>>
    BY DEF Sliding!SlidingAllowN, Sliding!tbVars
  <1>4. CASE /\ Len(Kept(requests, clock)) + n <= limit
             /\ requests' = Kept(requests, clock) \o [i \in 1 .. n |-> clock]
             /\ Sliding!Admit(n)
    <2>1. slidingGave' = AdmitTo(slidingGave, clock, n)
      BY <1>4 DEF Sliding!Admit, AdmitTo, Bounds, Sliding!Bounds
    <2> QED
      BY <1>2, <1>3, <1>4, <2>1, SlideOK, AdmitHistory
  <1>5. CASE requests' = Kept(requests, clock) /\ UNCHANGED slidingGave
    BY <1>2, <1>3, <1>5
  <1> QED
    BY <1>1, <1>4, <1>5 DEF Sliding!SlidingAllowN

\* A call moves on or ends, and the limiters give nothing.
LEMMA CallStep ==
  ASSUME MultiInv, kind = "multi", NEW c \in Callers,
         clock' = clock, UNCHANGED <<kind, chain, admitted, gaveVars>>,
         BucketOK(bucketGave, tokens', lastRefill', clock),
         SlidingOK(slidingGave, requests', clock),
         \/ UNCHANGED callVars
         \/ Return(c)
         \/ /\ at[c] = 0 /\ at' = [at EXCEPT ![c] = 1]
            /\ \E n \in 1 .. MultiN : wants' = [wants EXCEPT ![c] = n]
            /\ \E wait \in BOOLEAN : waits' = [waits EXCEPT ![c] = wait]
  PROVE  MultiInv'
  <1>1. /\ clock \in Times /\ CallTypeOK /\ ChainInv /\ MultiN \in Nat
        /\ at \in [Callers -> 0 .. 2] /\ wants \in [Callers -> 0 .. MultiN]
        /\ waits \in [Callers -> BOOLEAN]
    BY MultiAssumption DEF MultiInv, CallTypeOK
  <1>2. UNCHANGED <<bucketGave, slidingGave>>
    BY DEF gaveVars
  <1>3. CASE UNCHANGED callVars
    <2>1. UNCHANGED <<at, wants, waits>>
      BY <1>3 DEF callVars
    <2> QED
      BY <1>1, <1>2, <2>1 DEF MultiInv, CallTypeOK, ChainInv, Gave
  <1>4. CASE /\ waits' \in [Callers -> BOOLEAN]
             /\ \E v \in {0, 1}, m \in 0 .. MultiN :
                   at' = [at EXCEPT ![c] = v] /\ wants' = [wants EXCEPT ![c] = m]
    <2>1. PICK v \in {0, 1}, m \in 0 .. MultiN :
             at' = [at EXCEPT ![c] = v] /\ wants' = [wants EXCEPT ![c] = m]
      BY <1>4
    <2>2. v \in 0 .. 2
      OBVIOUS
    <2>3. CallTypeOK'
      <3>1. at' \in [Callers -> 0 .. 2] /\ wants' \in [Callers -> 0 .. MultiN]
        BY <1>1, <2>1, <2>2
      <3> QED
        BY <1>4, <3>1 DEF CallTypeOK
    <2>4. /\ at[c] = 2 => Cardinality(PendingOf(at', wants'))
                            = Cardinality(PendingOf(at, wants)) - wants[c]
          /\ at[c] # 2 => Cardinality(PendingOf(at', wants'))
                            = Cardinality(PendingOf(at, wants))
      <3>1. /\ at'[c] # 2
            /\ \A e \in Callers \ {c} : at'[e] = at[e] /\ wants'[e] = wants[e]
        BY <1>1, <2>1
      <3> QED
        BY <1>1, <3>1, PendingLess
    <2>5. wants[c] \in Nat
      BY <1>1
    <2>6. /\ Cardinality(PendingOf(at', wants')) \in Nat
          /\ Cardinality(PendingOf(at, wants)) \in Nat
      BY PendingSize
    <2>7. Cardinality(PendingOf(at', wants')) <= Cardinality(PendingOf(at, wants))
      BY <2>4, <2>5, <2>6
    <2>8. /\ History(admitted, clock) /\ History(Gave(chain[1]), clock)
          /\ Behind(admitted, Gave(chain[1]), clock, Cardinality(PendingOf(at, wants)))
      BY <1>1 DEF ChainInv, Gave
    <2>9. Behind(admitted, Gave(chain[1]), clock, Cardinality(PendingOf(at', wants')))
      BY <1>1, <2>6, <2>7, <2>8, BehindLess
    <2>10. ChainInv'
      BY <1>1, <1>2, <2>9 DEF ChainInv, Gave
    <2> QED
      BY <1>1, <2>3, <2>10 DEF MultiInv
  <1>5. Return(c) => /\ waits' \in [Callers -> BOOLEAN]
                     /\ \E v \in {0, 1}, m \in 0 .. MultiN :
                           at' = [at EXCEPT ![c] = v] /\ wants' = [wants EXCEPT ![c] = m]
    <2>1. 0 \in 0 .. MultiN
      BY <1>1
    <2> QED
      BY <1>1, <2>1 DEF Return
  <1>6. ASSUME /\ at' = [at EXCEPT ![c] = 1]
               /\ \E n \in 1 .. MultiN : wants' = [wants EXCEPT ![c] = n]
               /\ \E wait \in BOOLEAN : waits' = [waits EXCEPT ![c] = wait]
        PROVE  /\ waits' \in [Callers -> BOOLEAN]
               /\ \E v \in {0, 1}, m \in 0 .. MultiN :
                     at' = [at EXCEPT ![c] = v] /\ wants' = [wants EXCEPT ![c] = m]
    <2>1. PICK n \in 1 .. MultiN : wants' = [wants EXCEPT ![c] = n]
      BY <1>6
    <2>2. n \in 0 .. MultiN
      BY <1>1
    <2>3. waits' \in [Callers -> BOOLEAN]
      BY <1>1, <1>6
    <2> QED
      BY <1>6, <2>1, <2>2, <2>3
  <1> QED
    BY <1>3, <1>4, <1>5, <1>6

\* A limiter of the chain admits the call of c.
LEMMA PassedStep ==
  ASSUME MultiInv, kind = "multi", NEW c \in Callers, Passed(c),
         clock' = clock, UNCHANGED <<kind, chain>>,
         NEW i \in {1, 2}, at[c] = i,
         Gave(chain[i])' = AdmitTo(Gave(chain[i]), clock, wants[c]),
         Gave(chain[3 - i])' = Gave(chain[3 - i]),
         History(bucketGave', clock), History(slidingGave', clock),
         BucketOK(bucketGave', tokens', lastRefill', clock),
         SlidingOK(slidingGave', requests', clock)
  PROVE  MultiInv'
  <1>1. /\ clock \in Times /\ CallTypeOK /\ ChainInv /\ MultiN \in Nat
        /\ at \in [Callers -> 0 .. 2] /\ wants \in [Callers -> 0 .. MultiN]
        /\ waits \in [Callers -> BOOLEAN] /\ chain \in Chains
    BY MultiAssumption DEF MultiInv, CallTypeOK, ChainInv
  <1>2. /\ Len(chain) = 2 /\ chain[1] # chain[2]
        /\ chain[1] \in {"token_bucket", "sliding_window"}
        /\ chain[2] \in {"token_bucket", "sliding_window"}
    BY <1>1 DEF Chains
  <1> DEFINE P == Cardinality(PendingOf(at, wants))
             F == Gave(chain[1])
  <1>3. /\ History(admitted, clock) /\ History(F, clock) /\ Gave(chain[2]) = admitted
        /\ Behind(admitted, F, clock, P)
    BY <1>1 DEF ChainInv, Gave
  <1>4. wants[c] \in Nat /\ P \in Nat /\ at[c] \in {1, 2}
    BY <1>1, PendingSize
  <1>5. CASE at[c] = 1
    <2>1. at' = [at EXCEPT ![c] = 2] /\ UNCHANGED <<wants, waits, admitted>>
      BY <1>2, <1>5 DEF Passed
    <2>2. F' = AdmitTo(F, clock, wants[c]) /\ Gave(chain[2])' = Gave(chain[2])
      BY <1>5
    <2>3. Cardinality(PendingOf(at', wants')) = P + wants[c]
      BY <1>1, <1>5, <2>1, PendingMore
    <2>4. P + wants[c] <= Most
      BY <2>3, PendingSize
    <2> HIDE DEF P, F
    <2>5. Behind(admitted', F', clock, P + wants[c])
      BY <1>1, <1>3, <1>4, <2>1, <2>2, <2>4, FirstGives
    <2>6. CallTypeOK'
      <3>1. at' \in [Callers -> 0 .. 2]
        BY <1>1, <2>1
      <3> QED
        BY <1>1, <2>1, <3>1 DEF CallTypeOK
    <2>7. ChainInv'
      BY <1>1, <1>3, <2>1, <2>2, <2>3, <2>5 DEF ChainInv, F
    <2> QED
      BY <1>1, <2>6, <2>7 DEF MultiInv
  <1>6. CASE at[c] = 2
    <2>1. Return(c) /\ Admit(wants[c])
      BY <1>2, <1>6 DEF Passed
    <2>2. Gave(chain[2])' = AdmitTo(Gave(chain[2]), clock, wants[c]) /\ F' = F
      BY <1>6
    <2>3. admitted' = AdmitTo(admitted, clock, wants[c])
      BY <2>1 DEF Admit, AdmitTo
    <2>4. /\ at' = [at EXCEPT ![c] = 0] /\ wants' = [wants EXCEPT ![c] = 0]
          /\ waits' = [waits EXCEPT ![c] = FALSE]
      BY <2>1 DEF Return
    <2>5. Cardinality(PendingOf(at', wants')) = P - wants[c]
      <3>1. /\ at'[c] # 2
            /\ \A e \in Callers \ {c} : at'[e] = at[e] /\ wants'[e] = wants[e]
        BY <1>1, <2>4
      <3> QED
        BY <1>1, <1>6, <3>1, PendingLess
    <2>6. wants[c] <= P
      <3>1. Cardinality(PendingOf(at', wants')) \in Nat
        BY PendingSize
      <3> HIDE DEF P
      <3> QED
        BY <1>4, <2>5, <3>1
    <2> HIDE DEF P, F
    <2>7. Behind(admitted', F', clock, P - wants[c]) /\ History(admitted', clock)
      BY <1>1, <1>3, <1>4, <2>2, <2>3, <2>6, LastGives, AdmitHistory
    <2>8. CallTypeOK'
      <3>1. /\ at' \in [Callers -> 0 .. 2] /\ wants' \in [Callers -> 0 .. MultiN]
            /\ waits' \in [Callers -> BOOLEAN]
        BY <1>1, <2>4
      <3> QED
        BY <3>1 DEF CallTypeOK
    <2>9. ChainInv'
      BY <1>1, <1>3, <2>2, <2>3, <2>5, <2>7 DEF ChainInv, F
    <2> QED
      BY <1>1, <2>8, <2>9 DEF MultiInv
  <1> QED
    BY <1>4, <1>5, <1>6

\* A call of a limiter's AllowN.
LEMMA TryLimiterInv ==
  ASSUME MultiInv, NEW c \in Callers, TryLimiter(c)
  PROVE  MultiInv'
  <1>1. kind = "multi" /\ at[c] > 0 /\ UNCHANGED <<kind, chain>>
    BY DEF TryLimiter, MultiInv, CallTypeOK
  <1>2. /\ clock \in Times /\ chain \in Chains /\ at[c] \in {1, 2} /\ wants[c] \in Nat
        /\ History(bucketGave, clock) /\ History(slidingGave, clock)
        /\ BucketOK(bucketGave, tokens, lastRefill, clock)
        /\ SlidingOK(slidingGave, requests, clock)
    BY <1>1, MultiAssumption DEF MultiInv, CallTypeOK, ChainInv
  <1>3. chain[at[c]] \in {"token_bucket", "sliding_window"}
    BY <1>2 DEF Chains
  <1>4. CASE chain[at[c]] = "token_bucket"
    <2>1. Bucket!BucketAllowN(wants[c]) /\ UNCHANGED slidingGave
      BY <1>4 DEF TryLimiter, LimiterAllowN
    <2>2. /\ UNCHANGED <<requests, clock>>
          /\ BucketOK(bucketGave', tokens', lastRefill', clock)
          /\ bucketGave' # bucketGave => bucketGave' = AdmitTo(bucketGave, clock, wants[c])
          /\ History(bucketGave', clock)
      BY <1>2, <2>1, BucketOfChain
    <2>3. CASE gaveVars' # gaveVars /\ Passed(c)
      <3>1. bucketGave' = AdmitTo(bucketGave, clock, wants[c])
        BY <2>1, <2>2, <2>3 DEF gaveVars
      <3>2. PICK i \in {1, 2} : at[c] = i
        BY <1>2
      <3>3. Gave(chain[i])' = AdmitTo(Gave(chain[i]), clock, wants[c])
        BY <1>1, <1>4, <3>1, <3>2 DEF Gave
      <3>4. Gave(chain[3 - i])' = Gave(chain[3 - i])
        <4>1. (chain[3 - i] = "token_bucket") <=> (chain[i] # "token_bucket")
          BY <1>2 DEF Chains
        <4> QED
          BY <1>1, <1>4, <2>1, <3>2, <4>1 DEF Gave
      <3> QED
        BY <1>1, <1>2, <2>1, <2>2, <2>3, <3>2, <3>3, <3>4, PassedStep
    <2>4. CASE gaveVars' = gaveVars /\ Refused(c)
      BY <1>1, <1>2, <2>1, <2>2, <2>4, CallStep DEF Refused, gaveVars
    <2> QED
      BY <2>3, <2>4 DEF TryLimiter
  <1>5. CASE chain[at[c]] = "sliding_window"
    <2>1. Sliding!SlidingAllowN(wants[c]) /\ UNCHANGED bucketGave
      BY <1>5 DEF TryLimiter, LimiterAllowN
    <2>2. /\ UNCHANGED <<tokens, lastRefill, clock>>
          /\ SlidingOK(slidingGave', requests', clock)
          /\ slidingGave' # slidingGave =>
                slidingGave' = AdmitTo(slidingGave, clock, wants[c])
          /\ History(slidingGave', clock)
      BY <1>2, <2>1, SlidingOfChain
    <2>3. CASE gaveVars' # gaveVars /\ Passed(c)
      <3>1. slidingGave' = AdmitTo(slidingGave, clock, wants[c])
        BY <2>1, <2>2, <2>3 DEF gaveVars
      <3>2. PICK i \in {1, 2} : at[c] = i
        BY <1>2
      <3>3. Gave(chain[i])' = AdmitTo(Gave(chain[i]), clock, wants[c])
        BY <1>1, <1>5, <3>1, <3>2 DEF Gave
      <3>4. Gave(chain[3 - i])' = Gave(chain[3 - i])
        <4>1. (chain[3 - i] = "token_bucket") <=> (chain[i] # "token_bucket")
          BY <1>2 DEF Chains
        <4> QED
          BY <1>1, <1>5, <2>1, <3>2, <4>1 DEF Gave
      <3> QED
        BY <1>1, <1>2, <2>1, <2>2, <2>3, <3>2, <3>3, <3>4, PassedStep
    <2>4. CASE gaveVars' = gaveVars /\ Refused(c)
      BY <1>1, <1>2, <2>1, <2>2, <2>4, CallStep DEF Refused, gaveVars
    <2> QED
      BY <2>3, <2>4 DEF TryLimiter
  <1> QED
    BY <1>3, <1>4, <1>5

\* Time passes for the chain.
LEMMA MultiTickInv ==
  ASSUME MultiInv, Next, UNCHANGED <<chain, callVars, gaveVars>>
  PROVE  MultiInv'
  <1>1. UNCHANGED <<kind, chain, at, wants, waits, bucketGave, slidingGave>>
    BY DEF Next, BucketAllowN, GetTokens, RefillAndTake, SlidingAllowN, SlidingCount,
           FixedAllowN, Tick, callVars, gaveVars
  <1>2. CallTypeOK' /\ clock \in Times
    BY <1>1 DEF MultiInv, CallTypeOK
  <1>3. CASE Tick
    <2>1. /\ clock < MaxTime /\ clock' = clock + 1
          /\ UNCHANGED <<tokens, lastRefill, requests, admitted>>
      BY <1>3 DEF Tick, tbVars, swVars
    <2>2. ASSUME kind = "multi"
          PROVE  ChainInv'
      <3>1. ChainInv
        BY <2>2 DEF MultiInv
      <3>2. /\ History(admitted, clock + 1) /\ History(bucketGave, clock + 1)
            /\ History(slidingGave, clock + 1) /\ clock + 1 \in Times
            /\ BucketOK(bucketGave, tokens, lastRefill, clock + 1)
            /\ SlidingOK(slidingGave, requests, clock + 1)
        BY <1>2, <2>1, <3>1, TickHistory, TickBucket, TickSliding DEF ChainInv
      <3>3. ASSUME NEW F, NEW P, History(F, clock), Behind(admitted, F, clock, P)
            PROVE  Behind(admitted, F, clock + 1, P)
        <4>1. admitted[clock + 2] = admitted[clock + 1] /\ F[clock + 2] = F[clock + 1]
          BY <1>2, <2>1, <3>1, <3>3, TickHistory DEF ChainInv
        <4>2. clock + 1 + 1 = clock + 2
          BY <1>2, TimesInBounds
        <4> QED
          BY <3>3, <4>1, <4>2 DEF Behind
      <3>4. History(Gave(chain[1]), clock)
        BY <3>1 DEF ChainInv, Gave
      <3>5. Behind(admitted, Gave(chain[1]), clock + 1, Cardinality(PendingOf(at, wants)))
        BY <3>1, <3>3, <3>4 DEF ChainInv
      <3> QED
        BY <1>1, <2>1, <3>1, <3>2, <3>5 DEF ChainInv, Gave
    <2>3. clock' \in Times
      BY <1>2, <2>1, LimiterAssumption DEF Times
    <2> QED
      BY <1>1, <1>2, <2>2, <2>3 DEF MultiInv
  <1>4. CASE ~Tick
    <2>1. kind # "multi" /\ clock' = clock
      BY <1>4
      DEF Next, BucketAllowN, GetTokens, RefillAndTake, SlidingAllowN, SlidingCount,
                  FixedAllowN
    <2> QED
      BY <1>1, <1>2, <2>1 DEF MultiInv
  <1> QED
    BY <1>3, <1>4

\* Every step keeps the invariant.
LEMMA MultiNextInv == MultiInv /\ [MultiNext]_multiVars => MultiInv'
  <1> SUFFICES ASSUME MultiInv, [MultiNext]_multiVars
               PROVE  MultiInv'
    OBVIOUS
  <1>1. CASE Next /\ UNCHANGED <<chain, callVars, gaveVars>>
    BY <1>1, MultiTickInv
  <1>2. ASSUME NEW c \in Callers, NEW n \in 1 .. MultiN, NEW wait \in BOOLEAN,
               Begin(c, n, wait)
        PROVE  MultiInv'
    <2>1. /\ kind = "multi" /\ at[c] = 0 /\ at' = [at EXCEPT ![c] = 1]
          /\ wants' = [wants EXCEPT ![c] = n] /\ waits' = [waits EXCEPT ![c] = wait]
          /\ UNCHANGED <<kind, clock, tokens, lastRefill, requests, admitted, chain,
                         gaveVars>>
      BY <1>2 DEF Begin, vars, tbVars, swVars
    <2>2. /\ BucketOK(bucketGave, tokens', lastRefill', clock)
          /\ SlidingOK(slidingGave, requests', clock)
      BY <2>1 DEF MultiInv, ChainInv
    <2> QED
      BY <2>1, <2>2, CallStep
  <1>3. ASSUME NEW c \in Callers, TryLimiter(c)
        PROVE  MultiInv'
    BY <1>3, TryLimiterInv
  <1>4. ASSUME NEW c \in Callers, WaitTime(c)
        PROVE  MultiInv'
    <2>1. kind = "multi"
      BY <1>4 DEF WaitTime, MultiInv, CallTypeOK
    <2>2. ChainInv /\ clock \in Times
      BY <2>1 DEF MultiInv
    <2>3. 0 \in Nat /\ Bucket!GetTokens
      BY <1>4 DEF WaitTime
    <2>4. /\ UNCHANGED <<requests, clock>>
          /\ BucketOK(bucketGave', tokens', lastRefill', clock)
      BY <2>2, <2>3, BucketOfChain DEF ChainInv
    <2>5. UNCHANGED <<kind, chain, admitted, gaveVars, callVars>>
      BY <1>4 DEF WaitTime, Bucket!GetTokens, gaveVars
    <2>6. BucketOK(bucketGave, tokens', lastRefill', clock)
      BY <2>4, <2>5 DEF gaveVars
    <2>7. SlidingOK(slidingGave, requests', clock)
      BY <2>2, <2>4 DEF ChainInv
    <2> QED
      BY <2>1, <2>4, <2>5, <2>6, <2>7, CallStep
  <1>5. ASSUME NEW c \in Callers, WaitEnds(c)
        PROVE  MultiInv'
    <2>1. kind = "multi" /\ Return(c)
      BY <1>5 DEF WaitEnds, MultiInv, CallTypeOK
    <2>2. UNCHANGED <<kind, clock, tokens, lastRefill, requests, admitted, chain, gaveVars>>
      BY <1>5 DEF WaitEnds, vars, tbVars, swVars
    <2>3. /\ BucketOK(bucketGave, tokens', lastRefill', clock)
          /\ SlidingOK(slidingGave, requests', clock)
      BY <2>1, <2>2 DEF MultiInv, ChainInv
    <2> QED
      BY <2>1, <2>2, <2>3, CallStep
  <1>6. CASE UNCHANGED multiVars
    <2>1. UNCHANGED <<kind, clock, tokens, lastRefill, requests, admitted, chain, at, wants,
                      waits, bucketGave, slidingGave>>
      BY <1>6 DEF multiVars, vars, tbVars, swVars, callVars, gaveVars
    <2> QED
      BY <2>1 DEF MultiInv, CallTypeOK, ChainInv, Gave
  <1> QED
    BY <1>1, <1>2, <1>3, <1>4, <1>5, <1>6 DEF MultiNext

\* What comes through the chain keeps to the bounds of both limiters, up to the
\* calls between them, for any number of callers.
THEOREM MultiBoundCorrect == MultiSpec => []MultiBound
  <1>1. MultiInv => MultiBound
    <2> SUFFICES ASSUME MultiInv, kind = "multi", NEW s \in Times
                 PROVE  /\ Used(s, Min({s + window - 1, MaxTime}))
                             <= limit + Slack("sliding_window")
                        /\ \A t \in s .. MaxTime :
                              Used(s, t) <= capacity + Slack("token_bucket")
                                 + refillRate * (((t - s) \div TicksPerSecond) + 1)
      BY DEF MultiBound
    <2>1. /\ ChainInv /\ chain \in Chains /\ Gave(chain[2]) = admitted
          /\ s \in Nat /\ s <= MaxTime /\ MaxTime \in Nat /\ window \in Nat \ {0}
          /\ limit \in Nat /\ capacity \in Nat /\ refillRate \in Nat \ {0}
      BY LimiterAssumption DEF MultiInv, ChainInv, Times
    <2>2. Most \in Nat
      BY PendingSize
    <2>3. \A limiter \in {"token_bucket", "sliding_window"} :
             Slack(limiter) = IF chain[2] = limiter THEN 0 ELSE Most
      BY <2>1 DEF Slack, Most, Chains
    <2>4. \A t \in Bounds : /\ admitted[t] \in Nat /\ bucketGave[t] \in Nat
                            /\ slidingGave[t] \in Nat
      BY <2>1 DEF ChainInv, History, Totals
    <2>5. ASSUME NEW t \in s .. MaxTime, NEW limiter \in {"token_bucket", "sliding_window"}
          PROVE  admitted[t + 1] - admitted[s]
                   <= Gave(limiter)[t + 1] - Gave(limiter)[s] + Slack(limiter)
      <3>1. s \in Bounds /\ t + 1 \in Bounds /\ s <= t + 1
        BY <2>1 DEF Bounds
      <3>2. CASE chain[2] = limiter
        <4>1. Gave(limiter) = admitted /\ Slack(limiter) = 0
          BY <2>1, <2>3, <3>2
        <4> QED
          BY <2>4, <3>1, <4>1
      <3>3. CASE chain[2] # limiter
        <4>1. chain[1] = limiter /\ Slack(limiter) = Most
          BY <2>1, <2>3, <3>3 DEF Chains
        <4> QED
          BY <2>1, <3>1, <4>1 DEF ChainInv, Behind
      <3> QED
        BY <3>2, <3>3
    <2>6. Used(s, Min({s + window - 1, MaxTime})) <= limit + Slack("sliding_window")
      <3> DEFINE t == Min({s + window - 1, MaxTime})
      <3>1. t = IF s + window - 1 <= MaxTime THEN s + window - 1 ELSE MaxTime
        BY <2>1, MinOfTwo
      <3> HIDE DEF t
      <3>2. t \in s .. MaxTime /\ t - s < window
        BY <2>1, <3>1
      <3>3. slidingGave[t + 1] - slidingGave[s] <= limit
        BY <2>1, <3>2 DEF ChainInv, SlidingOK, WindowHolds
      <3>4. admitted[t + 1] - admitted[s]
              <= slidingGave[t + 1] - slidingGave[s] + Slack("sliding_window")
        BY <2>5, <3>2 DEF Gave
      <3>5. s \in Bounds /\ t + 1 \in Bounds
        BY <2>1, <3>2 DEF Bounds
      <3>6. Slack("sliding_window") \in Nat
        BY <2>2, <2>3
      <3>7. /\ admitted[t + 1] \in Nat /\ admitted[s] \in Nat
            /\ slidingGave[t + 1] \in Nat /\ slidingGave[s] \in Nat /\ limit \in Nat
        BY <2>1, <2>4, <3>5
      <3>8. admitted[t + 1] - admitted[s] <= limit + Slack("sliding_window")
        BY <3>3, <3>4, <3>6, <3>7
      <3> QED
        BY <3>8 DEF Used, t
    <2>7. ASSUME NEW t \in s .. MaxTime
          PROVE  Used(s, t) <= capacity + Slack("token_bucket")
                                 + refillRate * (((t - s) \div TicksPerSecond) + 1)
      <3> DEFINE r == refillRate * (Seconds(t - s) + 1)
      <3>1. bucketGave[t + 1] - bucketGave[s] <= capacity + r
        BY <2>1 DEF ChainInv, BucketOK
      <3>2. admitted[t + 1] - admitted[s]
              <= bucketGave[t + 1] - bucketGave[s] + Slack("token_bucket")
        BY <2>5 DEF Gave
      <3>3. s \in Bounds /\ t + 1 \in Bounds
        BY <2>1 DEF Bounds
      <3>4. Slack("token_bucket") \in Nat
        BY <2>2, <2>3
      <3>5. r \in Int
        <4>1. t - s \in Int
          BY <2>1
        <4> QED
          BY <2>1, <4>1, SecondsOf
      <3> HIDE DEF r
      <3>6. admitted[t + 1] - admitted[s] <= capacity + Slack("token_bucket") + r
        BY <2>1, <2>4, <3>1, <3>2, <3>3, <3>4, <3>5
      <3> QED
        BY <3>6 DEF Used, r, Seconds
    <2> QED
      BY <2>6, <2>7
  <1> QED
    BY <1>1, MultiInitInv, MultiNextInv, PTL DEF MultiSpec

=============================================================================
