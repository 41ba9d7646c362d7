---------------------------- MODULE PickNProofs ----------------------------
(***************************************************************************)
(* Proofs about PickN for every set of benchmarks, every target and every  *)
(* width of the integers: the count stays legal and grows by a bounded     *)
(* factor, even when n * target_ns overflows.                              *)
(***************************************************************************)
EXTENDS PickN, TLAPS

\* Whatever -time asks for, the target is positive.
LEMMA TargetsPositive == Targets \subseteq Nat \ {0}
  BY PickNAssumption DEF Targets, target_ns

\* A wrapped value is an integer, whatever was wrapped.
LEMMA WrapInt == ASSUME NEW x \in Int PROVE Wrap(x) \in Int
  BY PickNAssumption DEF Wrap

\* Truncating division by a positive number gives an integer.
LEMMA QuotInt == ASSUME NEW a \in Int, NEW b \in Nat \ {0} PROVE Quot(a, b) \in Int
  BY DEF Quot

\* An estimate is an integer, possibly negative when a product overflowed.
LEMMA FillInt ==
  ASSUME NEW k \in Nat, NEW t \in Nat, NEW d \in Nat \ {0}
  PROVE  Fill(k, t, d) \in Int
  <1> DEFINE q == Quot(Wrap(k * t), d)
  <1>1. Wrap(k * t) \in Int
    BY WrapInt
  <1>2. q \in Int
    BY <1>1, QuotInt
  <1>3. Quot(q, 5) \in Int
    BY <1>2, QuotInt
  <1>4. Wrap(q + Quot(q, 5)) \in Int
    BY <1>2, <1>3, WrapInt
  <1> QED
    BY <1>4 DEF Fill

\* The estimate from the timed part is at least one more iteration and at most a
\* hundred times as many.
LEMMA ByTimedBounds ==
  ASSUME NEW k \in Nat \ {0}, NEW t \in Nat, NEW d \in Nat
  PROVE  ByTimed(k, t, d) \in Nat /\ k < ByTimed(k, t, d) /\ ByTimed(k, t, d) <= k * Jump
  <1>1. Jump \in Nat /\ k * Jump \in Nat /\ k + k <= k * Jump
    BY PickNAssumption
  <1>2. CASE d = 0
    BY <1>1, <1>2 DEF ByTimed
  <1>3. CASE d # 0
    <2>1. Fill(k, t, d) \in Int
      BY <1>3, FillInt
    <2> QED
      BY <1>1, <1>3, <2>1 DEF ByTimed, Progress, LeastOf
  <1> QED
    BY <1>2, <1>3

\* So is the count of the next round, after the wall clock had its say.
LEMMA NextCountBounds ==
  ASSUME NEW k \in Nat \ {0}, NEW t \in Nat, NEW d \in Nat, NEW w \in Nat
  PROVE  /\ NextCount(k, t, d, w) \in Nat
         /\ k < NextCount(k, t, d, w)
         /\ NextCount(k, t, d, w) <= k * Jump
  <1>1. ByTimed(k, t, d) \in Nat /\ k < ByTimed(k, t, d) /\ ByTimed(k, t, d) <= k * Jump
    BY ByTimedBounds
  <1>2. CASE w > 0 /\ w > d
    <2>1. Fill(k, t, w) \in Int
      BY <1>2, FillInt
    <2>2. k * Jump \in Nat
      BY PickNAssumption
    <2> QED
      BY <1>1, <1>2, <2>1, <2>2 DEF NextCount, Progress, LeastOf
  <1>3. CASE ~(w > 0 /\ w > d)
    BY <1>1, <1>3 DEF NextCount
  <1> QED
    BY <1>2, <1>3

\* What a round that scales does to the count.
LEMMA ScaleCount ==
  ASSUME TypeOK, Scale
  PROVE  n' \in 1..NMax /\ n < n' /\ n' <= n * Jump
  <1> DEFINE next == NextCount(n, target, ns, wall)
  <1>1. /\ n \in Nat \ {0} /\ target \in Nat /\ ns \in Nat /\ wall \in Nat
        /\ n < NMax /\ NMax \in Nat
    BY PickNAssumption, TargetsPositive DEF TypeOK, Scale, BigEnough
  <1>2. next \in Nat /\ n < next /\ next <= n * Jump
    BY <1>1, NextCountBounds
  <1>3. n' = IF next > NMax THEN NMax ELSE next
    BY DEF Scale
  <1>4. n * Jump \in Nat
    BY <1>1, PickNAssumption
  <1> HIDE DEF next
  <1> QED
    BY <1>1, <1>2, <1>3, <1>4

\* Every step of the search preserves the invariant.
LEMMA Inductive == IInv /\ [Next]_vars => IInv'
  <1> SUFFICES ASSUME IInv, [Next]_vars PROVE IInv'
    OBVIOUS
  <1> USE PickNAssumption
  <1>0. TypeOK /\ (pc = "scale" => round < Rounds)
    BY DEF IInv
  <1>1. CASE Measure
    <2>1. PICK m \in Measures(entry, n) : ns' = m[1] /\ wall' = m[2]
      BY <1>1 DEF Measure
    <2>2. m[1] \in Nat /\ m[2] \in Nat /\ m[1] <= m[2]
      BY <1>0, <2>1, MeasuresAssumption DEF TypeOK
    <2> QED
      BY <1>0, <1>1, <2>1, <2>2 DEF Measure, TypeOK, IInv
  <1>2. CASE Accept
    BY <1>0, <1>2 DEF Accept, TypeOK, IInv
  <1>3. CASE Scale
    <2>1. n' \in 1..NMax
      BY <1>0, <1>3, ScaleCount
    <2> QED
      BY <1>0, <1>3, <2>1 DEF Scale, TypeOK, IInv
  <1>4. CASE GiveUp
    BY <1>0, <1>4 DEF GiveUp, TypeOK, IInv
  <1>5. CASE UNCHANGED vars
    BY <1>0, <1>5 DEF vars, TypeOK, IInv
  <1> QED
    BY <1>1, <1>2, <1>3, <1>4, <1>5 DEF Next

\* The invariant holds throughout the search.
LEMMA Invariance == Spec => []IInv
  <1>1. Init => IInv
    BY PickNAssumption DEF Init, IInv, TypeOK
  <1> QED
    BY <1>1, Inductive, PTL DEF Spec

\* The count that is run next, and the one that is returned, is between 1 and
\* N_MAX, for every measurement the benchmark may produce.
THEOREM CountLegal == Spec => []TypeOK
  <1>1. IInv => TypeOK
    BY DEF IInv
  <1> QED
    BY <1>1, Invariance, PTL

\* No round asks for fewer iterations than before or for more than a hundred
\* times as many, overflow or not.
THEOREM GrowthBounded == Spec => BoundedGrowth
  <1>1. IInv /\ [Next]_vars => [n' # n => n < n' /\ n' <= Jump * n]_vars
    <2> SUFFICES ASSUME IInv, Next, n' # n
                 PROVE  n < n' /\ n' <= Jump * n
      OBVIOUS
    <2>1. Scale
      BY DEF Next, Measure, Accept, GiveUp
    <2>2. TypeOK
      BY DEF IInv
    <2>3. n * Jump = Jump * n
      BY <2>2, PickNAssumption DEF TypeOK
    <2> QED
      BY <2>1, <2>2, <2>3, ScaleCount
  <1> QED
    BY <1>1, Invariance, PTL DEF Spec, BoundedGrowth
-----------------------------------------------------------------------------
\* A value that fits is left alone by the wrap.
LEMMA WrapFits ==
  ASSUME NEW x \in Nat, x <= IntMax
  PROVE  Wrap(x) = x
  <1> DEFINE y == x + IntMax + 1
             m == 2 * (IntMax + 1)
  <1>1. y \in Nat /\ m \in Nat /\ y < m /\ m > 0
    BY PickNAssumption
  <1>2. y % m = y
    BY <1>1
  <1> QED
    BY <1>2, PickNAssumption DEF Wrap

\* What division by d loses is never negative.
LEMMA DivBelow ==
  ASSUME NEW a \in Nat, NEW d \in Nat \ {0}
  PROVE  a \div d \in Nat /\ d * (a \div d) <= a
  OBVIOUS

\* The remainder of a number that is one modulus and a bit.
LEMMA ModOnce ==
  ASSUME NEW m \in Nat \ {0}, NEW r \in Nat, r < m
  PROVE  (m + r) % m = r
  <1>1. (m + r) % m \in 0..(m - 1) /\ (m + r) \div m \in Int
    OBVIOUS
  <1>2. m + r = m * ((m + r) \div m) + ((m + r) % m)
    OBVIOUS
  <1>3. (m + r) \div m = 1
    BY <1>1, <1>2
  <1> QED
    BY <1>1, <1>2, <1>3

\* Without overflow of k * t, the estimate at the rate of k in d is at most a
\* fifth above the target t; when adding the fifth itself wraps, it is negative.
LEMMA FillBound ==
  ASSUME NEW k \in Nat, NEW t \in Nat, NEW d \in Nat \ {0}, k * t <= IntMax
  PROVE  Fill(k, t, d) <= 0 \/ 5 * (Fill(k, t, d) * d) <= 6 * (k * t)
  <1> DEFINE p == k * t
             q == p \div d
             f == q + (q \div 5)
  <1>1. p \in Nat /\ Wrap(p) = p
    BY WrapFits
  <1>2. q \in Nat /\ d * q <= p /\ q <= p
    BY <1>1, DivBelow
  <1>3. (q \div 5) \in Nat /\ 5 * (q \div 5) <= q
    BY <1>2, DivBelow
  <1>4. Fill(k, t, d) = Wrap(f)
    BY <1>1, <1>2 DEF Fill, Quot
  <1>5. CASE f <= IntMax
    <2>1. Fill(k, t, d) = f
      BY <1>2, <1>3, <1>4, <1>5, WrapFits
    <2>2. 5 * f <= 6 * q
      BY <1>2, <1>3
    <2>3. (5 * f) * d <= (6 * q) * d
      BY <1>2, <1>3, <2>2
    <2>4. 5 * (f * d) <= 6 * p
      BY <1>1, <1>2, <1>3, <2>3
    <2> QED
      BY <2>1, <2>4
  <1>6. CASE f > IntMax
    <2> DEFINE h == IntMax + 1
    <2>1. h \in Nat /\ h > 0 /\ f \in Nat /\ h <= f /\ f < 2 * h
      BY <1>1, <1>2, <1>3, <1>6, PickNAssumption
    <2>2. (f + h) % (2 * h) = f - h
      <3> DEFINE m == 2 * h
                 r == f - h
      <3>1. m \in Nat \ {0} /\ r \in Nat /\ r < m /\ f + h = m + r
        BY <2>1
      <3>2. (m + r) % m = r
        BY <3>1, ModOnce
      <3> QED
        BY <3>1, <3>2
    <2> QED
      BY <1>4, <2>1, <2>2, PickNAssumption DEF Wrap
  <1> QED
    BY <1>5, <1>6, <1>2, <1>3, PickNAssumption

\* Multiplication by a number keeps an inequality.
LEMMA TimesMonotone ==
  ASSUME NEW a \in Nat, NEW b \in Nat, NEW w \in Nat, a <= b
  PROVE  a * w <= b * w
  OBVIOUS

\* The count of the next round is one more iteration, or fills the target at the
\* rate of the wall clock with at most a fifth to spare.
LEMMA NextCountBound ==
  ASSUME NEW k \in Nat \ {0}, NEW t \in Nat, NEW d \in Nat, NEW w \in Nat,
         d <= w, 0 < w, k * t <= IntMax
  PROVE  \/ NextCount(k, t, d, w) = k + 1
         \/ 5 * (NextCount(k, t, d, w) * w) <= 6 * (k * t)
  <1> DEFINE c == NextCount(k, t, d, w)
  <1>0. /\ ByTimed(k, t, d) \in Nat /\ k < ByTimed(k, t, d)
        /\ k * t \in Nat /\ k * Jump \in Nat
    BY ByTimedBounds, PickNAssumption
  <1>1. Fill(k, t, w) \in Int
    BY FillInt
  <1>2. Fill(k, t, w) <= 0 \/ 5 * (Fill(k, t, w) * w) <= 6 * (k * t)
    BY FillBound
  <1>3. c \in Nat /\ (c = k + 1 \/ c <= Fill(k, t, w))
    <2>1. CASE w > d
      BY <1>0, <1>1, <2>1 DEF NextCount, Progress, LeastOf
    <2>2. CASE w = d
      BY <1>0, <1>1, <2>2 DEF NextCount, ByTimed, Progress, LeastOf
    <2> QED
      BY <2>1, <2>2
  <1>4. SUFFICES c = k + 1 \/ 5 * (c * w) <= 6 * (k * t)
    OBVIOUS
  <1> HIDE DEF c
  <1>5. CASE c <= Fill(k, t, w) /\ 0 < c
    <2> DEFINE f == Fill(k, t, w)
    <2>1. f \in Nat /\ c <= f
      BY <1>1, <1>3, <1>5
    <2>2. 5 * (f * w) <= 6 * (k * t)
      BY <1>1, <1>2, <1>3, <1>5
    <2> HIDE DEF f
    <2>3. c * w <= f * w
      BY <1>3, <2>1, TimesMonotone
    <2>4. c * w \in Nat /\ f * w \in Nat
      BY <1>3, <2>1
    <2> QED
      BY <1>0, <2>2, <2>3, <2>4
  <1>6. CASE c = 0
    <2>1. c * w = 0
      BY <1>6
    <2> QED
      BY <1>0, <2>1
  <1> QED
    BY <1>3, <1>5, <1>6

\* A round never asks for a count that, at the rate just measured by the wall
\* clock, lasts longer than the target and a fifth, unless it is the least step.
THEOREM NeverOvershoots == Spec => NoOvershoot
  <1> DEFINE Step == (n' # n /\ wall > 0 /\ NoOverflow) =>
                        \/ 5 * n' * wall <= 6 * n * target
                        \/ n' = n + 1
  <1>1. IInv /\ [Next]_vars => [Step]_vars
    <2> SUFFICES ASSUME IInv, Next, n' # n, wall > 0, NoOverflow
                 PROVE  5 * n' * wall <= 6 * n * target \/ n' = n + 1
      OBVIOUS
    <2>1. Scale
      BY DEF Next, Measure, Accept, GiveUp
    <2>2. /\ n \in Nat \ {0} /\ target \in Nat /\ ns \in Nat /\ wall \in Nat
          /\ ns <= wall /\ 0 < wall /\ n <= NMax /\ NMax \in Nat /\ IntMax \in Nat
      BY PickNAssumption, TargetsPositive DEF IInv, TypeOK
    <2>3. n * target <= IntMax
      <3>1. n * target <= NMax * target
        BY <2>2
      <3> QED
        BY <2>2, <3>1 DEF NoOverflow
    <2> DEFINE c == NextCount(n, target, ns, wall)
    <2>4. c = n + 1 \/ 5 * (c * wall) <= 6 * (n * target)
      BY <2>2, <2>3, NextCountBound
    <2>5. c \in Nat
      BY <2>2, NextCountBounds
    <2>6. n' = IF c > NMax THEN NMax ELSE c
      BY <2>1 DEF Scale
    <2> HIDE DEF c
    <2>7. n' \in Nat /\ n' <= c
      BY <2>2, <2>5, <2>6
    <2>8. CASE c = n + 1
      <3>1. TypeOK
        BY DEF IInv
      <3>2. n < n'
        BY <2>1, <3>1, ScaleCount
      <3>3. n' = n + 1
        BY <2>2, <2>7, <2>8, <3>2
      <3> QED
        BY <3>3
    <2>9. CASE 5 * (c * wall) <= 6 * (n * target)
      <3>1. n' * wall <= c * wall
        BY <2>2, <2>5, <2>7, TimesMonotone
      <3>2. n' * wall \in Nat /\ c * wall \in Nat /\ n * target \in Nat
        <4>1. \A x \in Nat : x * wall \in Nat
          BY <2>2
        <4>2. n * target \in Nat
          BY <2>2
        <4> QED
          BY <2>5, <2>7, <4>1, <4>2
      <3>3. 5 * (n' * wall) <= 6 * (n * target)
        BY <2>9, <3>1, <3>2
      <3>4. 5 * (n' * wall) = 5 * n' * wall /\ 6 * (n * target) = 6 * n * target
        BY <2>2, <2>7
      <3> QED
        BY <3>3, <3>4
    <2> QED
      BY <2>4, <2>8, <2>9
  <1> QED
    BY <1>1, Invariance, PTL DEF Spec, NoOvershoot
-----------------------------------------------------------------------------
\* A quotient falls short by less than one.
LEMMA DivAbove ==
  ASSUME NEW a \in Nat, NEW d \in Nat \ {0}
  PROVE  a < d * (a \div d + 1)
  OBVIOUS

\* A larger number has the larger quotient, a larger divisor the smaller one.
LEMMA DivMonotone ==
  ASSUME NEW a \in Nat, NEW b \in Nat, NEW d \in Nat \ {0}, NEW w \in Nat \ {0}
  PROVE  /\ a <= b => a \div d <= b \div d
         /\ d <= w => a \div w <= a \div d
  <1> DEFINE x == a \div d
             y == b \div d
             z == a \div w
  <1>1. /\ x \in Nat /\ y \in Nat /\ z \in Nat
        /\ d * x <= a /\ w * z <= a
        /\ a < d * (x + 1) /\ b < d * (y + 1)
    BY DivBelow, DivAbove
  <1> HIDE DEF x, y, z
  <1>2. ASSUME a <= b PROVE x <= y
    <2> SUFFICES ASSUME y + 1 <= x PROVE FALSE
      BY <1>1
    <2>1. d * (y + 1) <= d * x
      BY <1>1
    <2>2. d * (y + 1) \in Nat /\ d * x \in Nat
      BY <1>1
    <2> QED
      BY <1>1, <1>2, <2>1, <2>2
  <1>3. ASSUME d <= w PROVE z <= x
    <2> SUFFICES ASSUME x + 1 <= z PROVE FALSE
      BY <1>1
    <2>1. d * (x + 1) <= d * z /\ d * z <= w * z
      BY <1>1, <1>3
    <2>2. d * (x + 1) \in Nat /\ d * z \in Nat /\ w * z \in Nat
      BY <1>1
    <2> QED
      BY <1>1, <2>1, <2>2
  <1> QED
    BY <1>2, <1>3 DEF x, y, z

\* When nothing overflows, the estimate is the quotient or more.
LEMMA FillReaches ==
  ASSUME NEW k \in 1..NMax, NEW t \in Nat, NEW d \in Nat \ {0},
         NMax * t + (NMax * t) \div 5 <= IntMax
  PROVE  /\ Fill(k, t, d) = (k * t) \div d + ((k * t) \div d) \div 5
         /\ (k * t) \div d \in Nat
         /\ (k * t) \div d <= Fill(k, t, d)
  <1> DEFINE p == k * t
             m == NMax * t
             q == p \div d
             f == q + (q \div 5)
  <1>1. p \in Nat /\ m \in Nat /\ p <= m
    <2>1. k \in Nat /\ NMax \in Nat /\ k <= NMax
      BY PickNAssumption
    <2> QED
      BY <2>1, TimesMonotone
  <1>2. q \in Nat /\ q <= p
    <2>1. q \in Nat /\ d * q <= p
      BY <1>1, DivBelow
    <2>2. q <= d * q
      BY <2>1
    <2> QED
      BY <1>1, <2>1, <2>2
  <1>3. q \div 5 \in Nat /\ m \div 5 \in Nat /\ q \div 5 <= m \div 5
    <2>1. q <= m
      BY <1>1, <1>2
    <2> HIDE DEF q, m
    <2> QED
      BY <1>1, <1>2, <2>1, DivBelow, DivMonotone
  <1>4. f \in Nat /\ f <= IntMax /\ p <= IntMax /\ q <= f
    <2> HIDE DEF p, m, q
    <2> QED
      BY <1>1, <1>2, <1>3, PickNAssumption DEF m
  <1>5. Wrap(p) = p /\ Wrap(f) = f
    <2> HIDE DEF p, f
    <2> QED
      BY <1>1, <1>4, WrapFits
  <1>6. Fill(k, t, d) = f
    BY <1>1, <1>2, <1>5 DEF Fill, Quot
  <1> QED
    BY <1>2, <1>4, <1>6

\* The next count is a hundred times the last, or no less than what fills the
\* target at the rate of the wall clock.
LEMMA NextCountReaches ==
  ASSUME NEW k \in 1..NMax, NEW t \in Nat, NEW d \in Nat, NEW w \in Nat, d <= w,
         NMax * t + (NMax * t) \div 5 <= IntMax
  PROVE  \/ k * Jump <= NextCount(k, t, d, w)
         \/ 0 < w /\ (k * t) \div w <= NextCount(k, t, d, w)
  <1>1. k \in Nat \ {0} /\ k * t \in Nat /\ k * Jump \in Nat /\ ByTimed(k, t, d) \in Nat
    <2>1. k \in Nat \ {0} /\ Jump \in Nat
      BY PickNAssumption
    <2>2. ByTimed(k, t, d) \in Nat
      BY <2>1, ByTimedBounds
    <2>3. k * t \in Nat /\ k * Jump \in Nat
      BY <2>1
    <2> QED
      BY <2>1, <2>2, <2>3
  <1>2. CASE d = 0
    <2>1. ByTimed(k, t, d) = k * Jump
      BY <1>2 DEF ByTimed
    <2>2. CASE w = 0
      BY <1>1, <1>2, <2>1, <2>2 DEF NextCount
    <2>3. CASE w # 0
      <3>1. Fill(k, t, w) \in Int /\ (k * t) \div w \in Nat /\ (k * t) \div w <= Fill(k, t, w)
        BY <2>3, FillReaches
      <3> QED
        BY <1>1, <1>2, <2>1, <2>3, <3>1 DEF NextCount, Progress, LeastOf
    <2> QED
      BY <2>2, <2>3
  <1>3. CASE d # 0
    <2> DEFINE fd == Fill(k, t, d)
               fw == Fill(k, t, w)
               q  == (k * t) \div w
    <2>1. d \in Nat \ {0} /\ w \in Nat \ {0}
      BY <1>3
    <2>2. fd \in Int /\ fw \in Int /\ q \in Nat
      BY <1>1, <2>1, FillReaches, FillInt
    <2>3. q <= fw
      BY <2>1, FillReaches
    <2>4. q <= fd
      <3>1. (k * t) \div d \in Nat /\ (k * t) \div d <= fd
        BY <2>1, FillReaches
      <3>2. q <= (k * t) \div d
        BY <1>1, <2>1, DivMonotone
      <3> QED
        BY <2>2, <3>1, <3>2
    <2>5. ByTimed(k, t, d) = Progress(k, LeastOf(fd, k * Jump))
      BY <2>1 DEF ByTimed
    <2>6. NextCount(k, t, d, w) = IF w > d THEN Progress(k, LeastOf(fw, ByTimed(k, t, d)))
                                           ELSE ByTimed(k, t, d)
      BY <2>1 DEF NextCount
    <2> HIDE DEF fd, fw, q
    <2>7. k * Jump <= ByTimed(k, t, d) \/ q <= ByTimed(k, t, d)
      BY <1>1, <2>2, <2>4, <2>5 DEF Progress, LeastOf
    <2>8. k * Jump <= NextCount(k, t, d, w) \/ q <= NextCount(k, t, d, w)
      BY <1>1, <2>2, <2>3, <2>6, <2>7 DEF Progress, LeastOf
    <2> QED
      BY <2>1, <2>8 DEF q
  <1> QED
    BY <1>2, <1>3

\* At the rate c in p, a run of k that the clock shows as w lasts the target t
\* once it is made one longer than what the quotient says.
LEMMA RateReaches ==
  ASSUME NEW k \in Nat \ {0}, NEW t \in Nat, NEW w \in Nat \ {0},
         NEW c \in Nat, NEW p \in Nat \ {0}, w = (k * c) \div p
  PROVE  t * p <= ((k * t) \div w + 1) * c
  <1> DEFINE a == k * t
             b == k * c
             q == a \div w + 1
  <1>1. a \in Nat /\ b \in Nat /\ q \in Nat
    BY DivBelow
  <1>2. a < w * q
    BY <1>1, DivAbove
  <1>3. p * w <= b
    BY <1>1, DivBelow
  <1> HIDE DEF q
  <1>4. (p * w) * q <= b * q
    BY <1>1, <1>3, TimesMonotone
  <1>5. a * p <= (w * q) * p
    BY <1>1, <1>2, TimesMonotone
  <1>6. (w * q) * p = (p * w) * q
    BY <1>1
  <1>7. k * (t * p) <= k * (q * c)
    <2>1. a * p = k * (t * p) /\ b * q = k * (q * c)
      BY <1>1
    <2>2. a * p \in Nat /\ (p * w) * q \in Nat /\ b * q \in Nat
      BY <1>1
    <2> HIDE DEF a, b
    <2>3. a * p <= b * q
      BY <1>4, <1>5, <1>6, <2>2
    <2> QED
      BY <2>1, <2>3
  <1>8. t * p \in Nat /\ q * c \in Nat
    BY <1>1
  <1> QED
    BY <1>7, <1>8 DEF q, a

\* A count that is enough stays so when it grows.
LEMMA EnoughGrows ==
  ASSUME NEW j \in Nat, NEW k \in Nat, j <= k, NEW t \in Nat, NEW c \in Nat, NEW p \in Nat,
         t * p <= j * c
  PROVE  t * p <= k * c
  <1>1. j * c <= k * c
    BY TimesMonotone
  <1>2. t * p \in Nat /\ j * c \in Nat /\ k * c \in Nat
    OBVIOUS
  <1> QED
    BY <1>1, <1>2

\* The search of a steady benchmark climbs, falls one iteration short at most
\* once, and is there.
LEMMA SteadyInductive ==
  SteadyInv /\ [Next]_vars => SteadyInv'
  <1> SUFFICES ASSUME SteadyInv, [Next]_vars PROVE (Settling /\ SteadySettles)'
    BY Inductive DEF SteadyInv
  <1> SUFFICES ASSUME (entry \in Steady /\ FillFits)' PROVE
        /\ (pc # "done" => Climbing \/ OneShort \/ There)'
        /\ (pc = "scale" => wall = (n * Cost(entry)[1]) \div Cost(entry)[2])'
        /\ (pc = "done" => ns >= target \/ wall >= target \/ n = NMax)'
    BY DEF Settling, SteadySettles
  <1>1. UNCHANGED <<entry, target>>
    BY DEF Next, Measure, Accept, Scale, GiveUp, vars
  <1>2. entry \in Steady /\ FillFits
    BY <1>1 DEF FillFits
  <1> DEFINE c == Cost(entry)[1]
             p == Cost(entry)[2]
  <1>3. c \in Nat /\ p \in Nat \ {0} /\ UNCHANGED <<c, p>>
    BY <1>1, <1>2, SteadyAssumption
  <1>4. /\ n \in Nat \ {0} /\ n \in 1..NMax /\ target \in Nat /\ ns \in Nat /\ wall \in Nat
        /\ ns <= wall /\ NMax \in Nat /\ round \in Nat
        /\ pc \in {"measure", "scale", "done"} /\ pc = "scale" => round < Rounds
    BY PickNAssumption, TargetsPositive DEF SteadyInv, IInv, TypeOK
  <1>5. /\ pc # "done" => Climbing \/ OneShort \/ There
        /\ pc = "scale" => wall = (n * c) \div p
        /\ pc = "done" => ns >= target \/ wall >= target \/ n = NMax
    BY <1>2 DEF SteadyInv, Settling, SteadySettles
  <1>6. /\ Len(Ladder) \in Nat /\ Len(Ladder) < Rounds /\ Rounds \in Nat
        /\ \A r \in 1..Len(Ladder) : Ladder[r] \in Nat
    BY LadderAssumption, PickNAssumption
  <1>7. CASE Measure
    <2>1. PICK m \in Measures(entry, n) : wall' = m[2]
      BY <1>7 DEF Measure
    <2>2. wall' = (n * c) \div p /\ pc' = "scale" /\ UNCHANGED <<entry, target, n, round>>
      BY <1>2, <1>4, <1>7, <2>1, SteadyAssumption DEF Measure
    <2>3. (Climbing \/ OneShort \/ There)'
      BY <1>5, <1>7, <2>2 DEF Measure, Climbing, OneShort, There, Enough
    <2> QED
      BY <2>2, <2>3
  <1>8. CASE Accept
    <2>1. pc' = "done" /\ UNCHANGED <<target, ns, wall, n>> /\ BigEnough
      BY <1>8 DEF Accept
    <2> QED
      BY <1>4, <2>1 DEF BigEnough
  <1>9. CASE Scale
    <2> DEFINE next == NextCount(n, target, ns, wall)
    <2>1. /\ pc = "scale" /\ ns < target /\ wall < target /\ n < NMax
          /\ n' = (IF next > NMax THEN NMax ELSE next)
          /\ pc' = (IF next > NMax THEN "done" ELSE "measure")
          /\ round' = round + 1
      BY <1>4, <1>9 DEF Scale, BigEnough
    <2>2. next \in Nat /\ n < next
      BY <1>4, NextCountBounds
    <2>3. \/ n * Jump <= next
          \/ 0 < wall /\ (n * target) \div wall <= next
      BY <1>2, <1>4, NextCountReaches DEF FillFits
    <2> HIDE DEF next
    <2>4. CASE next > NMax
      BY <2>1, <2>4
    <2>5. CASE next <= NMax
      <3>1. n' = next /\ pc' = "measure"
        BY <1>4, <2>1, <2>2, <2>5
      <3>2. CASE There
        <4>1. target * p <= n * c /\ n * c \in Nat
          BY <1>3, <1>4, <3>2 DEF There, Enough
        <4>2. (target * p) \div p <= wall
          <5>1. n * c \in Nat /\ target * p \in Nat /\ p \in Nat \ {0} /\ p <= p
            BY <1>3, <1>4
          <5>2. wall = (n * c) \div p
            BY <1>5, <2>1
          <5> HIDE DEF c, p
          <5>3. (target * p) \div p <= (n * c) \div p
            BY <4>1, <5>1, DivMonotone
          <5> QED
            BY <5>2, <5>3
        <4>3. (target * p) \div p = target
          BY <1>3, <1>4
        <4> QED
          BY <1>4, <2>1, <4>2, <4>3
      <3>3. CASE OneShort
        <4>1. target * p <= (n + 1) * c
          BY <3>3 DEF OneShort, Enough
        <4>2. target * p <= n' * c
          BY <1>3, <1>4, <2>2, <3>1, <4>1, EnoughGrows
        <4>3. round' <= Len(Ladder)
          BY <1>4, <1>6, <2>1, <3>3 DEF OneShort
        <4>4. target' * Cost(entry')[2] <= n' * Cost(entry')[1]
          BY <1>1, <4>2
        <4>5. There'
          BY <4>3, <4>4 DEF There, Enough
        <4> QED
          BY <3>1, <4>5
      <3>4. CASE Climbing
        <4>1. round + 1 \in 1..Len(Ladder) - 1 /\ round' < Len(Ladder)
          <5>1. round + 1 # Len(Ladder)
            BY <1>4, <1>6, <2>1, <3>4, LadderAssumption DEF Climbing
          <5> QED
            BY <1>4, <1>6, <2>1, <3>4, <5>1 DEF Climbing
        <4>2. CASE n * Jump <= next
          <5>1. Ladder[round + 2] = Jump * Ladder[round + 1] /\ Ladder[round + 1] \in Nat
            BY <1>4, <1>6, <4>1, LadderAssumption
          <5>2. Ladder[round + 1] * Jump <= n * Jump
            BY <1>4, <3>4, <5>1, PickNAssumption, TimesMonotone DEF Climbing
          <5>3. Ladder[round + 2] <= next
            BY <1>4, <2>2, <4>2, <5>1, <5>2, PickNAssumption
          <5>4. round' + 1 = round + 2
            BY <1>4, <2>1
          <5> QED
            BY <3>1, <4>1, <5>3, <5>4 DEF Climbing
        <4>3. CASE 0 < wall /\ (n * target) \div wall <= next
          <5> DEFINE q == (n * target) \div wall
          <5>1. target * p <= (q + 1) * c
            BY <1>3, <1>4, <1>5, <2>1, <4>3, RateReaches
          <5>2. q \in Nat
            BY <1>4, <4>3, DivBelow
          <5> HIDE DEF q
          <5>3. q + 1 <= n' + 1 /\ q + 1 \in Nat /\ n' + 1 \in Nat
            BY <2>2, <3>1, <4>3, <5>2 DEF q
          <5>4. target * p <= (n' + 1) * c
            BY <1>3, <1>4, <5>1, <5>3, EnoughGrows
          <5>5. target' * Cost(entry')[2] <= (n' + 1) * Cost(entry')[1]
            BY <1>1, <5>4
          <5>6. OneShort'
            BY <4>1, <5>5 DEF OneShort, Enough
          <5> QED
            BY <3>1, <5>6
        <4> QED
          BY <2>3, <4>2, <4>3
      <3> QED
        BY <1>5, <2>1, <3>2, <3>3, <3>4
    <2> QED
      BY <1>4, <2>2, <2>4, <2>5
  <1>10. CASE GiveUp
    <2>1. pc = "measure" /\ round = Rounds
      BY <1>10 DEF GiveUp
    <2> QED
      BY <1>4, <1>5, <1>6, <2>1 DEF Climbing, OneShort, There
  <1>11. CASE UNCHANGED vars
    BY <1>5, <1>11 DEF vars, Climbing, OneShort, There, Enough
  <1> QED
    BY <1>7, <1>8, <1>9, <1>10, <1>11 DEF Next

\* The search of a benchmark with a fixed cost ends because a clock reached the
\* target or the count reached N_MAX, however the clock rounds and whatever part
\* of the cost is timed: the thirty rounds of pick_n never run out on it.
THEOREM SteadySearchEnds == Spec => []SteadySettles
  <1>1. Init => SteadyInv
    <2> SUFFICES ASSUME Init PROVE Climbing /\ SteadyInv
      OBVIOUS
    <2>1. IInv
      BY PickNAssumption DEF Init, IInv, TypeOK
    <2>2. Climbing
      BY LadderAssumption DEF Init, Climbing
    <2> QED
      BY <2>1, <2>2 DEF Init, SteadyInv, Settling, SteadySettles
  <1>2. SteadyInv => SteadySettles
    BY DEF SteadyInv
  <1> QED
    BY <1>1, <1>2, SteadyInductive, PTL DEF Spec
=============================================================================
