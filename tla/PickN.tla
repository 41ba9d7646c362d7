------------------------------- MODULE PickN -------------------------------
(***************************************************************************)
(* pick_n of src/bench.c: the search for an iteration count that makes one *)
(* run last about target_ns.  A round runs the benchmark n times, looks at *)
(* two clocks (the timed part, ns, and the whole run, wall) and scales n.  *)
(*                                                                         *)
(* The products n * target_ns are int64_t in the code.  Here they wrap at  *)
(* IntMax, so that a -time large enough to overflow them is in the model.  *)
(***************************************************************************)
EXTENDS Integers, Sequences

CONSTANTS Entries,          \* the benchmarks
          Measures(_, _),   \* Measures(e, k): the <<ns, wall>> a run of k
                            \* iterations of e may come to
          Steady,           \* the entries whose cost per iteration is fixed
          Cost(_),          \* of a steady one, <<c, p>>: p iterations take c
          Asked,            \* the nanoseconds that -time may ask for
          MinTarget,        \* 1000000, a millisecond
          NMax,             \* N_MAX
          Jump,             \* 100, the most that one round may multiply n by
          Rounds,           \* 30
          Ladder,           \* the counts of a benchmark too fast to time: 1,
                            \* Jump, Jump * Jump and so on, up to NMax
          IntMax            \* INT64_MAX

ASSUME PickNAssumption ==
  /\ Steady \subseteq Entries
  /\ Asked \subseteq Int
  /\ MinTarget \in Nat \ {0}
  /\ NMax \in Nat \ {0}
  /\ Jump \in Nat \ {0, 1}
  /\ Rounds \in Nat
  /\ IntMax \in Nat
  /\ NMax <= IntMax

\* What run_measured promises of every run (NsWithinWall of BenchTimer).
ASSUME MeasuresAssumption ==
  \A e \in Entries : \A k \in 1..NMax :
    \A m \in Measures(e, k) : m[1] \in Nat /\ m[2] \in Nat /\ m[1] <= m[2]

\* k iterations of a steady benchmark take a clock that rounds down k * c \div p.
ASSUME SteadyAssumption ==
  \A e \in Steady :
    /\ Cost(e)[1] \in Nat /\ Cost(e)[2] \in Nat \ {0}
    /\ \A k \in 1..NMax : \A m \in Measures(e, k) : m[2] = (k * Cost(e)[1]) \div Cost(e)[2]

\* The rounds are enough to climb from 1 to N_MAX, and for two more.
ASSUME LadderAssumption ==
  /\ Ladder \in Seq(Nat) /\ Ladder # <<>>
  /\ Ladder[1] = 1
  /\ \A r \in 1..Len(Ladder) - 1 : Ladder[r + 1] = Jump * Ladder[r]
  /\ NMax <= Ladder[Len(Ladder)]
  /\ Len(Ladder) < Rounds

\* The target_ns of bench_main: what -time asks for, and at least a millisecond.
target_ns(t) == IF t < MinTarget THEN MinTarget ELSE t
Targets == {target_ns(t) : t \in Asked}

VARIABLES entry,     \* the parameter e
          target,    \* the parameter target_ns
          n, round,
          ns, wall,  \* of the last run_measured
          pc

vars == <<entry, target, n, round, ns, wall, pc>>

TypeOK ==
  /\ entry \in Entries
  /\ target \in Targets
  /\ n \in 1..NMax
  /\ round \in 0..Rounds
  /\ ns \in Nat
  /\ wall \in Nat
  /\ ns <= wall
  /\ pc \in {"measure", "scale", "done"}
-----------------------------------------------------------------------------
\* Two's complement: what a signed multiply or add leaves in the register.
Wrap(x) == ((x + IntMax + 1) % (2 * (IntMax + 1))) - (IntMax + 1)

\* C's division truncates toward zero.
Quot(a, b) == IF a >= 0 THEN a \div b ELSE -((-a) \div b)

LeastOf(a, b) == IF a < b THEN a ELSE b

\* The count that would fill t at the rate of k iterations in d, and a fifth
\* more, "because landing just short means another round".
Fill(k, t, d) ==
  LET q == Quot(Wrap(k * t), d)
  IN  Wrap(q + Quot(q, 5))

\* Mutant: without the least step, a slow benchmark is measured at the same
\* count again and again.
NoProgress(k, x) == x

\* if (next <= n) next = n + 1
Progress(k, x) == IF x <= k THEN k + 1 ELSE x

\* Mutant: a run too fast to time moves on by one iteration.
ByTimedTimid(k, t, d) ==
  IF d <= 0 THEN k + 1 ELSE Progress(k, LeastOf(Fill(k, t, d), k * Jump))

\* The estimate from the timed part alone.
ByTimed(k, t, d) ==
  IF d <= 0 THEN k * Jump ELSE Progress(k, LeastOf(Fill(k, t, d), k * Jump))

\* Mutant: the wall clock is not consulted.
OneClock(k, t, d, w) == ByTimed(k, t, d)

\* The estimate scaled back by the wall clock when the untimed part dominates.
NextCount(k, t, d, w) ==
  IF w > 0 /\ w > d
  THEN Progress(k, LeastOf(Fill(k, t, w), ByTimed(k, t, d)))
  ELSE ByTimed(k, t, d)
-----------------------------------------------------------------------------
Init ==
  /\ entry \in Entries
  /\ target \in Targets
  /\ n = 1 /\ round = 0
  /\ ns = 0 /\ wall = 0
  /\ pc = "measure"

\* The call of run_measured at the head of a round.
Measure ==
  /\ pc = "measure"
  /\ round < Rounds
  /\ \E m \in Measures(entry, n) : ns' = m[1] /\ wall' = m[2]
  /\ pc' = "scale"
  /\ UNCHANGED <<entry, target, n, round>>

BigEnough == ns >= target \/ wall >= target \/ n >= NMax

Accept ==
  /\ pc = "scale"
  /\ BigEnough
  /\ pc' = "done"
  /\ UNCHANGED <<entry, target, n, round, ns, wall>>

\* Mutant: the cap on the count is left to the next round.
ScaleUncapped ==
  /\ pc = "scale"
  /\ ~BigEnough
  /\ n' = NextCount(n, target, ns, wall)
  /\ round' = round + 1
  /\ pc' = "measure"
  /\ UNCHANGED <<entry, target, ns, wall>>

\* The rest of a round: the new count, cut off at N_MAX, where the search ends.
Scale ==
  /\ pc = "scale"
  /\ ~BigEnough
  /\ LET next == NextCount(n, target, ns, wall)
     IN  /\ n' = IF next > NMax THEN NMax ELSE next
         /\ pc' = IF next > NMax THEN "done" ELSE "measure"
  /\ round' = round + 1
  /\ UNCHANGED <<entry, target, ns, wall>>

\* The for loop runs out of rounds and the last count is returned unmeasured.
GiveUp ==
  /\ pc = "measure"
  /\ round = Rounds
  /\ pc' = "done"
  /\ UNCHANGED <<entry, target, n, round, ns, wall>>

Next == Measure \/ Accept \/ Scale \/ GiveUp

Spec == Init /\ [][Next]_vars
-----------------------------------------------------------------------------
\* A round always asks for more iterations than the round before it, and for at
\* most a hundred times as many: "the scale up is capped at a hundred times per
\* round" (src/bench.c:145), overflowing products included.
BoundedGrowth == [][n' # n => n < n' /\ n' <= Jump * n]_vars

\* The product n * target_ns of the largest count fits in an int64_t.
NoOverflow == NMax * target <= IntMax

\* "The whole point is to land near the target rather than overshoot it by a
\* minute" (src/bench.c:147): at the rate the wall clock showed, the new count
\* takes at most a fifth longer than the target, or is one iteration more,
\* unless the products overflow.
NoOvershoot ==
  [][(n' # n /\ wall > 0 /\ NoOverflow) => \/ 5 * n' * wall <= 6 * n * target
                                          \/ n' = n + 1]_vars

\* The largest count that Fill may work out fits in an int64_t as well.
FillFits == NMax * target + (NMax * target) \div 5 <= IntMax

\* The search of a benchmark with a fixed cost per iteration ends because the
\* target or N_MAX was reached and never because the rounds ran out, unless the
\* products or the fifth on top of them overflow.
SteadySettles ==
  (pc = "done" /\ entry \in Steady /\ FillFits)
     => (ns >= target \/ wall >= target \/ n = NMax)
-----------------------------------------------------------------------------
\* The inductive invariant: a round that scales has not used up the rounds.
IInv == TypeOK /\ (pc = "scale" => round < Rounds)

\* Do k iterations of the entry last as long as the target?
Enough(k) == target * Cost(entry)[2] <= k * Cost(entry)[1]

\* How far the search of a steady benchmark is: on its way up the ladder, one
\* iteration short, or there.
Climbing == round < Len(Ladder) /\ Ladder[round + 1] <= n
OneShort == round < Len(Ladder) /\ Enough(n + 1)
There    == round <= Len(Ladder) /\ Enough(n)

Settling ==
  entry \in Steady /\ FillFits =>
    /\ pc # "done" => Climbing \/ OneShort \/ There
    /\ pc = "scale" => wall = (n * Cost(entry)[1]) \div Cost(entry)[2]

SteadyInv == IInv /\ Settling /\ SteadySettles
=============================================================================
