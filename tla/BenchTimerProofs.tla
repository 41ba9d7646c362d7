-------------------------- MODULE BenchTimerProofs --------------------------
(***************************************************************************)
(* Proofs about BenchTimer, for every bound of the clock and every number  *)
(* of iterations: the inductive invariant IInv, and that the timer         *)
(* implements Stopwatch.                                                   *)
(***************************************************************************)
EXTENDS BenchTimer, TLAPS

\* bench_pause leaves the timer stopped, and stopping it does not change what
\* it would read.
LEMMA PauseKeepsElapsed ==
  ASSUME accum \in Nat, started \in Nat, clock \in Nat, running \in BOOLEAN,
         running => started <= clock,
         bench_pause, clock' = clock
  PROVE  /\ running' = FALSE
         /\ accum' \in Nat
         /\ started' = started
         /\ accum' = Elapsed
         /\ Elapsed' = Elapsed
  <1>1. CASE running = TRUE
    BY <1>1 DEF bench_pause, Elapsed
  <1>2. CASE running = FALSE
    BY <1>2 DEF bench_pause, Elapsed, timer
  <1> QED
    BY <1>1, <1>2

\* bench_resume leaves the timer running from an instant that is not in the
\* future, and starting it does not change what it would read.
LEMMA ResumeKeepsElapsed ==
  ASSUME accum \in Nat, started \in Nat, clock \in Nat, running \in BOOLEAN,
         bench_resume, clock' = clock
  PROVE  /\ running'
         /\ accum' = accum
         /\ started' = IF running THEN started ELSE clock
         /\ Elapsed' = Elapsed
  BY DEF bench_resume, Elapsed, timer

\* A call on the timer leaves it as the call asked, and nothing else moves it.
LEMMA ObeysInductive ==
  ASSUME Obeys, running \in BOOLEAN, [Next]_vars
  PROVE  Obeys' /\ asked' \in BOOLEAN
  <1>1. CASE Begin
    BY <1>1, Zenon DEF Begin, Obeys
  <1>2. CASE EnterBody \/ BodyResume
    <2>1. bench_resume /\ asked' = TRUE
      BY <1>2, Zenon DEF EnterBody, BodyResume
    <2>2. running' = TRUE
      BY <2>1, Zenon DEF bench_resume, timer
    <2> QED
      BY <2>1, <2>2, Zenon DEF Obeys
  <1>3. CASE BodyPause \/ ExitBody
    <2>1. bench_pause /\ asked' = FALSE
      BY <1>3, Zenon DEF BodyPause, ExitBody
    <2>2. running' = FALSE
      BY <2>1, Zenon DEF bench_pause, timer
    <2> QED
      BY <2>1, <2>2, Zenon DEF Obeys
  <1>4. CASE Tick \/ EnterLoop \/ Iterate \/ LeaveLoop \/ BodyReturn \/ Finish \/ UNCHANGED vars
    <2>1. running' = running /\ asked' = asked
      BY <1>4, Zenon DEF Tick, EnterLoop, Iterate, LeaveLoop, BodyReturn, Finish, vars, timer
    <2> QED
      BY <2>1, Zenon DEF Obeys
  <1> QED
    BY <1>1, <1>2, <1>3, <1>4, Zenon DEF Next

\* Every step of run_measured, of the body and of the clock preserves the
\* inductive invariant.
LEMMA Inductive == IInv /\ [Next]_vars => IInv'
  <1> SUFFICES ASSUME IInv, [Next]_vars PROVE IInv'
    OBVIOUS
  <1> USE MaxClockAssumption, NAssumption
  <1>0. TypeOK /\ Counted /\ NsWithinWall /\ Obeys
    BY DEF IInv
  <1>a. Obeys' /\ asked' \in BOOLEAN
    <2>1. running \in BOOLEAN
      BY <1>0, Zenon DEF TypeOK
    <2> QED
      BY <1>0, <2>1, ObeysInductive
  <1>1. CASE Tick
    <2>1. TypeOK'
      BY <1>0, <1>a, <1>1 DEF Tick, TypeOK, Points, Body, NoWall, timer
    <2>2. Counted'
      BY <1>0, <1>1 DEF Tick, TypeOK, Counted, Points, Body, Elapsed, timer
    <2>3. NsWithinWall'
      BY <1>0, <1>1 DEF Tick, TypeOK, Counted, NsWithinWall, NoWall, Elapsed
    <2> QED
      BY <1>a, <2>1, <2>2, <2>3 DEF IInv
  <1>2. CASE Begin
    <2>1. TypeOK'
      <3>1. running' \in BOOLEAN /\ wantWall' \in BOOLEAN
        BY <1>2, Zenon DEF Begin
      <3> QED
        BY <1>0, <1>a, <1>2, <3>1 DEF Begin, TypeOK, Points
    <2>2. Counted'
      BY <1>0, <1>2 DEF Begin, TypeOK, Counted, Points, Body, Elapsed, timer
    <2>3. NsWithinWall'
      BY <1>0, <1>2 DEF Begin, TypeOK, Counted, NsWithinWall, NoWall, Elapsed
    <2> QED
      BY <1>a, <2>1, <2>2, <2>3 DEF IInv
  <1>3. CASE EnterBody \/ BodyResume
    <2>1. TypeOK'
      BY <1>0, <1>a, <1>3 DEF EnterBody, BodyResume, bench_resume, TypeOK, Points, Body, NoWall, timer
    <2>2. Counted'
      BY <1>0, <1>3 DEF EnterBody, BodyResume, bench_resume, TypeOK, Counted, Points, Body, Elapsed, timer
    <2>3. NsWithinWall'
      BY <1>0, <1>3 DEF EnterBody, BodyResume, bench_resume, TypeOK, Counted, NsWithinWall, NoWall, Elapsed
    <2> QED
      BY <1>a, <2>1, <2>2, <2>3 DEF IInv
  <1>p. ASSUME bench_pause, clock' = clock
        PROVE  /\ running' = FALSE /\ accum' \in Nat /\ started' = started
               /\ accum' = Elapsed /\ Elapsed' = Elapsed
    <2>1. accum \in Nat /\ started \in Nat /\ clock \in Nat
      BY <1>0 DEF TypeOK
    <2>2. running \in BOOLEAN /\ (running => started <= clock)
      BY <1>0, Zenon DEF TypeOK, Counted
    <2> QED
      BY <1>p, <2>1, <2>2, PauseKeepsElapsed
  <1>4. CASE BodyPause \/ ExitBody
    <2>1. TypeOK'
      BY <1>0, <1>a, <1>4, <1>p DEF BodyPause, ExitBody, TypeOK, Points, Body, NoWall, timer
    <2>2. Counted'
      BY <1>0, <1>4, <1>p DEF BodyPause, ExitBody, TypeOK, Counted, Points, Body, Elapsed, timer
    <2>3. NsWithinWall'
      BY <1>0, <1>4 DEF BodyPause, ExitBody, TypeOK, Counted, NsWithinWall, NoWall, Elapsed
    <2> QED
      BY <1>a, <2>1, <2>2, <2>3 DEF IInv
  <1>5. CASE EnterLoop \/ Iterate \/ LeaveLoop \/ BodyReturn
    <2>1. TypeOK'
      BY <1>0, <1>a, <1>5 DEF EnterLoop, Iterate, LeaveLoop, BodyReturn, TypeOK, Points, Body, NoWall, timer
    <2>2. Counted'
      BY <1>0, <1>5 DEF EnterLoop, Iterate, LeaveLoop, BodyReturn, TypeOK, Counted, Points, Body, Elapsed, timer
    <2>3. NsWithinWall'
      BY <1>0, <1>5 DEF EnterLoop, Iterate, LeaveLoop, BodyReturn, TypeOK, Counted, NsWithinWall, NoWall, Elapsed
    <2> QED
      BY <1>a, <2>1, <2>2, <2>3 DEF IInv
  <1>6. CASE Finish
    <2>1. TypeOK'
      <3>1. running' \in BOOLEAN /\ wantWall' \in BOOLEAN
        BY <1>0, <1>6, Zenon DEF Finish, TypeOK, timer
      <3>2. wall' \in Nat \cup {NoWall}
        BY <1>0, <1>6 DEF Finish, TypeOK, Counted
      <3> QED
        BY <1>0, <1>a, <1>6, <3>1, <3>2 DEF Finish, TypeOK, Points, timer
    <2>2. Counted'
      BY <1>0, <1>6 DEF Finish, TypeOK, Counted, Points, Body, Elapsed, timer
    <2>3. NsWithinWall'
      BY <1>0, <1>6 DEF Finish, TypeOK, Counted, NsWithinWall, NoWall, Elapsed
    <2> QED
      BY <1>a, <2>1, <2>2, <2>3 DEF IInv
  <1>7. CASE UNCHANGED vars
    BY <1>0, <1>7 DEF vars, IInv, Obeys, TypeOK, Counted, NsWithinWall, Elapsed, timer, NoWall
  <1> QED
    BY <1>1, <1>2, <1>3, <1>4, <1>5, <1>6, <1>7 DEF Next

\* The invariant holds in every reachable state.
LEMMA Invariance == Spec => []IInv
  <1>1. Init => IInv
    <2> SUFFICES ASSUME Init PROVE IInv
      OBVIOUS
    <2>1. running \in BOOLEAN /\ wantWall \in BOOLEAN /\ asked \in BOOLEAN /\ ~running
      BY Zenon DEF Init
    <2>4. Obeys
      BY Zenon DEF Init, Obeys
    <2>2. TypeOK
      BY <2>1, MaxClockAssumption, NAssumption DEF Init, TypeOK, Points, NoWall
    <2>3. Counted /\ NsWithinWall
      BY <2>1 DEF Init, Counted, NsWithinWall, Elapsed
    <2> QED
      BY <2>2, <2>3, <2>4 DEF IInv
  <1> QED
    BY <1>1, Inductive, PTL DEF Spec

\* Every variable of the timer keeps its type: in particular the accumulated
\* time and the reported time are never negative.
THEOREM TypeCorrect == Spec => []TypeOK
  <1>1. IInv => TypeOK
    BY DEF IInv
  <1> QED
    BY <1>1, Invariance, PTL

\* The timer never counts time from before the run, and is off outside the body.
THEOREM CountsOnlyTheRun == Spec => []Counted
  <1>1. IInv => Counted
    BY DEF IInv
  <1> QED
    BY <1>1, Invariance, PTL

\* The ns that run_measured returns never exceeds the wall clock it returns
\* beside it, whatever the body did to the timer.
THEOREM NsNeverExceedsWall == Spec => []NsWithinWall
  <1>1. IInv => NsWithinWall
    BY DEF IInv
  <1> QED
    BY <1>1, Invariance, PTL

\* One step of the harness, the body or the clock is a step of the stopwatch or
\* leaves it alone: only the memset of run_measured takes the count back, and it
\* is where a timing begins.
LEMMA StepRefines == IInv /\ [Next]_vars => [Watch!Next]_(Watch!watch)
  <1> SUFFICES ASSUME IInv, [Next]_vars PROVE [Watch!Next]_(Watch!watch)
    OBVIOUS
  <1> USE MaxClockAssumption, NAssumption
  <1> USE DEF Watch!watch
  <1>0. /\ accum \in Nat /\ started \in Nat /\ clock \in Nat /\ running \in BOOLEAN
        /\ running => started <= clock
        /\ pc \in {"armed", "stopped", "done"} => ~running
    BY DEF IInv, TypeOK, Counted
  <1>a. running = asked /\ running' = asked' /\ asked' \in BOOLEAN
    BY <1>0, ObeysInductive, Zenon DEF IInv, Obeys
  <1>1. CASE Tick
    <2>1. Elapsed' = Elapsed + (IF running THEN 1 ELSE 0)
      BY <1>0, <1>1 DEF Tick, Elapsed, timer
    <2>2. Elapsed' = Elapsed + (IF asked THEN 1 ELSE 0)
      BY <1>a, <2>1, Zenon
    <2>3. UNCHANGED <<pc, asked, ns>>
      BY <1>1, Zenon DEF Tick
    <2> QED
      BY <2>2, <2>3, Zenon DEF Watch!Next, Watch!Pass
  <1>2. CASE Begin
    <2>1. pc = "done" /\ pc' # "done" /\ ns' = ns
      BY <1>2 DEF Begin
    <2>2. Elapsed' = 0
      BY <1>2 DEF Begin, Elapsed
    <2>3. asked' = FALSE
      BY <1>2, Zenon DEF Begin
    <2> QED
      BY <2>1, <2>2, <2>3, Zenon DEF Watch!Next, Watch!Zero
  <1>3. CASE EnterBody \/ BodyResume
    <2>1. bench_resume /\ clock' = clock /\ ns' = ns /\ pc # "done" /\ pc' # "done"
      BY <1>3 DEF EnterBody, BodyResume, Body
    <2>2. Elapsed' = Elapsed
      BY <1>0, <2>1, ResumeKeepsElapsed
    <2> QED
      BY <1>a, <2>1, <2>2, Zenon DEF Watch!Next, Watch!Switch
  <1>4. CASE BodyPause \/ ExitBody
    <2>1. bench_pause /\ clock' = clock /\ ns' = ns /\ pc # "done" /\ pc' # "done"
      BY <1>4 DEF BodyPause, ExitBody, Body
    <2>2. Elapsed' = Elapsed
      BY <1>0, <2>1, PauseKeepsElapsed
    <2> QED
      BY <1>a, <2>1, <2>2, Zenon DEF Watch!Next, Watch!Switch
  <1>5. CASE EnterLoop \/ Iterate \/ LeaveLoop \/ BodyReturn
    BY <1>5 DEF EnterLoop, Iterate, LeaveLoop, BodyReturn, Elapsed, timer
  <1>6. CASE Finish
    <2>1. ~running /\ Elapsed = accum /\ Elapsed' = Elapsed
      BY <1>0, <1>6 DEF Finish, Elapsed, timer
    <2>2. pc # "done" /\ pc' = "done" /\ ns' = Elapsed
      BY <1>6, <2>1 DEF Finish
    <2>3. ~asked /\ asked' = asked
      BY <1>a, <1>6, <2>1, Zenon DEF Finish
    <2> QED
      BY <2>1, <2>2, <2>3, Zenon DEF Watch!Next, Watch!Read
  <1>7. CASE UNCHANGED vars
    BY <1>7 DEF vars, timer, Elapsed
  <1> QED
    BY <1>1, <1>2, <1>3, <1>4, <1>5, <1>6, <1>7 DEF Next

\* The timer of the harness implements the stopwatch: between the memset of a call
\* of run_measured and the moment it hands out b.ns, no order of pauses and
\* resumes loses a stretch, counts one twice or sets the count back.
THEOREM ImplementsStopwatch == Spec => IsStopwatch
  <1>1. Init => Watch!Init
    BY DEF Init, Watch!Init, Elapsed
  <1> QED
    BY <1>1, StepRefines, Invariance, PTL DEF Spec, IsStopwatch, Watch!Spec
=============================================================================
