----------------------------- MODULE BenchTimer -----------------------------
(***************************************************************************)
(* The timer of a benchmark: run_measured, bench_pause and bench_resume of *)
(* src/bench.c and the BENCH_LOOP of include/bench.h.                      *)
(*                                                                         *)
(* One thread runs; the other actor is the clock, which moves between any  *)
(* two of its steps.  The body of the benchmark is arbitrary: it may stop  *)
(* and start the timer at any moment and in any order, return early from   *)
(* its setup, and leave the timer in either state when it returns.         *)
(***************************************************************************)
EXTENDS Integers

CONSTANTS MaxClock,   \* bound of the model: the last instant of the clock
          N           \* b->n, the iterations of one run

ASSUME MaxClockAssumption == MaxClock \in Nat
ASSUME NAssumption == N \in Nat

VARIABLES clock,      \* what bench_now_ns() returns
          accum,      \* b.accum_ns
          started,    \* b.started_ns
          running,    \* b.running
          pc,         \* where run_measured and the body are
          iter,       \* bench_i_ of BENCH_LOOP
          start,      \* the local start of run_measured
          wantWall,   \* wall_ns != NULL
          wall,       \* *wall_ns of the last run, NoWall when not asked for
          ns,         \* b.ns of the last run
          asked       \* history: was the last call on the timer a resume

timer == <<accum, started, running>>
vars  == <<clock, timer, pc, iter, start, wantWall, wall, ns, asked>>

NoWall == -1

\* The points of run_measured between which the clock may move.  The body is
\* in "setup" before its BENCH_LOOP, in "loop" inside it, in "after" behind it.
Body   == {"setup", "loop", "after"}
Points == {"done", "armed", "returned", "stopped"} \cup Body

TypeOK ==
  /\ clock \in 0..MaxClock
  /\ accum \in Nat
  /\ started \in 0..MaxClock
  /\ running \in BOOLEAN
  /\ pc \in Points
  /\ iter \in 0..N
  /\ start \in 0..MaxClock
  /\ wantWall \in BOOLEAN
  /\ wall \in Nat \cup {NoWall}
  /\ ns \in Nat
  /\ asked \in BOOLEAN

Init ==
  /\ clock = 0
  /\ accum = 0 /\ started = 0 /\ running = FALSE
  /\ pc = "done"
  /\ iter = 0
  /\ start = 0
  /\ wantWall = FALSE
  /\ wall = NoWall
  /\ ns = 0
  /\ asked = FALSE
-----------------------------------------------------------------------------
\* Mutant: stopping the timer forgets the stretch it has been running for.
PauseForgets ==
  /\ running' = FALSE
  /\ UNCHANGED <<accum, started>>

\* bench_pause: nothing when the timer is stopped.
bench_pause ==
  IF running
  THEN /\ accum' = accum + (clock - started)
       /\ running' = FALSE
       /\ UNCHANGED started
  ELSE UNCHANGED timer

\* bench_resume: nothing when the timer is running.
bench_resume ==
  IF running
  THEN UNCHANGED timer
  ELSE /\ started' = clock
       /\ running' = TRUE
       /\ UNCHANGED accum
-----------------------------------------------------------------------------
\* Time passes whatever the thread is doing.
Tick ==
  /\ clock < MaxClock
  /\ clock' = clock + 1
  /\ UNCHANGED <<timer, pc, iter, start, wantWall, wall, ns, asked>>

\* Mutant: a run that begins with the timer of the run before it.
BeginWithoutReset ==
  /\ pc = "done"
  /\ start' = clock
  /\ wantWall' \in BOOLEAN
  /\ iter' = 0
  /\ pc' = "armed"
  /\ UNCHANGED <<clock, timer, wall, ns, asked>>

\* run_measured up to its first clock reading: memset, then start.  pick_n asks
\* for the wall clock, the repetitions of bench_main pass NULL.
Begin ==
  /\ pc = "done"
  /\ accum' = 0 /\ started' = 0 /\ running' = FALSE
  /\ start' = clock
  /\ wantWall' \in BOOLEAN
  /\ iter' = 0
  /\ pc' = "armed"
  /\ asked' = FALSE
  /\ UNCHANGED <<clock, wall, ns>>

\* bench_resume(&b) and the call of e->fn.
EnterBody ==
  /\ pc = "armed"
  /\ bench_resume
  /\ pc' = "setup"
  /\ asked' = TRUE
  /\ UNCHANGED <<clock, iter, start, wantWall, wall, ns>>

BodyPause ==
  /\ pc \in Body
  /\ bench_pause
  /\ asked' = FALSE
  /\ UNCHANGED <<clock, pc, iter, start, wantWall, wall, ns>>

BodyResume ==
  /\ pc \in Body
  /\ bench_resume
  /\ asked' = TRUE
  /\ UNCHANGED <<clock, pc, iter, start, wantWall, wall, ns>>

\* BENCH_LOOP touches the counter and never the timer.
EnterLoop ==
  /\ pc = "setup"
  /\ pc' = "loop"
  /\ UNCHANGED <<clock, timer, iter, start, wantWall, wall, ns, asked>>

\* Mutant: bench_i_ <= n.
IterateOnceMore ==
  /\ pc = "loop"
  /\ iter <= N
  /\ iter' = iter + 1
  /\ UNCHANGED <<clock, timer, pc, start, wantWall, wall, ns, asked>>

Iterate ==
  /\ pc = "loop"
  /\ iter < N
  /\ iter' = iter + 1
  /\ UNCHANGED <<clock, timer, pc, start, wantWall, wall, ns, asked>>

\* The loop ends at n, or at a break when an operation fails.
LeaveLoop ==
  /\ pc = "loop"
  /\ pc' = "after"
  /\ UNCHANGED <<clock, timer, iter, start, wantWall, wall, ns, asked>>

\* The body returns behind its loop, or early from a setup that failed.
BodyReturn ==
  /\ pc \in {"setup", "after"}
  /\ pc' = "returned"
  /\ UNCHANGED <<clock, timer, iter, start, wantWall, wall, ns, asked>>

\* The bench_pause(&b) of run_measured.
ExitBody ==
  /\ pc = "returned"
  /\ bench_pause
  /\ pc' = "stopped"
  /\ asked' = FALSE
  /\ UNCHANGED <<clock, iter, start, wantWall, wall, ns>>

\* Mutant: the wall clock is taken from where the timer was last started.
FinishFromStarted ==
  /\ pc = "stopped"
  /\ wall' = IF wantWall THEN clock - started ELSE NoWall
  /\ ns' = accum
  /\ pc' = "done"
  /\ UNCHANGED <<clock, timer, iter, start, wantWall, asked>>

\* The wall clock if it was asked for, and b.ns = b.accum_ns.
Finish ==
  /\ pc = "stopped"
  /\ wall' = IF wantWall THEN clock - start ELSE NoWall
  /\ ns' = accum
  /\ pc' = "done"
  /\ UNCHANGED <<clock, timer, iter, start, wantWall, asked>>

Next ==
  \/ Tick
  \/ Begin \/ EnterBody
  \/ BodyPause \/ BodyResume
  \/ EnterLoop \/ Iterate \/ LeaveLoop \/ BodyReturn
  \/ ExitBody \/ Finish

Spec == Init /\ [][Next]_vars
-----------------------------------------------------------------------------
\* What the timer would read if it were stopped now.
Elapsed == accum + (IF running THEN clock - started ELSE 0)

\* The timer is a stopwatch: a call of run_measured is a timing, the watch is on
\* when the last call on the timer asked for it, and b.ns is what it came to.
Watch == INSTANCE Stopwatch
  WITH timing <- pc # "done", on <- asked, elapsed <- Elapsed, reading <- ns

\* Every sequence of bench_pause and bench_resume calls, the harness's own pair
\* around the body included, counts exactly the time from a resume to the next
\* pause, since the memset of this call of run_measured: a pause that drops the
\* stretch it ends or does not stop, and a resume that starts a running timer
\* again or does not start, are no steps of Watch.
IsStopwatch == Watch!Spec

\* pick_n compares the two clocks of one run and divides by both: the measured
\* time is never longer than the wall clock around it, so "whichever clock
\* reaches the target first" is always the wall clock or both.
NsWithinWall == pc = "done" /\ wall # NoWall => ns <= wall

\* The inductive invariant: the timer never counts time from before the run,
Counted ==
  /\ start <= clock
  /\ running => start <= started /\ started <= clock
  /\ pc # "done" => Elapsed <= clock - start
  /\ pc \in {"armed", "stopped", "done"} => ~running

\* and it is on exactly when it was last asked to be.
Obeys == running = asked

IInv == TypeOK /\ Counted /\ NsWithinWall /\ Obeys
=============================================================================
