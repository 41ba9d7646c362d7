------------------------------ MODULE LoopTime ------------------------------
(***************************************************************************)
(* The timer of BenchTimer next to what include/bench.h says of BENCH_LOOP *)
(* (line 60): "The timed part. Everything outside it is setup and is not   *)
(* counted."  The history variable loopTime counts the time that passes    *)
(* inside the loop of the current run.                                     *)
(***************************************************************************)
EXTENDS BenchTimer

VARIABLE loopTime

LTInit == Init /\ loopTime = 0

LTNext ==
  /\ Next
  /\ loopTime' = CASE pc = "done" /\ pc' = "armed"        -> 0
                   [] pc = "loop" /\ clock' # clock       -> loopTime + 1
                   [] OTHER                               -> loopTime

LTSpec == LTInit /\ [][LTNext]_<<vars, loopTime>>

\* "Everything outside it is setup and is not counted" (include/bench.h:60), and
\* README.md:87, "Setup outside the loop is not timed": what a finished run
\* that did all its iterations reports was spent inside its BENCH_LOOP.
OnlyLoopCounted == pc = "done" /\ iter = N => ns <= loopTime
=============================================================================
