----------------------------- MODULE Stopwatch -----------------------------
(***************************************************************************)
(* What the timer of the harness promises a benchmark: a stopwatch that is *)
(* zeroed when a timing begins and read when it ends.  Time passes in unit *)
(* steps.  Between those two moments every step that passes while the      *)
(* watch is on counts, none that passes while it is off does, and nothing  *)
(* else moves the count: however often and in whatever order the benchmark *)
(* starts and stops the watch, no stretch is lost and none counts twice.   *)
(***************************************************************************)
EXTENDS Naturals

VARIABLES timing,    \* has a timing begun that was not read yet
          on,        \* is the watch running
          elapsed,   \* the units of time that passed while it was on
          reading    \* what the last timing came to

watch == <<timing, on, elapsed, reading>>

Init ==
  /\ timing = FALSE
  /\ on = FALSE
  /\ elapsed = 0
  /\ reading = 0

\* One unit of time.
Pass ==
  /\ elapsed' = elapsed + (IF on THEN 1 ELSE 0)
  /\ UNCHANGED <<timing, on, reading>>

\* A timing begins, with the watch off and at zero.
Zero ==
  /\ ~timing /\ timing'
  /\ on' = FALSE
  /\ elapsed' = 0
  /\ UNCHANGED reading

\* Starting and stopping the watch leaves what it shows alone.
Switch ==
  /\ timing
  /\ on' \in BOOLEAN
  /\ UNCHANGED <<timing, elapsed, reading>>

\* The timing ends: the watch is off and shows what it came to.
Read ==
  /\ timing /\ ~timing'
  /\ ~on
  /\ reading' = elapsed
  /\ UNCHANGED <<on, elapsed>>

Next == Pass \/ Zero \/ Switch \/ Read

Spec == Init /\ [][Next]_watch
=============================================================================
