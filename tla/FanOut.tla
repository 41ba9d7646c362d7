------------------------------- MODULE FanOut -------------------------------
(***************************************************************************)
(* The benchmarks that start a crowd of goroutines and wait for all of     *)
(* them: goroutine_start_batch (bench/sched_bench.c), mutex_contended and  *)
(* rw_mutex_contended_read (bench/mutex_bench.c) and wait_group_go_wait    *)
(* (bench/waitgroup_bench.c).  They share their shape and differ in what   *)
(* they do about a go() that fails:                                        *)
(*   "batch"      breaks off the launching and waits for the whole crowd   *)
(*   "contended"  counts the worker that never was as one that is done     *)
(*   "group"      breaks off and waits for the WaitGroup's own count       *)
(***************************************************************************)
EXTENDS Naturals, FiniteSets

CONSTANTS Workers,    \* SCHED_BATCH, MUTEX_WORKERS, WG_WORKERS goroutines
          Rows,       \* the rows of this model
          N           \* b->n

ASSUME FanOutAssumption ==
  /\ IsFiniteSet(Workers) /\ Workers # {}
  /\ Rows \subseteq {"batch", "contended", "group"}
  /\ N \in Nat \ {0}

VARIABLES row,
          iter,     \* bench_i_; the contended row has one round for all of b->n
          pc,       \* the body: "next", "launch", "wait", "done"
          todo,     \* the goroutines of this round not launched yet
          live,     \* the goroutines launched and not finished, with the
                    \* operations each has left
          count,    \* batch_done, workers_done; for the group its counter
          running,  \* is the clock running
          failed    \* has a go() failed

vars == <<row, iter, pc, todo, live, count, running, failed>>

Crowd == Cardinality(Workers)
Alive == DOMAIN live

\* each = b->n / MUTEX_WORKERS, and at least one.
Each == IF N \div Crowd < 1 THEN 1 ELSE N \div Crowd

Operations(r) == IF r = "contended" THEN Each ELSE 1
Iterations(r) == IF r = "contended" THEN 1 ELSE N

NoWorker == [w \in {} |-> 0]

TypeOK ==
  /\ row \in Rows
  /\ iter \in 0..N
  /\ pc \in {"next", "launch", "wait", "done"}
  /\ todo \subseteq Workers
  /\ Alive \subseteq Workers \ todo
  /\ \A w \in Alive : live[w] \in 0..N
  /\ count \in 0..Crowd
  /\ running \in BOOLEAN
  /\ failed \in BOOLEAN

\* run_with_one_p and run_contended stop the clock, the body starts it.
Init ==
  /\ row \in Rows
  /\ iter = 0
  /\ pc = "next"
  /\ todo = {}
  /\ live = NoWorker
  /\ count = 0
  /\ running = TRUE
  /\ failed = FALSE
-----------------------------------------------------------------------------
\* Mutant: the counter is not set back for the next crowd.
NextRoundKeepsCount ==
  /\ pc = "next"
  /\ iter < Iterations(row)
  /\ iter' = iter + 1
  /\ todo' = Workers
  /\ pc' = "launch"
  /\ UNCHANGED <<row, live, count, running, failed>>

\* The head of BENCH_LOOP: the counter, or the group, starts from zero.
NextRound ==
  /\ pc = "next"
  /\ iter < Iterations(row)
  /\ iter' = iter + 1
  /\ todo' = Workers
  /\ count' = 0
  /\ pc' = "launch"
  /\ UNCHANGED <<row, live, running, failed>>

\* A go() that succeeds.  sync_wait_group_go adds to the group before it.
Launch(w) ==
  /\ pc = "launch"
  /\ w \in todo
  /\ todo' = todo \ {w}
  /\ live' = [x \in Alive \cup {w} |-> IF x = w THEN Operations(row) ELSE live[x]]
  /\ count' = IF row = "group" THEN count + 1 ELSE count
  /\ UNCHANGED <<row, iter, pc, running, failed>>

\* Mutant: the contended rows do not count a worker that could not be started.
LaunchFailsUncounted(w) ==
  /\ pc = "launch"
  /\ w \in todo
  /\ failed' = TRUE
  /\ \/ /\ row = "contended"
        /\ todo' = todo \ {w}
        /\ UNCHANGED <<pc, count>>
     \/ /\ row \in {"batch", "group"}
        /\ todo' = {}
        /\ pc' = "wait"
        /\ UNCHANGED count
  /\ UNCHANGED <<row, iter, live, running>>

\* A go() that fails.
LaunchFails(w) ==
  /\ pc = "launch"
  /\ w \in todo
  /\ failed' = TRUE
  /\ \/ /\ row = "contended"
        /\ todo' = todo \ {w}
        /\ count' = count + 1
        /\ UNCHANGED pc
     \/ /\ row \in {"batch", "group"}
        /\ todo' = {}
        /\ pc' = "wait"
        /\ UNCHANGED count
  /\ UNCHANGED <<row, iter, live, running>>

Launched ==
  /\ pc = "launch"
  /\ todo = {}
  /\ pc' = "wait"
  /\ UNCHANGED <<row, iter, todo, live, count, running, failed>>

\* One lock and unlock of a contended worker; the critical section is empty.
Work(w) ==
  /\ w \in Alive
  /\ live[w] > 0
  /\ live' = [live EXCEPT ![w] = @ - 1]
  /\ UNCHANGED <<row, iter, pc, todo, count, running, failed>>

\* Mutant: the counter is no atomic, and of two additions at once one is lost.
WorkerDoneRacing(w) ==
  /\ w \in Alive
  /\ live[w] = 0
  /\ live' = [x \in Alive \ {w} |-> live[x]]
  /\ count' \in IF row = "group" THEN {count - 1} ELSE {count, count + 1}
  /\ UNCHANGED <<row, iter, pc, todo, running, failed>>

\* The last thing a worker does: add one to the counter, or leave the group.
WorkerDone(w) ==
  /\ w \in Alive
  /\ live[w] = 0
  /\ live' = [x \in Alive \ {w} |-> live[x]]
  /\ count' = IF row = "group" THEN count - 1 ELSE count + 1
  /\ UNCHANGED <<row, iter, pc, todo, running, failed>>

\* Mutant: the wait ends at the last but one.
CrowdAlmostBack == IF row = "group" THEN count = 0 ELSE count + 1 >= Crowd

\* What the body waits for, with a gosched between two looks at the counter or
\* parked in sync_wait_group_wait.
CrowdBack == IF row = "group" THEN count = 0 ELSE count >= Crowd

Waited ==
  /\ pc = "wait"
  /\ CrowdBack
  /\ pc' = "next"
  /\ UNCHANGED <<row, iter, todo, live, count, running, failed>>

\* bench_pause behind the loop, and the body returns.
Return ==
  /\ pc = "next"
  /\ iter = Iterations(row)
  /\ running' = FALSE
  /\ pc' = "done"
  /\ UNCHANGED <<row, iter, todo, live, count, failed>>

\* The body has returned and runtime_main with it.
Finished ==
  /\ pc = "done"
  /\ UNCHANGED vars

\* The failed batch yields to nobody and looks at its counter again.
SpinForever ==
  /\ pc = "wait"
  /\ ~CrowdBack
  /\ Alive = {}
  /\ UNCHANGED vars

Main == NextRound \/ Launched \/ Waited \/ Return
          \/ \E w \in Workers : Launch(w) \/ LaunchFails(w)

Next ==
  \/ NextRound \/ Launched \/ Waited \/ Return \/ Finished \/ SpinForever
  \/ \E w \in Workers : Launch(w) \/ LaunchFails(w) \/ Work(w) \/ WorkerDone(w)

\* The scheduler runs every goroutine that stays runnable.
Spec ==
  /\ Init /\ [][Next]_vars
  /\ WF_vars(Main)
  /\ \A w \in Workers : WF_vars(Work(w) \/ WorkerDone(w))
-----------------------------------------------------------------------------
\* Between two rounds, and when the clock stops, no goroutine of the crowd is
\* still on its way: a round never pays for the one before it, and none of them
\* adds to the counter of the next one.
NoStraggler == pc = "next" \/ ~running => Alive = {}

\* The counter of a round is exact: the workers that finished, and the ones that
\* could not be started where the row counts those.
CounterExact ==
  pc \in {"launch", "wait"} =>
    /\ row = "group" => count = Cardinality(Alive)
    /\ row = "contended" \/ (row = "batch" /\ ~failed)
         => count = Crowd - Cardinality(todo) - Cardinality(Alive)

\* The contended rows and the group end whatever go() returns, and the batch ends
\* when every go() succeeded.
CrowdEnds == <>(pc = "done" \/ (row = "batch" /\ failed))

\* "to prove they still compile and still finish" (README.md:105): a benchmark
\* ends, also when a goroutine cannot be started.
BatchEnds == <>(pc = "done")
-----------------------------------------------------------------------------
\* The parts of the inductive invariant: a phase leaves nothing over for the
\* next one,
Phases ==
  /\ pc # "launch" => todo = {}
  /\ pc \in {"next", "done"} => Alive = {}
  /\ running <=> pc # "done"

\* and a batch that is one goroutine short stays so, and waits.
ShortBatch ==
  row = "batch" /\ failed => pc = "wait" /\ count + Cardinality(Alive) < Crowd

IInv == TypeOK /\ Phases /\ CounterExact /\ ShortBatch
=============================================================================
