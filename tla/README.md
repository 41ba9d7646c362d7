# A verification project for burrow-bench

burrow-bench measures the C library burrow against Go. It is a harness (a timer,
a search for an iteration count, a runner), some six hundred benchmark rows, a
Makefile that has to put the right burrow into the binary, and shell tools that
turn runs into tables. What makes it correct is that a number in a table is the
number it claims to be: the time that was meant to be measured, of the work that
was meant to be done, in the library the header names, by a program that ends.

## Inventory

| Part | State | Operations | Hard behaviour | What makes it correct |
|---|---|---|---|---|
| timer (`src/bench.c` 78-95, 125-140, `include/bench.h`) | `accum_ns`, `started_ns`, `running`, `ns`, wall clock | `run_measured`, `bench_pause`, `bench_resume`, `BENCH_LOOP` | any order of pauses and resumes, early returns, the clock moving between any two steps | counts exactly the running time; never more than the wall clock |
| iteration count (`src/bench.c` 142-196) | `n`, the round, two measurements | one round of `pick_n` | a run too short to time, an untimed part that dominates, wrapping products, the caps | grows in every round, at most a hundredfold, does not overshoot, settles |
| runner and registry (`src/bench.c` 97-117, 198-348, `src/main.c`) | the registry, options, samples, rows, exit status | `bench_register`, the argument loop, one row after the other | a full registry, a missing value, a count past `samples[]`, a body that ends the process behind printed rows | the table is the matching rows, its median is a median, the status tells a whole table from a short one |
| build (`Makefile`, `tools/fetch-burrow.sh`, `tools/run.sh` 137-181) | file times, libraries per tree and sanitiser, the binary | make, fetch, edit, push, clean, describe, run | stale files, two trees, several sanitisers in one directory | headers, library and header line agree |
| scheduler rows (`bench/sched_bench.c`) | two gates, flags, counters | `gate_wait`, `gate_signal`, `go()`, park, ready | park against ready, the last volley, a `go()` that fails | strictly in turn, no signal lost, ends |
| condition variable row (`bench/cond_bench.c`) | a turn under a mutex, the list of the condition | lock, wait, signal, broadcast | signals made outside the lock, late signals | no missed signal, strictly in turn, ends |
| crowds (`bench/mutex_bench.c`, `bench/waitgroup_bench.c`, `goroutine_start_batch`) | a done counter or a WaitGroup | launch, work, done, wait | failed launches, stragglers of an earlier round | nobody left behind, ends |
| channel and select rows (`bench/chan_bench.c`, `bench/select_bench.c`) | channels, a stop word, a gone counter | send, receive, select, close, free | frees that race the last user, an early return that keeps a channel, GOMAXPROCS left at one | ended before freed, put back on every path |
| timers, contexts, synctest, pool, map, reclaim and runtime rows | timers, contexts, bubbles, notes, stacks, run queues, retired boxes | arm, fire, cancel, wake, sleep, steal, retire, drain | a word, queue or pool that an earlier iteration or call left in another state | the operation meets the state the row is named after, in every iteration of every call |
| sequential rows (thirty files) | what a row allocates, the statics it fills once | setup, loop, reset, teardown, abort | early returns, resets that happen every so often, a clock stopped in the loop | nothing lost per iteration, freed on return, preparation outside the clock |
| comparison table, `ab.sh`, `check-pairs.sh` | rows keyed by name, minima | join, reduce, print | zero as "no value", clamped counts | every pair of numbers is comparable |

The harness calls a row through `e->fn`; the row calls back into the timer. Rows
with goroutines call `runtime_main` and the body runs as its main goroutine. The
runner's rows go to `run.sh` as lines of text, and `run.sh` gets the binary from
make, which gets burrow from `fetch-burrow.sh`.

## Modules

Every module names, in the `map` of PROJECT.json, the lines each definition
translates. An operator whose comment starts with "Mutant" is a deliberate
mistake; no specification uses it. Each property is checked against at least one.

- **Stopwatch** is what the timer promises: a timing begins at zero, from then on time
  counts whenever the watch is on, and nothing sets it back before the timing ends
  with a reading.
  **BenchTimer** is the timer as written: one action per step of `run_measured`,
  an arbitrary body that pauses, resumes, loops and returns early, and a clock
  that ticks in between. `IsStopwatch` is the refinement: `elapsed` is
  `accum_ns` plus what runs since `started_ns`, a timing is a run, and the watch is on
  when the last call on the timer was a resume. That is the history variable `asked`
  and not the flag `running`, so a call that forgets the flag, or time that is not
  added or added twice, is seen; only the `memset` at the head of `run_measured` is
  a beginning. **LoopTime** adds a history
  variable for the time spent inside `BENCH_LOOP`. **BenchTimerProofs**.
- **PickN** is `pick_n`. `Fill`, `ByTimed` and `NextCount` are its arithmetic, with
  truncating division and two's complement products that wrap at `IntMax`
  (signed overflow is what the build's `imul` leaves). Measurements are a
  parameter, assumed only to have `ns <= wall`, which is what BenchTimer proves,
  and of a steady benchmark that k iterations take what k times its `Cost` rounds
  down to. `Ladder` is what the count of a benchmark too fast to time climbs: 1,
  100, 10000 and so on up to `N_MAX`, which has to have fewer rungs than there are
  rounds (six against thirty in the code).
  **MCPickN** gives it steady benchmarks of 36 different costs and a noisy one.
  **PickNProofs**.
- **Runner** is the registry and `bench_main`. A name is a sequence of parts, a
  word of the command line a record of what `strcmp`, `strtol` and the filter
  make of it. The run and the count are what the two modules above allow, drawn
  from `Times` and `Picks`. A run may also end the process (`BodyEnds`): bodies call
  `exit(1)` when they cannot read a file (`bench/lzw_bench.c:28` and others) and
  `abort()` when burrow refuses something, in a round of `pick_n` or in a repetition,
  and the rows before them are flushed by then. The constant `Endings` says which
  bodies do. Column layout is left out; that the allocation
  columns are left out of a row without allocations is not. **MCRunner**,
  **RunnerProofs**.
- **Volley** is what any ping-pong row promises: serve, answer, in turn, a fixed
  number of times, then the partner leaves. **Handoff** (`goroutine_handoff`: two
  one-waiter gates over `sched_park` and `sched_ready`) and **CondPingPong**
  (`cond_ping_pong`: a turn, a mutex, a condition variable) both implement it.
  A lock, an atomic and a call into the scheduler are one step each.
  **HandoffProofs**, **CondPingPongProofs**.
- **FanOut** is the rows that start a crowd and wait for all of it. The constant
  `Rows` picks among three policies for a `go()` that fails: break off and wait
  for everybody (`goroutine_start_batch`), count the missing one
  (`mutex_contended`, `rw_mutex_contended_read`), ask the group
  (`wait_group_go_wait`). **FanOutProofs**.
- **Build** knows a file by what was written after it, as make does. Its state is
  the libraries per tree, plain and sanitised, the flags each was built with, the
  binary with the headers it was compiled against, the prerequisites newer than it, and the header that
  `run.sh` prints. Its assumption: nobody edits a tree while make reads it or
  before `git describe` has named it. The directory of a library knows that `SAN`
  is set and not to what. A version of a tree is its headers and sources together,
  and a written version makes the libraries of its tree stale; so in this model the
  dependency on headers never decides alone whether to link, and dropping it
  breaks no property. **BuildProofs**.

- **RowCode**, **RowMachine** and the four tables **RowsConcurrent**, **RowsMemory**,
  **RowsText** and **RowsNumbers** model the benchmark rows themselves; see below.
  **RowPaths**, **RowMemory** and **RowWords** read a row without running it, and
  **RowProofs** shows that what they find holds of every run. **MCRows** puts the
  tables together.

burrow itself (the scheduler, the mutex, the condition variable) and git are not
in this repository. They are modelled by how the code here uses them: a parked
goroutine runs again after `sched_ready`, `sched_park` runs its commit function
once the goroutine is off its stack, `sync_cond_wait` is on the list before it
drops the lock, and `go()` may fail.

## The rows

Every `BENCH` has the same shape: a setup, a `BENCH_LOOP`, what follows the loop,
and what the wrapper around the body does however the body ended (`runtime_main`
returning, `run_with_one_p` putting GOMAXPROCS back). What differs between six
hundred rows is which resources they take, in which order, which results they
check, when they stop the clock, and whom they start. So a row is data: a record
of instruction sequences `setup`, `loop`, `after` and `finally` for the body, and
`kid` and `last` for the goroutines, threads, coroutines and timer callbacks it
starts. The tables hold one definition per row, or per group of rows whose control
is the same (those names end in `_rows`), and the lines it stands for are in the
map.

RowCode is the vocabulary. Its main distinctions are the ones the code makes:

- `Get` is an allocation whose result is used unchecked (taken to succeed), `Make`
  one that is checked, with what the code drops on a refusal and where it goes
  (`return`, `break`, the next step or `abort`); `MakeSeq` stops at the first
  refusal. `Once` fills a static that stays.
- `In` allocates in an arena, `Reset` gives back what is in it, `ResetEvery` only now
  and then, `Free` frees the arena with its contents.
- `Prep` marks what a loop does to prepare an iteration with the clock stopped.
- A channel is the number of values in it, a container or queue the number of its
  members, a note its word. `Shift(f, from, v)` is an operation that is meant to
  find `from` and to leave `v`; on anything else it takes the code's other path.

RowMachine runs one row of the table, chosen at the start, for `Calls` calls in one
process: `run_measured` is called many times by `pick_n` and by the repetitions,
with different counts, and flags and statics keep what the call before left, while
a pointer of an earlier call is out of reach. Its processes are the body and up to
three others, which interleave at every instruction. Everything the code tests for
failure may fail, in any combination. A goroutine parks on a channel only when
nothing is ready, and an unbuffered exchange needs the other side to be parked;
which ready arm a `select` takes is open. `synctest_wait` waits until all others
are parked.

What the six safety properties and `RowEnds` say of a row: nobody uses what is freed
or not yet there (`NoStaleUse`); memory does not grow with the iterations
(`NothingLost`); a call that met no failure has freed everything but what `KnownLeaks` names
(finding 4), and any call has
put back GOMAXPROCS and the current stack and left nobody running (`CleanReturn`);
where a row stops the clock, the clock runs during the loop without its
preparation and at no other time (`TimedExactly`); the timed operation meets the
state it is named after (`MeasuresWhatItSays`); every call ends.

Two things these properties do not say. `TimedExactly` asks nothing of the clock in a
row that never pauses, and the `bench_keep` behind the resume of the sort rows is left
out, so that it runs timed is not seen. And a count of fired timers that is stale
when the burst of `bench/timer_bench.c:293` waits for it ends the wait early, which
still is an end: `RowEnds` would not see it.

Assumptions: a call into burrow is one step; goroutines still there when
`runtime_main` returns do not run on; the values that are computed do not matter to
the control (where a row checks a value and aborts, both outcomes are taken).

### Reading a row

A run shows what the rows do for two calls and a `b->n` of one or three. What they
do for any `b->n` and any number of calls follows from their text, because a row
has no control but its own: a loop goes round or ends, a checked call succeeds or
fails, and what comes next depends on nothing else. So three modules read a row
once, from the top, taking both ways at every such point, and collect what can
be the case at each instruction:

- RowPaths, for every position of the body and of what it starts: whether the
  clock runs, whether the body stopped it before its loop, and what GOMAXPROCS and
  the current stack are (`Stands`).
- RowMemory, for every position of the body: what is allocated, whether something
  has failed, whether the iteration is odd (`RESET_EVERY` is scaled to two), and
  whether the body knows that it is alone (`Accounts`). What a body starts
  allocates nothing, so the body decides this by itself. It is alone before it
  starts anyone, after a join, and in the ping-pong rows after it has waited for
  the word the child leaves: `FarewellAt` recognises a word that the setup clears
  before the only `go()`, that nobody else writes, and that the child adds to as
  the very last thing it does. The row with a pool is read by itself, since its
  boxes grow with `b->n` (`PoolReadsWell`).
- RowWords, for every position of the body: what is in the words that a loop takes
  from one value to another, across calls (`Sights`); a compare-and-swap whose word
  keeps pace with the iterations (`Paced`); and bodies that only ever receive.

That the collected sets are closed, and that each of their members is as the row's
name promises, is stated as an assumption on the table (`RowAssumption`,
`MemoryAssumption`). TLC evaluates both for the real tables in every run of
MCRows, so they are no more than a computation on constants. The conditions that
not all rows meet are conditions of the theorems instead (`SharesSafely`,
`EndsAlone`, `FindsItsState`), and three more assumptions in MCRows name the rows
that do not meet them; there are three:

- `chan_prodcons` and `synctest_wait_parked` close a channel that another goroutine
  works on, so who may still touch it depends on the order of the messages;
- `mcontext_switch` ends its coroutine by a last switch instead of a join;
- `synctest_wait_parked` has to find somebody waiting, which depends on the others
  and not on the body's text.

For these rows the properties in question are model-checked.

## Runs

| Run | Bounds | What it shows |
|---|---|---|
| `timer` | 6 ticks, 2 iterations | any pause and resume sequence counts exactly the running time, within the wall clock |
| `loop_time` (violation) | 4 ticks, 1 iteration | the clock runs during the setup of a body, against `include/bench.h:60` and `README.md:87` |
| `pick_n` | 36 steady benchmarks and a noisy one, two targets, `N_MAX` 100000, 6 rounds | counts stay legal, grow as bounded, do not overshoot; a steady search never runs out of rounds |
| `runner` | 3 or 5 names in a registry of 4, 17 command lines, counts up to 3 | the table, its medians and the exit status; two of the bodies may end the process in any run |
| `handoff` | `b->n` = 5 | the gates, in every interleaving |
| `cond_ping_pong` | `b->n` = 4 | the condition variable, in every interleaving |
| `build` | two trees and a missing one, no sanitiser or one of two, two versions of each | headers and library always agree and are sanitised together; with one tree and one `SAN` the header line is right |
| `build_two_trees` (violation) | the same with one sanitiser | switching trees and back leaves the wrong library, against `README.md:103` |
| `fan_out` | three workers, six iterations, three policies | nobody is left behind; all but a failed batch end |
| `fan_out_batch` (violation) | two workers, two iterations | a batch with a failed `go()` never ends, against `README.md:105` |
| `rows` | all rows, two calls each, `b->n` 1 or 3, up to three goroutines, batches and bursts of two or three | the seven properties above |
| `rows_leak` (violation) | the same | rows that keep memory when they return, against `include/bench.h:45` |

Why the bounds are enough. In `timer` six ticks put a tick before, inside and
behind each of two pauses. In `pick_n` the constants are scaled down together:
the larger target times `N_MAX` is beyond `IntMax`, so wrapping happens, and the
smaller one is not; six rounds are more than a steady search needs and fewer than
the noisy one may take, so `GiveUp` happens too. In `handoff` and
`cond_ping_pong` the first, a middle and the last volley differ and no others do,
and both are proved for every count. `build` needs two trees to switch
between, two sanitisers that share a directory and two versions to be stale; `fan_out` needs a crowd in which one fails,
one is done and one is still running. `runner` has counts of one, two (an even
median) and the limit. In `rows` a single iteration is first and last at once,
three have a first, a middle and a last, and two calls are the least for a static
to be stale. The constants of the rows (`DEEP`, `BURST`, the size of a run queue,
`RESET_EVERY`, the number of keys) are scaled to two or three: full, empty and in
between are what the rows tell apart.

`CHECK_DEADLOCK FALSE` is set for `pick_n` alone: the function returns. The
others have an explicit final step.

Fairness. Handoff, CondPingPong and FanOut assume weak fairness of each
goroutine: burrow's scheduler runs every goroutine that stays runnable, and the
waiting loops of these rows call `runtime_gosched` between two looks, so that
this holds with one P. RowMachine assumes the same of each process of a row, which
for threads is the operating system's and for timers and callbacks burrow's, and
of `run_measured`, since the harness goes on to the next call. No fairness of locks is needed: nobody takes a lock again
and again while another waits for it. The other modules have no liveness
properties and no fairness.

## What is proved

For every value of the constants, by TLAPS:

- **BenchTimerProofs**: `TypeOK`, `Counted`, `NsWithinWall`, and that BenchTimer implements
  Stopwatch. The invariant is `IInv`: `NsWithinWall` speaks of finished runs, and
  is inductive only with `Counted`, which says that what the watch shows never
  exceeds the time since `start`, and that a running timer was started within
  the run. The refinement needs that `bench_pause` and `bench_resume` leave the
  elapsed time alone, two lemmas of their own, and that the flag is what was last
  asked for (`Obeys`, in the invariant): with it a tick of the clock counts exactly
  when the watch is on, and a call of `bench_pause` that lost the stretch it ends would
  be no step of a watch.
- **PickNProofs**: `TypeOK`, `BoundedGrowth`, `NoOvershoot`, `SteadySettles`, from the
  assumption that `N_MAX` fits in an `int64_t` and that measurements are naturals
  with `ns <= wall`. The first two hold with wrapping products, because `Progress` and
  the caps repair any estimate; `NoOvershoot` is about products that fit, and
  rests on lemmas about truncated division. `SteadySettles` says that a steady
  search never runs out of rounds, whatever the benchmark costs. Its invariant
  (`SteadyInv`) has three stages: the count is still climbing the ladder, or one
  more iteration would reach the target, or the target is reached. A round that
  is not on the ladder's next rung was cut back by an estimate, and an estimate
  with a fifth on top is at most one iteration short (`RateReaches`); so the
  search ends at most two rounds after it left the ladder. The proof showed that
  the first statement of the property was too generous: it allowed every target
  whose product with `N_MAX` fits, but the fifth on top may still wrap, and then the
  count creeps by one a round. `FillFits` asks for the fifth to fit as well.
- **HandoffProofs**: `TypeOK`, `ReadyFindsParked`, `NoSignalLost`, `TimedInside`, and
  that the gates implement Volley. The invariant says who holds which lock at which point
  (`LockHolders`), when a gate names its waiter (`Waiters`), where the turn is
  between a serve and its answer and between an answer and the next serve
  (`TurnWithChild`, `TurnWithMain`), and how the counters follow (`Counts`). None
  of the properties is inductive alone: that a goroutine made ready is
  parked needs to know that the signaller got the lock only after
  `gate_unlock`.

- **CondPingPongProofs**: `TypeOK`, `NoMissedSignal`, `OneSleeper`, and that the row
  implements Volley, for every `b->n`. The signals are made after the unlock, so
  `NoMissedSignal` needs to know where each goroutine can be and who has the lock
  there (`Places`), that a goroutine about to enlist waits for a turn the other
  cannot give while the lock is held (`Listed`), how the turn follows from the two
  counters (`Turns`), and how the order to stop travels (`Stopping`). `OneSleeper`
  is then a consequence: the turn is not both theirs, so if both slept one of
  them would have a signal on its way from the other.
- **FanOutProofs**: `TypeOK`, `CounterExact`, `NoStraggler` and `ShortBatch`, for every
  finite, non-empty crowd (the rows have constants of at least one), every policy
  and every count. The invariant adds `Phases`: all are launched outside the
  launching loop, and all are gone between two rounds. `NoStraggler` follows
  because an exact counter that has reached its end leaves nobody alive; that
  takes lemmas on the size of a crowd when one joins or leaves it. `ShortBatch` is
  the safety half of finding 3: behind a failed `go()` the batch waits for more
  than will ever come.
- **BuildProofs**: `TypeOK`, `OneDefinition`, `SanitisedTogether` and
  `HeaderRightForOneTree`, for any set of trees, versions and values of `SAN`, and
  `SanBothSides` where there is one value besides the empty one (`OneSanitiser`). The invariant says
  that a library is what its place says and current unless make will notice
  (`LibsHonest`), what the steps of a make have established (`JobReady`), that the
  binary holds what is at the place it was linked from unless make will notice
  (`BinCurrent`), and what follows for a directory with one tree in it
  (`OneTree`). Make's view of time is the heart of it: everything is "up to date
  or among the files make knows to be newer".
- **RunnerProofs**: `TypeOK`, `RowsAreTheMatches`, `ExactFilterIsExact`,
  `RepetitionsComparable`, `MedianSplitsRuns` and `StatusTellsTable`, for any names, any command line,
  any measurements and any bodies that end the process, from the assumption that
  `main.c` registers at least one benchmark, that `strtol` yields an integer and that
  a body ends the process by `exit(1)` or `abort()`. `RowsAreTheMatches` says that the
  rows are the matching entries in order; its strengthening `RowsSoFar` says it of
  the entries the loop has passed, and its proof builds the new correspondence
  from the old one when a row is added (`RowAdded`) and keeps it when an entry is
  skipped (`SkipKeepsRows`). `StatusTellsTable` follows from it: a status of 1 with rows in the
  table, or of an `abort()`, comes from the benchmark behind the last row, so a script
  can take a table for whole only at 0. `Registered` ties the registry to `main.c`, `Phases` and
  `Repetitions` say what has been counted at each point. `MedianSplitsRuns` rests on
  what sorting does: `qsort` is any ascending rearrangement of the samples, one
  exists for every vector (`Sortable`), and the value it puts in place q has fewer
  than q smaller ones and at least q that are no larger (`PlaceIsRank`).
  `Sortable` is an induction over the number of samples; it is carried by a
  least-number principle (`LeastNat`), proved from the library's theorem that the
  subset order of finite sets is well founded.

- **RowProofs**, for every row, any set of counts, any number of calls and every
  interleaving of a body with up to three others: what the three readings find
  holds of every run. The inductive invariants say so part by part: everybody is
  at a position of `Stands` with the clock and the borrowed words it has there
  (`PathInv`); what is live, what has failed and the parity of the iteration are
  those of some account in `Accounts`, and where that account says alone, nobody
  else runs (`MemoryInv`, with `FarewellInv` for the ping-pong rows and `PoolInv` for
  the pool); the words are those of some member of `Sights` (`WordsInv`, `PaceInv`,
  `EmptyInv`); channels hold at most what they were made for (`ChannelInv`); nobody
  has closed one in a row that never does (`OpenInv`); and the iterations are those
  left (`Counted`). Each has one lemma per action. The theorems:
  - `ClockCountsTheLoop`: `TimedExactly`, for all rows. From `Stands`: the bits are
    right at each position, and no action of anybody but the body moves them.
  - `MemoryDoesNotGrow`: `NothingLost`, for all rows, the pool included.
  - `BodiesCleanUp`: `CleanReturn`, for all rows but one. That nobody is left running
    comes from the account at the end, which says alone.
  - `NothingFreedIsUsed`: `NoStaleUse`, for all rows but two. While a goroutine may
    run, the account of the body is one that is not alone, and those have live
    what any instruction of the goroutine uses.
  - `LoopsMeetTheirState`: `MeasuresWhatItSays`, for all rows but one.
  - `TypesAreRight`, `NoExtraRound`, `ChannelsAreBounded`, `BorrowedIsPutBack`: the
    types of all variables, a loop that goes round no more often than `b->n`,
    channels within their capacity, GOMAXPROCS and the current stack put back.

Each of these invariants was model-checked on the instance of its run before it
was proved.

Only model-checked:

- all liveness (`HandoffEnds`, `PingPongEnds`, `CrowdEnds`, `RowEnds`), which is out of
  the prover's reach;
- two bounds in RowMachine's `TypeOK`, on the iterations of the goroutines and on the
  words: a goroutine goes round as often as it is sent to, which takes an account
  of the messages of each row;
- `NoStaleUse`, `CleanReturn` and `MeasuresWhatItSays` for the three rows named above,
  and that the readings of the table come out as assumed, which is a computation.

## Findings

1. `run_measured` starts the clock before the body, so setup before `BENCH_LOOP`
   is timed unless a body pauses (`loop_time`).
2. `make` against one tree, another and the first again leaves the second one's
   library in `build/bench`, and `run.sh` prints the first one's commit over it
   (`build_two_trees`).
3. `goroutine_start_batch` never ends when a `go()` fails (`fan_out_batch`).
4. `include/bench.h:45` asks a body to release what it allocates. The random number
   rows never free their source and generator, `json_compact` and the marshal rows
   keep a copy, `big_probably_prime_521` its constant; the channel, select and other
   rows that return early keep what they had (`rows_leak`). `CleanReturn` holds for
   all other paths.
5. `Makefile:44` says that with `SAN` set both sides get rebuilt with it. All values of
   `SAN` share the directory `build-bench-san`, and a library found there is not built
   again for another value: `make SAN=-fsanitize=address`, an edit of the harness and
   `make SAN=-fsanitize=memory` link a library of the first kind into a binary of the
   second (and without the edit nothing is linked again). The `build` run and
   `NeverHalfSanitised` show what is left, that both sides are sanitised or neither.
   `SanBothSides` states the whole sentence; as an invariant of `Build.cfg` TLC refutes
   it in eleven states, by these three steps. It is proved for one sanitiser. CI uses two values
   in separate checkouts (`.github/workflows/ci.yml:151`).

## Plan

Done: timer, iteration count, runner, handoff, condition variable, crowds, build,
the rows of all files in `bench/`, and the proofs of all safety properties up to the
exceptions named above. Left:

1. An account of the messages between a body and its goroutines, for the two bounds
   of `TypeOK` and for the rows that close a channel.
2. The scripts, should they grow state: see below.

## Not modelled

- The sinks (`bench_keep`, `bench_hide`) act on the optimiser.
- What the library computes is burrow's: the rows keep the control around the
  calls, not the values. So a signed overflow in a sum that only goes to a sink
  (the draws of `bench/rand_bench.c:107` added into an `int64_t`) is not seen.
- What happens after an unchecked allocation fails is a fault of the process.
- The comparison table of `run.sh`, `ab.sh` and `check-pairs.sh` each make one
  sequential pass over finished text; their edges are listed as hazards.
- The Go twins are run by `go test`, and nothing of this repository's control is
  in them. Results files are data.
- Windows' clock arithmetic, CPU pinning and the wording of output.
