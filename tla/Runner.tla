------------------------------- MODULE Runner -------------------------------
(***************************************************************************)
(* The runner: the registry that src/main.c fills and bench_main of        *)
(* src/bench.c, from its arguments to its exit status.                     *)
(*                                                                         *)
(* A name is a sequence of parts, so that one name can contain another     *)
(* (goroutine_start and goroutine_start_batch).  A word of the command     *)
(* line is a record: the option it spells, the number atof, strtol and     *)
(* strtoll make of it, and the filter it is when it follows -run.  Runs    *)
(* are those of BenchTimer and counts those of PickN; here a run takes any *)
(* time in Times and pick_n returns any count in Picks.  A run may also    *)
(* end the process: some bodies call exit(1) or abort().                   *)
(***************************************************************************)
EXTENDS Integers, Sequences, FiniteSets, SequencesExt

CONSTANTS NameLists,   \* what main.c may register, in order
          BenchMax,    \* BENCH_MAX
          CountMax,    \* COUNT_MAX
          Argvs,       \* the command lines
          Picks,       \* what pick_n may return
          Times,       \* the ns of a run
          Allocs,      \* what a body may hand to bench_report_allocs
          Endings      \* per name, the statuses its body may end the process with

Names == UNION {Range(s) : s \in NameLists}
Words == UNION {Range(a) : a \in Argvs}

Killed == 134     \* the status of a process that called abort()

\* main.c registers something, strtol makes a number of any word, and a body that
\* ends the process does so by exit(1) or abort().
ASSUME RunnerAssumption ==
  /\ \A s \in NameLists : s \in Seq(Names) /\ s # <<>>
  /\ \A a \in Argvs : a \in Seq(Words)
  /\ \A w \in Words : w.num \in Int
  /\ BenchMax \in Nat /\ CountMax \in Nat \ {0}
  /\ Picks \subseteq Nat \ {0} /\ Times \subseteq Nat /\ Allocs \subseteq Nat
  /\ Endings \in [Names -> SUBSET {1, Killed}]

VARIABLES pc,
          names,    \* the BENCH_RUN calls of this build
          entries,  \* the registry, with nentries its length
          argv, arg,
          opt,      \* filter, fixed_n, count, tsv, list
          i,        \* the entry at hand
          ran, n,
          samples,  \* the ns of its repetitions so far
          last,     \* the allocations the last repetition reported
          out,      \* the rows printed
          status    \* the exit status, Running until there is one

vars == <<pc, names, entries, argv, arg, opt, i, ran, n, samples, last, out, status>>
row  == <<ran, n, samples, last>>

Running == -1
NoFilter == [exact |-> FALSE, parts |-> <<>>]
Filters  == {NoFilter} \cup {w.filter : w \in Words}

TypeOK ==
  /\ pc \in {"register", "args", "check", "select", "count", "repeat", "report", "exit"}
  /\ names \in NameLists
  /\ entries \in Seq(Names) /\ Len(entries) <= BenchMax
  /\ argv \in Argvs /\ arg \in 1..(Len(argv) + 1)
  /\ opt \in [filter : Filters, fixedN : Int, count : Int, tsv : BOOLEAN, list : BOOLEAN]
  /\ i \in 1..(Len(entries) + 1)
  /\ ran \in Nat /\ n \in Nat
  /\ samples \in Seq([ns : Times, n : Nat]) /\ Len(samples) <= CountMax
  /\ last \in Allocs \cup {0}
  /\ out \in Seq(Range(out))
  /\ status \in {Running, 0, 1, 2, Killed}
-----------------------------------------------------------------------------
\* Mutant: a filter that ends in $ is still a substring.
MatchesSubstring(name, f) == \E k \in 0..Len(name) : IsPrefix(f.parts, SubSeq(name, k + 1, Len(name)))

\* name_matches: the whole name when the filter ends in $, or a substring.
name_matches(name, f) ==
  IF f.exact THEN name = f.parts
             ELSE \E k \in 0..Len(name) : IsPrefix(f.parts, SubSeq(name, k + 1, Len(name)))

Least(S)    == CHOOSE x \in S : \A y \in S : x <= y
Greatest(S) == CHOOSE x \in S : \A y \in S : y <= x

\* The rearrangements of v that put its values in the order of compare_double.
Orders(v) ==
  {p \in Bijection(DOMAIN v, DOMAIN v) : \A j, k \in DOMAIN v : j < k => v[p[j]] <= v[p[k]]}

\* What qsort leaves in v.
qsort(v) == LET p == CHOOSE p \in Orders(v) : TRUE IN [k \in DOMAIN v |-> v[p[k]]]

\* Mutant: the median of an even number of runs is the upper one.
UpperMedian(v) == 2 * qsort(v)[Len(v) \div 2 + 1]

\* median_of, doubled so that the mean of the two middle values is a number.
median_of(v) ==
  LET s == qsort(v)
      m == Len(v) \div 2
  IN  IF Len(v) % 2 = 1 THEN 2 * s[m + 1] ELSE s[m] + s[m + 1]

\* Mutant: nothing keeps the count off the end of samples[COUNT_MAX].
CountUnclamped(c) == IF c < 1 THEN 1 ELSE c

\* The two tests on count behind the arguments.
ClampCount(c) == IF c < 1 THEN 1 ELSE IF c > CountMax THEN CountMax ELSE c
-----------------------------------------------------------------------------
Init ==
  /\ pc = "register"
  /\ names \in NameLists
  /\ entries = <<>>
  /\ argv \in Argvs /\ arg = 1
  /\ opt = [filter |-> NoFilter, fixedN |-> 0, count |-> 1,
            tsv |-> FALSE, list |-> FALSE]
  /\ i = 1
  /\ ran = 0 /\ n = 0 /\ samples = <<>> /\ last = 0
  /\ out = <<>>
  /\ status = Running

Exit(s) ==
  /\ pc' = "exit"
  /\ status' = s

\* bench_register, once for every BENCH_RUN of main.c.
bench_register ==
  /\ pc = "register"
  /\ Len(entries) < Len(names)
  /\ \/ /\ Len(entries) >= BenchMax
        /\ Exit(1)
        /\ UNCHANGED entries
     \/ /\ Len(entries) < BenchMax
        /\ entries' = Append(entries, names[Len(entries) + 1])
        /\ UNCHANGED <<pc, status>>
  /\ UNCHANGED <<names, argv, arg, opt, i, row, out>>

\* main calls bench_main.
EnterMain ==
  /\ pc = "register"
  /\ Len(entries) = Len(names)
  /\ pc' = "args"
  /\ UNCHANGED <<names, entries, argv, arg, opt, i, row, out, status>>

\* One turn of the argument loop.  An option that takes a value and is the last
\* word falls through to the usage message, and so does any other word.  The
\* target that -time sets is PickN's; here it is in what Picks allows.
ParseArg ==
  LET w == argv[arg]
      v == argv[arg + 1]
      HasValue == arg < Len(argv)
  IN
  /\ pc = "args"
  /\ arg <= Len(argv)
  /\ \/ /\ HasValue
        /\ \/ w.option = "-run" /\ opt' = [opt EXCEPT !.filter = v.filter]
           \/ w.option = "-time" /\ opt' = opt
           \/ w.option = "-n" /\ opt' = [opt EXCEPT !.fixedN = v.num]
           \/ w.option = "-count" /\ opt' = [opt EXCEPT !.count = v.num]
        /\ arg' = arg + 2
        /\ UNCHANGED <<pc, status>>
     \/ /\ \/ w.option = "-tsv" /\ opt' = [opt EXCEPT !.tsv = TRUE]
           \/ w.option = "-list" /\ opt' = [opt EXCEPT !.list = TRUE]
        /\ arg' = arg + 1
        /\ UNCHANGED <<pc, status>>
     \/ /\ w.option \notin {"-tsv", "-list"}
        /\ w.option \in {"-run", "-time", "-n", "-count"} => ~HasValue
        /\ Exit(2)
        /\ UNCHANGED <<opt, arg>>
  /\ UNCHANGED <<names, entries, argv, i, row, out>>

ArgsDone ==
  /\ pc = "args"
  /\ arg > Len(argv)
  /\ opt' = [opt EXCEPT !.count = ClampCount(opt.count)]
  /\ pc' = "check"
  /\ UNCHANGED <<names, entries, argv, arg, i, row, out, status>>

\* -list prints the names and returns before anything runs.
List ==
  /\ pc = "check"
  /\ opt.list
  /\ out' = [k \in 1..Len(entries) |-> [name |-> entries[k]]]
  /\ Exit(0)
  /\ UNCHANGED <<names, entries, argv, arg, opt, i, row>>

Start ==
  /\ pc = "check"
  /\ ~opt.list
  /\ pc' = "select"
  /\ UNCHANGED <<names, entries, argv, arg, opt, i, row, out, status>>

\* The head of the loop over the entries: skip one that does not match.
Select ==
  /\ pc = "select"
  /\ i <= Len(entries)
  /\ IF name_matches(entries[i], opt.filter)
     THEN ran' = ran + 1 /\ pc' = "count" /\ UNCHANGED i
     ELSE i' = i + 1 /\ UNCHANGED <<pc, ran>>
  /\ UNCHANGED <<names, entries, argv, arg, opt, n, samples, last, out, status>>

\* The count of the row: fixed by -n, or the result of pick_n.
Count ==
  /\ pc = "count"
  /\ n' \in IF opt.fixedN > 0 THEN {opt.fixedN} ELSE Picks
  /\ samples' = <<>> /\ last' = 0
  /\ pc' = "repeat"
  /\ UNCHANGED <<names, entries, argv, arg, opt, i, ran, out, status>>

\* Mutant: the count is worked out again before every repetition.
RepeatWithNewCount ==
  /\ pc = "repeat"
  /\ Len(samples) < opt.count
  /\ n' \in IF opt.fixedN > 0 THEN {opt.fixedN} ELSE Picks
  /\ \E ns \in Times : samples' = Append(samples, [ns |-> ns, n |-> n'])
  /\ last' \in Allocs
  /\ UNCHANGED <<pc, names, entries, argv, arg, opt, i, ran, out, status>>

\* One repetition: run_measured with the count of the row.
Repeat ==
  /\ pc = "repeat"
  /\ Len(samples) < opt.count
  /\ \E ns \in Times : samples' = Append(samples, [ns |-> ns, n |-> n])
  /\ last' \in Allocs
  /\ UNCHANGED <<pc, names, entries, argv, arg, opt, i, ran, n, out, status>>

\* A body ends the process, in a run of pick_n or in a repetition.  The rows
\* before it are out: every one of them was flushed.
BodyEnds ==
  /\ \/ pc = "count" /\ opt.fixedN <= 0
     \/ pc = "repeat" /\ Len(samples) < opt.count
  /\ \E s \in Endings[entries[i]] : Exit(s)
  /\ UNCHANGED <<names, entries, argv, arg, opt, i, row, out>>

RepeatsDone ==
  /\ pc = "repeat"
  /\ Len(samples) = opt.count
  /\ pc' = "report"
  /\ UNCHANGED <<names, entries, argv, arg, opt, i, row, out, status>>

\* The row: lo, hi, the median, and the allocations of the last repetition,
\* which the table for people leaves out when there were none.
Row ==
  LET v == [k \in 1..Len(samples) |-> samples[k].ns]
  IN  [name |-> entries[i], n |-> n, lo |-> Least(Range(v)), hi |-> Greatest(Range(v)),
       median2 |-> median_of(v), runs |-> opt.count, of |-> samples,
       allocs |-> IF opt.tsv \/ last > 0 THEN {last} ELSE {}]

\* Mutant: a row takes the place of the rows before it.
ReportOverwrites ==
  /\ pc = "report"
  /\ out' = <<Row>>
  /\ i' = i + 1
  /\ pc' = "select"
  /\ UNCHANGED <<names, entries, argv, arg, opt, row, status>>

Report ==
  /\ pc = "report"
  /\ out' = Append(out, Row)
  /\ i' = i + 1
  /\ pc' = "select"
  /\ UNCHANGED <<names, entries, argv, arg, opt, row, status>>

\* Mutant: matching nothing is a success.
FinishAlwaysZero ==
  /\ pc = "select"
  /\ i > Len(entries)
  /\ Exit(0)
  /\ UNCHANGED <<names, entries, argv, arg, opt, i, row, out>>

Finish ==
  /\ pc = "select"
  /\ i > Len(entries)
  /\ Exit(IF ran = 0 THEN 1 ELSE 0)
  /\ UNCHANGED <<names, entries, argv, arg, opt, i, row, out>>

Exited ==
  /\ pc = "exit"
  /\ UNCHANGED vars

Next ==
  \/ bench_register \/ EnterMain
  \/ ParseArg \/ ArgsDone \/ List \/ Start
  \/ Select \/ Count \/ Repeat \/ BodyEnds \/ RepeatsDone \/ Report \/ Finish
  \/ Exited

Spec == Init /\ [][Next]_vars
-----------------------------------------------------------------------------
\* The first m registered benchmarks that the filter names, by their places.
Matches(m) == {k \in 1..m : name_matches(names[k], opt.filter)}

\* One row for each place in S, in the order of main.c.
RowsFor(S) ==
  \E f \in [1..Len(out) -> S] :
    /\ \A j, k \in 1..Len(out) : j < k => f[j] < f[k]
    /\ \A p \in S : \E k \in 1..Len(out) : f[k] = p
    /\ \A k \in 1..Len(out) : out[k].name = names[f[k]]

\* The table is complete: an exit of 0 leaves one row for every registered
\* benchmark that the filter names, in the order of main.c, and no other.
RowsAreTheMatches == status = 0 /\ ~opt.list => RowsFor(Matches(Len(names)))

\* "A profile of one row should not have the other in it" (src/bench.c:228):
\* with a filter that ends in $ every row has exactly that name.
ExactFilterIsExact ==
  opt.filter.exact => \A k \in 1..Len(out) : opt.list \/ out[k].name = opt.filter.parts

\* "The repetitions are measuring the same amount of work and are comparable"
\* (src/bench.c:298): all runs behind a row had the count printed in it, and
\* there are as many as the row says.
RepetitionsComparable ==
  \A k \in 1..Len(out) : opt.list \/
    /\ Len(out[k].of) = out[k].runs
    /\ \A r \in 1..out[k].runs : out[k].of[r].n = out[k].n

\* Is the time of run r the q-th smallest of the runs in of?
Ranked(of, r, q) ==
  /\ Cardinality({k \in DOMAIN of : of[k].ns < of[r].ns}) < q
  /\ q <= Cardinality({k \in DOMAIN of : of[k].ns <= of[r].ns})

\* The number in the row is the median of all its runs: the time of the middle
\* one, or halfway between the two middle ones, by counting how many runs were
\* faster.  lo and hi, which the spread is worked out from, are its two ends.
MedianSplitsRuns ==
  \A k \in 1..Len(out) : opt.list \/
    LET of == out[k].of
        L  == Len(of)
    IN  /\ \E r, s \in DOMAIN of :
             /\ Ranked(of, r, (L + 1) \div 2) /\ Ranked(of, s, L \div 2 + 1)
             /\ out[k].median2 = of[r].ns + of[s].ns
        /\ \E r, s \in DOMAIN of :
             /\ Ranked(of, r, 1) /\ Ranked(of, s, L)
             /\ out[k].lo = of[r].ns /\ out[k].hi = of[s].ns

\* The table stops short at benchmark k, whose body ended the process.
StopsShortAt(k) == RowsFor(Matches(k - 1)) /\ status \in Endings[names[k]]

\* What a script behind the runner can tell from its status.  0: there is a table.
\* 2: there is none.  Any other: there is none, since the registry was too small or
\* the filter names nothing, or the table has the rows up to a benchmark that ended
\* the process and stops there; it is never the whole table.
StatusTellsTable ==
  /\ status = 0 => out # <<>>
  /\ status = 2 => out = <<>>
  /\ status \in {1, Killed} =>
       \/ status = 1 /\ out = <<>> /\ (Len(names) > BenchMax \/ Matches(Len(names)) = {})
       \/ \E k \in Matches(Len(names)) : StopsShortAt(k)
-----------------------------------------------------------------------------
\* The parts of the inductive invariant: the registry is the head of the list in
\* main.c, and all of it once bench_main runs,
Registered ==
  /\ Len(entries) <= Len(names)
  /\ \A k \in 1..Len(entries) : entries[k] = names[k]
  /\ pc \notin {"register", "exit"} \/ status = 0 => Len(entries) = Len(names)

\* what has been counted and printed at each point,
Phases ==
  /\ status = Running <=> pc # "exit"
  /\ pc \in {"register", "args", "check"} => out = <<>> /\ ran = 0 /\ i = 1
  /\ pc = "select" => ran = Len(out)
  /\ pc \in {"count", "repeat", "report"} =>
       ran = Len(out) + 1 /\ i <= Len(entries) /\ name_matches(entries[i], opt.filter)
  /\ pc \in {"check", "select", "count", "repeat", "report"} => opt.count \in 1..CountMax
  /\ pc \in {"select", "count", "repeat", "report"} => ~opt.list

\* the repetitions of the row at hand,
Repetitions ==
  pc \in {"repeat", "report"} =>
    /\ Len(samples) <= opt.count
    /\ pc = "report" => Len(samples) = opt.count
    /\ \A r \in 1..Len(samples) : samples[r].n = n

\* and the rows so far, for the entries the loop has passed.
RowsSoFar == pc \in {"select", "count", "repeat", "report"} => RowsFor(Matches(i - 1))

IInv ==
  /\ TypeOK /\ Registered /\ Phases /\ Repetitions /\ RowsSoFar
  /\ RowsAreTheMatches /\ ExactFilterIsExact /\ RepetitionsComparable /\ StatusTellsTable
=============================================================================
