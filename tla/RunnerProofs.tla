---------------------------- MODULE RunnerProofs ----------------------------
(***************************************************************************)
(* Proofs about Runner for every registry, command line and result of a    *)
(* run: the table has a row for each benchmark the filter names and no     *)
(* other, the runs behind a row are comparable, the samples stay in their  *)
(* array, and the exit status tells an empty table from a full one.        *)
(***************************************************************************)
EXTENDS Runner, TLAPS, SequenceTheorems, FiniteSetTheorems, WellFoundedInduction

\* What a row more does to the table.
LEMMA AppendRow ==
  ASSUME NEW s, s \in Seq(Range(s)), NEW x
  PROVE  /\ Append(s, x) \in Seq(Range(Append(s, x)))
         /\ Len(s) \in Nat
         /\ Len(Append(s, x)) = Len(s) + 1
         /\ \A k \in 1..Len(s) : Append(s, x)[k] = s[k]
         /\ Append(s, x)[Len(s) + 1] = x
  <1> DEFINE S == Range(s) \cup {x}
             t == Append(s, x)
  <1>1. s \in Seq(S) /\ x \in S
    BY SeqMonotonic
  <1>2. /\ t \in Seq(S) /\ Len(s) \in Nat /\ Len(t) = Len(s) + 1
        /\ \A k \in 1..Len(s) : t[k] = s[k]
        /\ t[Len(s) + 1] = x
    BY <1>1, AppendProperties, LenProperties
  <1>3. t \in [1..Len(t) -> Range(t)]
    <2> HIDE DEF t, S
    <2>1. t \in [1..Len(t) -> S] /\ DOMAIN t = 1..Len(t)
      BY <1>2, LenProperties
    <2>2. \A k \in DOMAIN t : t[k] \in Range(t)
      BY DEF Range
    <2> QED
      BY <2>1, <2>2
  <1>4. t \in Seq(Range(t))
    <2>1. Len(t) \in Nat
      BY <1>2
    <2> HIDE DEF t
    <2>2. t \in UNION {[1..k -> Range(t)] : k \in Nat}
      BY <1>3, <2>1
    <2> QED
      BY <2>2, SeqDef
  <1> QED
    BY <1>2, <1>4

\* The two tests on count leave it in the range of the array of samples.
LEMMA CountClamped == \A c \in Int : ClampCount(c) \in 1..CountMax
  BY RunnerAssumption DEF ClampCount

\* A word of the command line, and the one behind it.
LEMMA WordsAreWords ==
  ASSUME TypeOK, NEW k \in 1..Len(argv)
  PROVE  argv[k] \in Words
  BY RunnerAssumption, ElementOfSeq DEF TypeOK

\* The list in main.c and the registry are sequences of names.
LEMMA ListsAreLists ==
  ASSUME TypeOK
  PROVE  /\ names \in Seq(Names) /\ Len(names) \in Nat \ {0}
         /\ Len(entries) \in Nat /\ Len(argv) \in Nat
         /\ Len(samples) \in Nat /\ Len(out) \in Nat
  <1>1. names \in Seq(Names) /\ names # <<>> /\ argv \in Seq(Words)
    BY RunnerAssumption DEF TypeOK
  <1>2. Len(names) \in Nat \ {0}
    BY <1>1, EmptySeq
  <1> QED
    BY <1>1, <1>2, LenProperties DEF TypeOK

\* The loop passes an entry that does not match: the same rows are right.
LEMMA SkipKeepsRows ==
  ASSUME NEW m \in Nat, ~name_matches(names[m], opt.filter)
  PROVE  Matches(m) = Matches(m - 1)
  BY DEF Matches

\* The loop passes an entry that matches: one place more.
LEMMA MatchAddsPlace ==
  ASSUME NEW m \in Nat \ {0}, name_matches(names[m], opt.filter)
  PROVE  Matches(m) = Matches(m - 1) \cup {m}
  BY DEF Matches

\* A row for the entry at hand makes the rows right for one entry more.
LEMMA RowAdded ==
  ASSUME TypeOK, Registered, NEW r, r.name = entries[i], i <= Len(entries),
         name_matches(entries[i], opt.filter), RowsFor(Matches(i - 1)),
         out' = Append(out, r), names' = names, opt' = opt, i' = i + 1
  PROVE  RowsFor(Matches(i - 1))'
  <1> DEFINE L == Len(out)
             S == Matches(i - 1)
             T == Matches(i)
  <1>1. /\ L \in Nat /\ Len(out') = L + 1
        /\ \A k \in 1..L : out'[k] = out[k]
        /\ out'[L + 1] = r
    BY AppendRow DEF TypeOK
  <1>2. i \in Nat \ {0} /\ entries[i] = names[i]
    BY ListsAreLists DEF TypeOK, Registered
  <1>3. T = S \cup {i}
    BY <1>2, MatchAddsPlace
  <1>4. S \subseteq Nat /\ \A p \in S : p < i
    BY <1>2 DEF Matches
  <1>5. PICK f \in [1..L -> S] :
          /\ \A j, k \in 1..L : j < k => f[j] < f[k]
          /\ \A p \in S : \E k \in 1..L : f[k] = p
          /\ \A k \in 1..L : out[k].name = names[f[k]]
    BY DEF RowsFor
  <1> DEFINE g == [k \in 1..(L + 1) |-> IF k = L + 1 THEN i ELSE f[k]]
  <1> HIDE DEF L, S, T
  <1>6. g \in [1..(L + 1) -> T]
    BY <1>1, <1>3, <1>5
  <1>7. \A k \in 1..L : g[k] = f[k] /\ f[k] \in S
    BY <1>1, <1>5
  <1>8. g[L + 1] = i
    BY <1>1
  <1> HIDE DEF g
  <1>9. \A j, k \in 1..(L + 1) : j < k => g[j] < g[k]
    <2> SUFFICES ASSUME NEW j \in 1..(L + 1), NEW k \in 1..(L + 1), j < k PROVE g[j] < g[k]
      OBVIOUS
    <2>1. j \in 1..L
      BY <1>1
    <2>2. CASE k = L + 1
      BY <1>4, <1>7, <1>8, <2>1, <2>2
    <2>3. CASE k \in 1..L
      BY <1>5, <1>7, <2>1, <2>3
    <2> QED
      BY <1>1, <2>2, <2>3
  <1>10. \A p \in T : \E k \in 1..(L + 1) : g[k] = p
    <2> SUFFICES ASSUME NEW p \in T PROVE \E k \in 1..(L + 1) : g[k] = p
      OBVIOUS
    <2>1. CASE p = i
      BY <1>1, <1>8, <2>1
    <2>2. CASE p \in S
      <3>1. PICK k \in 1..L : f[k] = p
        BY <1>5, <2>2
      <3>2. k \in 1..(L + 1) /\ g[k] = p
        BY <1>1, <1>7, <3>1
      <3> QED
        BY <3>2
    <2> QED
      BY <1>3, <2>1, <2>2
  <1>11. \A k \in 1..(L + 1) : out'[k].name = names[g[k]]
    <2> SUFFICES ASSUME NEW k \in 1..(L + 1) PROVE out'[k].name = names[g[k]]
      OBVIOUS
    <2>1. CASE k = L + 1
      BY <1>1, <1>2, <1>8, <2>1
    <2>2. CASE k \in 1..L
      BY <1>1, <1>5, <1>7, <2>2
    <2> QED
      BY <1>1, <2>1, <2>2
  <1>12. Matches(i - 1)' = T
    BY <1>2 DEF Matches, T
  <1>13. Len(out)' = L + 1 /\ names' = names /\ g \in [1..Len(out)' -> Matches(i - 1)']
    BY <1>1, <1>6, <1>12
  <1>14. \E h \in [1..Len(out)' -> Matches(i - 1)'] :
           /\ \A j, k \in 1..Len(out)' : j < k => h[j] < h[k]
           /\ \A p \in Matches(i - 1)' : \E k \in 1..Len(out)' : h[k] = p
           /\ \A k \in 1..Len(out)' : out'[k].name = names'[h[k]]
    <2> g \in [1..Len(out)' -> Matches(i - 1)']
      BY <1>13
    <2> WITNESS g \in [1..Len(out)' -> Matches(i - 1)']
    <2>1. \A j, k \in 1..Len(out)' : j < k => g[j] < g[k]
      BY <1>9, <1>13
    <2>2. \A p \in Matches(i - 1)' : \E k \in 1..Len(out)' : g[k] = p
      BY <1>10, <1>12, <1>13
    <2>3. \A k \in 1..Len(out)' : out'[k].name = names'[g[k]]
      BY <1>11, <1>13
    <2> QED
      BY <2>1, <2>2, <2>3
  <1> QED
    BY <1>14, Zenon DEF RowsFor

\* Every step of main and of bench_main preserves the invariant.
LEMMA Inductive == IInv /\ [Next]_vars => IInv'
  <1> SUFFICES ASSUME IInv, [Next]_vars PROVE IInv'
    OBVIOUS
  <1>0. /\ TypeOK /\ Registered /\ Phases /\ Repetitions /\ RowsSoFar
        /\ RowsAreTheMatches /\ ExactFilterIsExact /\ RepetitionsComparable
        /\ StatusTellsTable
    BY DEF IInv
  <1>len. /\ names \in Seq(Names) /\ Len(names) \in Nat \ {0}
          /\ Len(entries) \in Nat /\ Len(argv) \in Nat
          /\ Len(samples) \in Nat /\ Len(out) \in Nat
    BY <1>0, ListsAreLists
  <1>empty. Len(<<>>) = 0
    BY EmptySeq
  <1> USE <1>0, RunnerAssumption
  <1> USE DEF row, Running
  <1>run. status' = Running => RowsAreTheMatches' /\ StatusTellsTable'
    BY DEF RowsAreTheMatches, StatusTellsTable, Killed
  <1>1. CASE bench_register
    <2>1. out = <<>> /\ i = 1 /\ pc = "register" /\ Len(entries) < Len(names)
      BY <1>1 DEF bench_register, Phases
    <2>2. CASE Exit(1) /\ entries' = entries
      <3>1. TypeOK' /\ Registered'
        BY <1>1, <2>2 DEF bench_register, Exit, TypeOK, Registered
      <3>2. Phases' /\ Repetitions' /\ RowsSoFar'
        BY <1>1, <2>2 DEF bench_register, Exit, Phases, Repetitions, RowsSoFar
      <3>3. RowsAreTheMatches' /\ StatusTellsTable'
        <4>1. Len(entries) >= BenchMax
          BY <1>1, <2>2 DEF bench_register, Exit
        <4>2. Len(names') > BenchMax
          BY <1>1, <1>len, <2>1, <4>1 DEF bench_register
        <4>3. status' = 1 /\ out' = <<>> /\ status' # Killed
          BY <1>1, <2>1, <2>2 DEF bench_register, Exit, Killed
        <4> QED
          BY <4>2, <4>3 DEF RowsAreTheMatches, StatusTellsTable
      <3>4. ExactFilterIsExact' /\ RepetitionsComparable'
        BY <1>1 DEF bench_register, ExactFilterIsExact, RepetitionsComparable
      <3> QED
        BY <3>1, <3>2, <3>3, <3>4 DEF IInv
    <2>3. CASE /\ Len(entries) < BenchMax
               /\ entries' = Append(entries, names[Len(entries) + 1])
               /\ UNCHANGED <<pc, status>>
      <3>1. names[Len(entries) + 1] \in Names
        BY <1>len, <2>1, ElementOfSeq
      <3>2. /\ entries' \in Seq(Names) /\ Len(entries') = Len(entries) + 1
            /\ \A k \in 1..Len(entries) : entries'[k] = entries[k]
            /\ entries'[Len(entries) + 1] = names[Len(entries) + 1]
        BY <2>3, <3>1, AppendProperties DEF TypeOK
      <3>3. TypeOK'
        BY <1>1, <1>len, <2>3, <3>2 DEF bench_register, TypeOK
      <3>4. Registered'
        BY <1>1, <1>len, <2>1, <2>3, <3>2 DEF bench_register, Registered, Phases
      <3>5. Phases' /\ Repetitions' /\ RowsSoFar'
        BY <1>1, <2>1, <2>3 DEF bench_register, Phases, Repetitions, RowsSoFar
      <3>6. RowsAreTheMatches' /\ StatusTellsTable'
        BY <1>run, <1>1, <2>1, <2>3 DEF bench_register, Phases
      <3>7. ExactFilterIsExact' /\ RepetitionsComparable'
        BY <1>1 DEF bench_register, ExactFilterIsExact, RepetitionsComparable
      <3> QED
        BY <3>3, <3>4, <3>5, <3>6, <3>7 DEF IInv
    <2> QED
      BY <1>1, <2>2, <2>3 DEF bench_register
  <1>2. CASE EnterMain
    <2>1. TypeOK' /\ Registered'
      BY <1>2 DEF EnterMain, TypeOK, Registered
    <2>2. Phases' /\ Repetitions' /\ RowsSoFar'
      BY <1>2 DEF EnterMain, Phases, Repetitions, RowsSoFar
    <2>3. RowsAreTheMatches' /\ StatusTellsTable'
      BY <1>run, <1>2 DEF EnterMain, Phases
    <2>4. ExactFilterIsExact' /\ RepetitionsComparable'
      BY <1>2 DEF EnterMain, ExactFilterIsExact, RepetitionsComparable
    <2> QED
      BY <2>1, <2>2, <2>3, <2>4 DEF IInv
  <1>3. CASE ParseArg
    <2>1. /\ pc = "args" /\ out = <<>> /\ Len(out) = 0 /\ arg \in 1..Len(argv)
          /\ status = Running
      BY <1>3, <1>len, <1>empty DEF ParseArg, Phases, TypeOK
    <2>2. UNCHANGED <<names, entries, argv, i, row, out>>
      BY <1>3 DEF ParseArg
    <2>3. CASE pc' = pc /\ status' = status
      <3>1. opt' \in [filter : Filters, fixedN : Int, count : Int, tsv : BOOLEAN, list : BOOLEAN]
        <4>1. arg < Len(argv) => argv[arg + 1] \in Words
          BY <1>len, <2>1, WordsAreWords
        <4>2. arg < Len(argv) => argv[arg + 1].filter \in Filters /\ argv[arg + 1].num \in Int
          BY <4>1, RunnerAssumption DEF Filters
        <4>3. opt \in [filter : Filters, fixedN : Int, count : Int, tsv : BOOLEAN, list : BOOLEAN]
          BY DEF TypeOK
        <4>4. \/ \E f \in Filters : opt' = [opt EXCEPT !.filter = f]
              \/ \E k \in Int : opt' = [opt EXCEPT !.fixedN = k]
              \/ \E k \in Int : opt' = [opt EXCEPT !.count = k]
              \/ opt' = [opt EXCEPT !.tsv = TRUE] \/ opt' = [opt EXCEPT !.list = TRUE]
              \/ opt' = opt
          BY <1>3, <4>2 DEF ParseArg
        <4>5. CASE \E f \in Filters : opt' = [opt EXCEPT !.filter = f]
          BY <4>3, <4>5
        <4>6. CASE \/ \E k \in Int : opt' = [opt EXCEPT !.fixedN = k]
                   \/ \E k \in Int : opt' = [opt EXCEPT !.count = k]
          BY <4>3, <4>6
        <4>7. CASE opt' = [opt EXCEPT !.tsv = TRUE] \/ opt' = [opt EXCEPT !.list = TRUE] \/ opt' = opt
          BY <4>3, <4>7
        <4> QED
          BY <4>4, <4>5, <4>6, <4>7
      <3>2. arg' \in 1..(Len(argv') + 1)
        BY <1>3, <1>len, <2>1, <2>3 DEF ParseArg, Exit
      <3>3. TypeOK'
        BY <2>2, <2>3, <3>1, <3>2 DEF TypeOK
      <3>4. Registered' /\ Phases' /\ Repetitions' /\ RowsSoFar'
        BY <2>1, <2>2, <2>3 DEF Registered, Phases, Repetitions, RowsSoFar
      <3>5. RowsAreTheMatches' /\ StatusTellsTable'
        BY <1>run, <2>1, <2>2, <2>3
      <3>6. ExactFilterIsExact' /\ RepetitionsComparable'
        BY <2>1, <2>2 DEF ExactFilterIsExact, RepetitionsComparable
      <3> QED
        BY <3>3, <3>4, <3>5, <3>6 DEF IInv
    <2>4. CASE Exit(2) /\ UNCHANGED <<opt, arg>>
      <3>1. TypeOK'
        BY <2>2, <2>4 DEF Exit, TypeOK
      <3>2. Registered' /\ Phases' /\ Repetitions' /\ RowsSoFar'
        BY <2>1, <2>2, <2>4 DEF Exit, Registered, Phases, Repetitions, RowsSoFar
      <3>3. RowsAreTheMatches' /\ StatusTellsTable'
        BY <2>1, <2>2, <2>4 DEF Exit, RowsAreTheMatches, StatusTellsTable, Killed
      <3>4. ExactFilterIsExact' /\ RepetitionsComparable'
        BY <2>1, <2>2 DEF ExactFilterIsExact, RepetitionsComparable
      <3> QED
        BY <3>1, <3>2, <3>3, <3>4 DEF IInv
    <2> QED
      BY <1>3, <2>3, <2>4 DEF ParseArg
  <1>4. CASE ArgsDone
    <2>1. /\ out = <<>> /\ Len(out) = 0 /\ status = Running
          /\ pc = "args" /\ pc' = "check"
          /\ UNCHANGED <<names, entries, argv, arg, i, row, out, status>>
      BY <1>4, <1>empty DEF ArgsDone, Phases
    <2>2. opt' = [opt EXCEPT !.count = ClampCount(opt.count)]
      BY <1>4 DEF ArgsDone
    <2>3. ClampCount(opt.count) \in 1..CountMax
      BY CountClamped DEF TypeOK
    <2>4. TypeOK' /\ opt'.count \in 1..CountMax
      <3>1. opt'.count = ClampCount(opt.count) /\ ClampCount(opt.count) \in Int
        BY <2>2, <2>3 DEF TypeOK
      <3>2. opt' \in [filter : Filters, fixedN : Int, count : Int, tsv : BOOLEAN, list : BOOLEAN]
        BY <2>2, <3>1 DEF TypeOK
      <3> QED
        BY <2>1, <2>3, <3>1, <3>2 DEF TypeOK
    <2>5. Registered' /\ Phases' /\ Repetitions' /\ RowsSoFar'
      BY <2>1, <2>4 DEF Registered, Phases, Repetitions, RowsSoFar
    <2>6. RowsAreTheMatches' /\ StatusTellsTable'
      BY <1>run, <2>1
    <2>7. ExactFilterIsExact' /\ RepetitionsComparable'
      BY <2>1 DEF ExactFilterIsExact, RepetitionsComparable
    <2> QED
      BY <2>4, <2>5, <2>6, <2>7 DEF IInv
  <1>5. CASE List
    <2> DEFINE listing == [k \in 1..Len(entries) |-> [name |-> entries[k]]]
    <2>1. /\ pc = "check" /\ opt.list /\ out' = listing /\ Exit(0)
          /\ UNCHANGED <<names, entries, argv, arg, opt, i, row>>
      BY <1>5 DEF List
    <2>2. Len(entries) = Len(names)
      BY <2>1 DEF Registered
    <2>3. listing \in Seq(Range(listing)) /\ listing # <<>>
      <3>1. DOMAIN listing = 1..Len(entries)
        OBVIOUS
      <3>2. \A k \in DOMAIN listing : listing[k] \in Range(listing)
        BY Zenon DEF Range
      <3>3. listing \in [1..Len(entries) -> Range(listing)]
        <4>1. listing = [k \in 1..Len(entries) |-> listing[k]]
          OBVIOUS
        <4> HIDE DEF listing
        <4> QED
          BY <3>1, <3>2, <4>1
      <3>4. 1 \in DOMAIN listing
        BY <1>len, <2>2, <3>1
      <3> HIDE DEF listing
      <3>5. listing \in UNION {[1..k -> Range(listing)] : k \in Nat}
        BY <1>len, <3>3
      <3> QED
        BY <3>4, <3>5, SeqDef
    <2> HIDE DEF listing
    <2>4. TypeOK'
      BY <2>1, <2>3 DEF Exit, TypeOK
    <2>5. Registered' /\ Phases' /\ Repetitions' /\ RowsSoFar'
      BY <2>1, <2>2 DEF Exit, Registered, Phases, Repetitions, RowsSoFar
    <2>6. RowsAreTheMatches' /\ StatusTellsTable'
      BY <2>1, <2>3 DEF Exit, RowsAreTheMatches, StatusTellsTable, Killed
    <2>7. ExactFilterIsExact' /\ RepetitionsComparable'
      BY <2>1 DEF ExactFilterIsExact, RepetitionsComparable
    <2> QED
      BY <2>4, <2>5, <2>6, <2>7 DEF IInv
  <1>6. CASE Start
    <2>1. /\ pc = "check" /\ ~opt.list /\ pc' = "select" /\ i = 1 /\ out = <<>> /\ Len(out) = 0
          /\ UNCHANGED <<names, entries, argv, arg, opt, i, row, out, status>>
      BY <1>6, <1>empty DEF Start, Phases
    <2>2. TypeOK' /\ Registered' /\ Phases' /\ Repetitions'
      BY <2>1 DEF TypeOK, Registered, Phases, Repetitions
    <2>3. RowsSoFar'
      <3>1. Matches(i - 1)' = {}
        BY <2>1 DEF Matches
      <3>2. [k \in 1..Len(out)' |-> 0] \in [1..Len(out)' -> Matches(i - 1)']
        BY <2>1
      <3> QED
        BY <2>1, <3>1, <3>2 DEF RowsSoFar, RowsFor
    <2>4. RowsAreTheMatches' /\ StatusTellsTable'
      BY <1>run, <2>1 DEF Phases
    <2>5. ExactFilterIsExact' /\ RepetitionsComparable'
      BY <2>1 DEF ExactFilterIsExact, RepetitionsComparable
    <2> QED
      BY <2>2, <2>3, <2>4, <2>5 DEF IInv
  <1>7. CASE Select
    <2>1. /\ pc = "select" /\ i <= Len(entries) /\ i \in Nat \ {0} /\ status = Running
          /\ entries[i] = names[i]
          /\ UNCHANGED <<names, entries, argv, arg, opt, n, samples, last, out, status>>
      BY <1>7, <1>len DEF Select, TypeOK, Phases, Registered
    <2>2. RowsAreTheMatches' /\ StatusTellsTable'
      BY <1>run, <2>1
    <2>3. ExactFilterIsExact' /\ RepetitionsComparable'
      BY <2>1 DEF ExactFilterIsExact, RepetitionsComparable
    <2>4. CASE name_matches(entries[i], opt.filter)
      <3>1. ran' = ran + 1 /\ pc' = "count" /\ i' = i
        BY <1>7, <2>4 DEF Select
      <3>2. TypeOK' /\ Registered' /\ Repetitions'
        <4>1. TypeOK'
          BY <2>1, <3>1 DEF TypeOK
        <4>2. Registered' /\ Repetitions'
          BY <2>1, <3>1 DEF Registered, Repetitions
        <4> QED
          BY <4>1, <4>2
      <3>3. Phases'
        BY <2>1, <2>4, <3>1 DEF Phases, name_matches
      <3>4. RowsSoFar'
        <4>1. RowsFor(Matches(i - 1))
          BY <2>1 DEF RowsSoFar
        <4>2. Matches(i - 1)' = Matches(i - 1)
          BY <2>1, <3>1 DEF Matches, name_matches
        <4> QED
          BY <2>1, <3>1, <4>1, <4>2 DEF RowsSoFar, RowsFor
      <3> QED
        BY <2>2, <2>3, <3>2, <3>3, <3>4 DEF IInv
    <2>5. CASE ~name_matches(entries[i], opt.filter)
      <3>1. i' = i + 1 /\ pc' = pc /\ ran' = ran
        BY <1>7, <2>5 DEF Select
      <3>2. TypeOK'
        BY <1>len, <2>1, <3>1 DEF TypeOK
      <3>3. Registered' /\ Phases' /\ Repetitions'
        BY <2>1, <3>1 DEF Registered, Phases, Repetitions
      <3>4. Matches(i - 1)' = Matches(i - 1)
        <4>1. Matches(i - 1)' = Matches(i)
          BY <2>1, <3>1 DEF Matches, name_matches
        <4> QED
          BY <2>1, <2>5, <4>1, SkipKeepsRows
      <3>5. RowsSoFar'
        BY <2>1, <3>1, <3>4 DEF RowsSoFar, RowsFor
      <3> QED
        BY <2>2, <2>3, <3>2, <3>3, <3>5 DEF IInv
    <2> QED
      BY <2>4, <2>5
  <1>8. CASE Count
    <2>1. /\ pc = "count" /\ pc' = "repeat" /\ samples' = <<>> /\ last' = 0 /\ n' \in Nat
          /\ UNCHANGED <<names, entries, argv, arg, opt, i, ran, out, status>>
      BY <1>8 DEF Count, TypeOK
    <2>2. TypeOK' /\ Repetitions'
      BY <1>empty, <2>1, EmptySeq DEF TypeOK, Repetitions, Phases
    <2>3. Registered' /\ Phases'
      BY <2>1 DEF Registered, Phases, name_matches
    <2>4. RowsSoFar'
      <3>1. RowsFor(Matches(i - 1))
        BY <2>1 DEF RowsSoFar
      <3>2. Matches(i - 1)' = Matches(i - 1)
        BY <2>1 DEF Matches, name_matches
      <3> QED
        BY <2>1, <3>1, <3>2 DEF RowsSoFar, RowsFor
    <2>5. RowsAreTheMatches' /\ StatusTellsTable'
      BY <1>run, <2>1 DEF Phases
    <2>6. ExactFilterIsExact' /\ RepetitionsComparable'
      BY <2>1 DEF ExactFilterIsExact, RepetitionsComparable
    <2> QED
      BY <2>2, <2>3, <2>4, <2>5, <2>6 DEF IInv
  <1>9. CASE Repeat
    <2>1. /\ pc = "repeat" /\ Len(samples) < opt.count /\ opt.count \in 1..CountMax
          /\ last' \in Allocs
          /\ UNCHANGED <<pc, names, entries, argv, arg, opt, i, ran, n, out, status>>
      BY <1>9 DEF Repeat, Phases
    <2>2. PICK ns \in Times : samples' = Append(samples, [ns |-> ns, n |-> n])
      BY <1>9 DEF Repeat
    <2>3. [ns |-> ns, n |-> n] \in [ns : Times, n : Nat]
      BY DEF TypeOK
    <2>4. /\ samples' \in Seq([ns : Times, n : Nat]) /\ Len(samples') = Len(samples) + 1
          /\ \A k \in 1..Len(samples) : samples'[k] = samples[k]
          /\ samples'[Len(samples) + 1] = [ns |-> ns, n |-> n]
      BY <2>2, <2>3, AppendProperties DEF TypeOK
    <2>5. TypeOK'
      BY <1>len, <2>1, <2>4, SMTT(30) DEF TypeOK
    <2>6. Repetitions'
      <3>1. Len(samples') <= opt.count
        BY <1>len, <2>1, <2>4
      <3>2. \A k \in 1..Len(samples') : samples'[k].n = n
        <4>1. Len(samples) \in Nat /\ \A k \in 1..Len(samples) : samples[k].n = n
          BY <1>len, <2>1 DEF Repetitions
        <4>2. ASSUME NEW k \in 1..Len(samples') PROVE k \in 1..Len(samples) \/ k = Len(samples) + 1
          BY <2>4, <4>1
        <4> QED
          BY <2>4, <4>1, <4>2
      <3> QED
        BY <2>1, <3>1, <3>2 DEF Repetitions
    <2>7. Registered' /\ Phases'
      BY <2>1 DEF Registered, Phases, name_matches
    <2>8. RowsSoFar'
      <3>1. Matches(i - 1)' = Matches(i - 1)
        BY <2>1 DEF Matches, name_matches
      <3> QED
        BY <2>1, <3>1, SMTT(30) DEF RowsSoFar, RowsFor
    <2>9. RowsAreTheMatches' /\ StatusTellsTable'
      BY <1>run, <2>1 DEF Phases
    <2>10. ExactFilterIsExact' /\ RepetitionsComparable'
      BY <2>1 DEF ExactFilterIsExact, RepetitionsComparable
    <2> QED
      BY <2>5, <2>6, <2>7, <2>8, <2>9, <2>10 DEF IInv
  <1>10. CASE RepeatsDone
    <2>1. /\ pc = "repeat" /\ Len(samples) = opt.count /\ pc' = "report"
          /\ UNCHANGED <<names, entries, argv, arg, opt, i, row, out, status>>
      BY <1>10 DEF RepeatsDone
    <2>2. TypeOK' /\ Registered' /\ Repetitions'
      BY <2>1 DEF TypeOK, Registered, Repetitions
    <2>3. Phases'
      BY <2>1 DEF Phases, name_matches
    <2>4. RowsSoFar'
      <3>1. RowsFor(Matches(i - 1))
        BY <2>1 DEF RowsSoFar
      <3>2. Matches(i - 1)' = Matches(i - 1)
        BY <2>1 DEF Matches, name_matches
      <3> QED
        BY <2>1, <3>1, <3>2 DEF RowsSoFar, RowsFor
    <2>5. RowsAreTheMatches' /\ StatusTellsTable'
      BY <1>run, <2>1 DEF Phases
    <2>6. ExactFilterIsExact' /\ RepetitionsComparable'
      BY <2>1 DEF ExactFilterIsExact, RepetitionsComparable
    <2> QED
      BY <2>2, <2>3, <2>4, <2>5, <2>6 DEF IInv
  <1>11. CASE Report
    <2>1. /\ pc = "report" /\ out' = Append(out, Row) /\ i' = i + 1 /\ pc' = "select"
          /\ status = Running
          /\ UNCHANGED <<names, entries, argv, arg, opt, row, status>>
      BY <1>11 DEF Report, Phases
    <2>2. /\ i \in Nat /\ i <= Len(entries) /\ name_matches(entries[i], opt.filter)
          /\ ran = Len(out) + 1 /\ ~opt.list
          /\ Len(samples) = opt.count /\ \A r \in 1..Len(samples) : samples[r].n = n
      BY <1>len, <2>1 DEF Phases, Repetitions, TypeOK
    <2>3. Row.name = entries[i] /\ Row.n = n /\ Row.runs = opt.count /\ Row.of = samples
      BY DEF Row
    <2>4. /\ out' \in Seq(Range(out')) /\ Len(out') = Len(out) + 1
          /\ \A k \in 1..Len(out) : out'[k] = out[k]
          /\ out'[Len(out) + 1] = Row
      BY <2>1, AppendRow DEF TypeOK
    <2>5. TypeOK'
      BY <1>len, <2>1, <2>2, <2>4, SMTT(30) DEF TypeOK
    <2>6. Registered' /\ Phases' /\ Repetitions'
      BY <1>len, <2>1, <2>2, <2>4 DEF Registered, Phases, Repetitions
    <2>7. RowsSoFar'
      BY <2>1, <2>2, <2>3, RowAdded DEF RowsSoFar
    <2>8. RowsAreTheMatches' /\ StatusTellsTable'
      BY <1>run, <2>1
    <2>9. ExactFilterIsExact'
      <3>1. opt.filter.exact => Row.name = opt.filter.parts
        BY <2>2, <2>3 DEF name_matches
      <3> QED
        BY <1>len, <2>1, <2>2, <2>4, <3>1 DEF ExactFilterIsExact
    <2>10. RepetitionsComparable'
      <3>1. Len(Row.of) = Row.runs /\ \A r \in 1..Row.runs : Row.of[r].n = Row.n
        BY <2>2, <2>3
      <3>2. \A k \in 1..Len(out) : /\ Len(out[k].of) = out[k].runs
                                   /\ \A r \in 1..out[k].runs : out[k].of[r].n = out[k].n
        BY <2>2 DEF RepetitionsComparable
      <3>3. \A k \in 1..Len(out') : k \in 1..Len(out) \/ k = Len(out) + 1
        BY <1>len, <2>4
      <3> QED
        BY <2>4, <3>1, <3>2, <3>3 DEF RepetitionsComparable
    <2> QED
      BY <2>5, <2>6, <2>7, <2>8, <2>9, <2>10 DEF IInv
  <1>12. CASE Finish
    <2>1. /\ pc = "select" /\ i > Len(entries) /\ ran = Len(out) /\ ~opt.list
          /\ Exit(IF ran = 0 THEN 1 ELSE 0)
          /\ UNCHANGED <<names, entries, argv, arg, opt, i, row, out>>
      BY <1>12 DEF Finish, Phases
    <2>2. i - 1 = Len(names) /\ Len(entries) = Len(names)
      BY <1>len, <2>1, SMTT(30) DEF TypeOK, Registered
    <2>3. TypeOK' /\ Registered'
      BY <2>1, <2>2 DEF Exit, TypeOK, Registered
    <2>4. Phases' /\ Repetitions' /\ RowsSoFar'
      BY <2>1 DEF Exit, Phases, Repetitions, RowsSoFar
    <2>5. RowsAreTheMatches'
      <3>1. RowsFor(Matches(Len(names)))
        BY <2>1, <2>2 DEF RowsSoFar
      <3>2. Matches(Len(names))' = Matches(Len(names))
        BY <2>1 DEF Matches, name_matches
      <3> QED
        BY <2>1, <3>1, <3>2 DEF RowsAreTheMatches, RowsFor
    <2>6. StatusTellsTable'
      <3>1. out = <<>> <=> Len(out) = 0
        BY <1>empty, EmptySeq DEF TypeOK
      <3>2. CASE ran = 0
        <4>1. RowsFor(Matches(Len(names)))
          BY <2>1, <2>2 DEF RowsSoFar
        <4>2. Matches(Len(names)) = {}
          BY <2>1, <3>2, <4>1 DEF RowsFor
        <4>3. Matches(Len(names))' = {}
          BY <2>1, <4>2 DEF Matches, name_matches
        <4> QED
          BY <2>1, <3>1, <3>2, <4>3 DEF Exit, StatusTellsTable, Killed
      <3>3. CASE ran # 0
        BY <2>1, <3>1, <3>3 DEF Exit, StatusTellsTable, Killed
      <3> QED
        BY <3>2, <3>3
    <2>7. ExactFilterIsExact' /\ RepetitionsComparable'
      BY <2>1 DEF ExactFilterIsExact, RepetitionsComparable
    <2> QED
      BY <2>3, <2>4, <2>5, <2>6, <2>7 DEF IInv
  <1>14. CASE BodyEnds
    <2>1. /\ pc \in {"count", "repeat"} /\ pc' = "exit" /\ ~opt.list
          /\ i \in Nat \ {0} /\ i <= Len(entries) /\ name_matches(entries[i], opt.filter)
          /\ UNCHANGED <<names, entries, argv, arg, opt, i, row, out>>
      BY <1>14 DEF BodyEnds, Exit, Phases, TypeOK
    <2>2. entries[i] = names[i] /\ Len(entries) = Len(names) /\ i \in 1..Len(names)
      BY <1>len, <2>1 DEF Registered
    <2>3. status' \in Endings[names[i]] /\ status' \in {1, Killed}
      <3>1. names[i] \in Names
        BY <1>len, <2>2, ElementOfSeq
      <3> QED
        BY <1>14, <2>2, <3>1 DEF BodyEnds, Exit
    <2>4. TypeOK' /\ Registered' /\ Repetitions'
      BY <2>1, <2>2, <2>3 DEF TypeOK, Registered, Repetitions, Killed
    <2>5. Phases' /\ RowsSoFar'
      BY <2>1, <2>3 DEF Phases, RowsSoFar, Killed
    <2>6. RowsAreTheMatches'
      BY <2>3 DEF RowsAreTheMatches, Killed
    <2>7. StatusTellsTable'
      <3>1. RowsFor(Matches(i - 1))
        BY <2>1 DEF RowsSoFar
      <3>2. /\ Matches(i - 1)' = Matches(i - 1)
            /\ i \in Matches(Len(names))'
        BY <2>1, <2>2 DEF Matches, name_matches
      <3>3. RowsFor(Matches(i - 1))'
        BY <2>1, <3>1, <3>2 DEF RowsFor
      <3>4. StopsShortAt(i)'
        BY <2>1, <2>3, <3>3 DEF StopsShortAt
      <3>5. status' # 0 /\ status' # 2
        BY <2>3 DEF Killed
      <3> QED
        BY <2>1, <3>2, <3>4, <3>5 DEF StatusTellsTable
    <2>8. ExactFilterIsExact' /\ RepetitionsComparable'
      BY <2>1 DEF ExactFilterIsExact, RepetitionsComparable
    <2> QED
      BY <2>4, <2>5, <2>6, <2>7, <2>8 DEF IInv
  <1>13. CASE UNCHANGED vars
    <2>1. UNCHANGED <<pc, names, entries, argv, arg, opt, i, row, out, status>>
      BY <1>13 DEF vars
    <2>2. TypeOK' /\ Registered' /\ Repetitions'
      BY <2>1 DEF TypeOK, Registered, Repetitions
    <2>3. Phases'
      BY <2>1 DEF Phases, name_matches
    <2>4. RowsSoFar' /\ RowsAreTheMatches'
      <3>1. /\ Matches(i - 1)' = Matches(i - 1)
            /\ Matches(Len(names))' = Matches(Len(names))
        BY <2>1 DEF Matches, name_matches
      <3> QED
        BY <2>1, <3>1 DEF RowsSoFar, RowsAreTheMatches, RowsFor
    <2>5. ExactFilterIsExact' /\ RepetitionsComparable'
      BY <2>1 DEF ExactFilterIsExact, RepetitionsComparable
    <2>6. StatusTellsTable'
      <3>1. /\ Matches(Len(names))' = Matches(Len(names))
            /\ \A k \in Matches(Len(names)) : Matches(k - 1)' = Matches(k - 1)
        BY <2>1 DEF Matches, name_matches
      <3>2. \A k \in Matches(Len(names)) : StopsShortAt(k) => StopsShortAt(k)'
        BY <2>1, <3>1 DEF StopsShortAt, RowsFor
      <3> QED
        BY <2>1, <3>1, <3>2 DEF StatusTellsTable
    <2> QED
      BY <2>2, <2>3, <2>4, <2>5, <2>6 DEF IInv
  <1> QED
    BY <1>1, <1>2, <1>3, <1>4, <1>5, <1>6, <1>7, <1>8, <1>9, <1>10, <1>11, <1>12, <1>13, <1>14
       DEF Next, Exited

\* The invariant holds in every reachable state.
LEMMA Invariance == Spec => []IInv
  <1>1. Init => IInv
    <2> SUFFICES ASSUME Init PROVE IInv
      OBVIOUS
    <2>1. names \in NameLists /\ entries = <<>> /\ out = <<>> /\ samples = <<>> /\ argv \in Argvs
      BY DEF Init
    <2>2. Len(<<>>) = 0 /\ Len(names) \in Nat /\ Len(argv) \in Nat
      BY <2>1, RunnerAssumption, EmptySeq, LenProperties
    <2>3. TypeOK
      <3>1. <<>> \in Seq(Names) /\ <<>> \in Seq([ns : Times, n : Nat]) /\ <<>> \in Seq(Range(<<>>))
        BY EmptySeq
      <3>2. opt \in [filter : Filters, fixedN : Int, count : Int, tsv : BOOLEAN, list : BOOLEAN]
        BY DEF Init, Filters
      <3> QED
        BY <2>1, <2>2, <3>1, <3>2, RunnerAssumption DEF Init, TypeOK, Running
    <2>4. Registered /\ Phases /\ Repetitions /\ RowsSoFar
      BY <2>1, <2>2 DEF Init, Registered, Phases, Repetitions, RowsSoFar, Running
    <2>5. RowsAreTheMatches /\ StatusTellsTable
      BY DEF Init, RowsAreTheMatches, StatusTellsTable, Running, Killed
    <2>6. ExactFilterIsExact /\ RepetitionsComparable
      BY <2>1, <2>2 DEF ExactFilterIsExact, RepetitionsComparable
    <2> QED
      BY <2>3, <2>4, <2>5, <2>6 DEF IInv
  <1> QED
    BY <1>1, Inductive, PTL DEF Spec

\* The registry stays within BENCH_MAX, the argument loop within argv and the
\* samples of a row within COUNT_MAX.
THEOREM TypeCorrect == Spec => []TypeOK
  <1>1. IInv => TypeOK
    BY DEF IInv
  <1> QED
    BY <1>1, Invariance, PTL

\* The table of a run that exits with 0 is complete and in order, for every
\* filter.
THEOREM TableComplete == Spec => []RowsAreTheMatches
  <1>1. IInv => RowsAreTheMatches
    BY DEF IInv
  <1> QED
    BY <1>1, Invariance, PTL

\* A filter that ends in $ lets one name through.
THEOREM FilterExact == Spec => []ExactFilterIsExact
  <1>1. IInv => ExactFilterIsExact
    BY DEF IInv
  <1> QED
    BY <1>1, Invariance, PTL

\* All repetitions behind a row ran the count it prints.
THEOREM RunsComparable == Spec => []RepetitionsComparable
  <1>1. IInv => RepetitionsComparable
    BY DEF IInv
  <1> QED
    BY <1>1, Invariance, PTL

\* The exit status tells whether there is a table, and whether it stops short at a
\* benchmark that ended the process.
THEOREM StatusHonest == Spec => []StatusTellsTable
  <1>1. IInv => StatusTellsTable
    BY DEF IInv
  <1> QED
    BY <1>1, Invariance, PTL
-----------------------------------------------------------------------------
\* Every set of numbers has a least one: the subset order of finite sets is well
\* founded, and the numbers are their intervals.
LEMMA LeastNat ==
  ASSUME NEW T \in SUBSET Nat, T # {}
  PROVE  \E x \in T : \A y \in T : x <= y
  <1> DEFINE R == StrictSubsetOrdering(Nat)
             F == FiniteSubsetsOf(Nat)
             U == {1..m : m \in T}
  <1>1. IsWellFoundedOn(R, F)
    BY FS_StrictSubsetOrderingWellFounded
  <1>2. U \subseteq F /\ U # {}
    <2>1. \A m \in T : 1..m \in SUBSET Nat /\ IsFiniteSet(1..m)
      BY FS_Interval
    <2> QED BY <2>1 DEF FiniteSubsetsOf
  <1>3. \A a, b \in T : a < b => <<1..a, 1..b>> \in R
    <2> SUFFICES ASSUME NEW a \in T, NEW b \in T, a < b PROVE <<1..a, 1..b>> \in R
      OBVIOUS
    <2>1. 1..a \in SUBSET Nat /\ 1..b \in SUBSET Nat
      OBVIOUS
    <2>2. 1..a \subseteq 1..b
      OBVIOUS
    <2>3. b \in 1..b /\ b \notin 1..a
      OBVIOUS
    <2> QED BY <2>1, <2>2, <2>3 DEF StrictSubsetOrdering
  <1>4. \E x \in U : \A y \in U : ~(<<y, x>> \in R)
    <2> HIDE DEF R, F, U
    <2> QED BY <1>1, <1>2, WFMin
  <1>5. PICK m \in T : \A y \in U : ~(<<y, 1..m>> \in R)
    BY <1>4
  <1>6. \A y \in T : ~(y < m)
    <2> HIDE DEF R
    <2> QED BY <1>3, <1>5
  <1> QED
    BY <1>6

\* A vector whose head can be sorted can be sorted: the last value goes in front
\* of the first larger one.
LEMMA Insert ==
  ASSUME NEW L \in Nat \ {0}, NEW v \in [1..L -> Nat],
         NEW q \in Orders([k \in 1..L - 1 |-> v[k]])
  PROVE  Orders(v) # {}
  <1> DEFINE H == 1..L - 1
             G == 1..L
             C == {j \in G : j = L \/ v[L] < v[q[j]]}
  <1>1. /\ q \in [H -> H]
        /\ \A a, b \in H : q[a] = q[b] => a = b
        /\ \A t \in H : \E s \in H : q[s] = t
        /\ \A j, k \in H : j < k => v[q[j]] <= v[q[k]]
    BY DEF Orders, Bijection, Injection, Surjection, IsInjective
  <1>2. PICK c \in C : \A j \in C : c <= j
    <2>1. C \in SUBSET Nat /\ L \in C
      OBVIOUS
    <2> HIDE DEF C
    <2> QED BY <2>1, LeastNat
  <1> DEFINE p == [j \in G |-> IF j < c THEN q[j] ELSE IF j = c THEN L ELSE q[j - 1]]
  <1>3. /\ L \in Nat /\ L \in G /\ c \in G /\ G \subseteq Nat /\ H \subseteq G
        /\ \A j \in G : j \in H <=> j # L
        /\ \A j \in G : j <= L
        /\ \A j \in G : c < j => j - 1 \in H /\ c <= j - 1
        /\ \A j \in H : j + 1 \in G
        /\ \A j \in H : q[j] \in H
        /\ \A j \in G : v[j] \in Nat
    <2>1. L \in Nat /\ L \in G /\ c \in G /\ G \subseteq Nat /\ H \subseteq G
      OBVIOUS
    <2>2. \A j \in G : (j \in H <=> j # L) /\ j <= L
      OBVIOUS
    <2>3. \A j \in G : c < j => j - 1 \in H /\ c <= j - 1
      OBVIOUS
    <2>4. \A j \in H : j + 1 \in G
      OBVIOUS
    <2> QED BY <1>1, <2>1, <2>2, <2>3, <2>4
  <1>4. \A j \in G : p[j] = IF j < c THEN q[j] ELSE IF j = c THEN L ELSE q[j - 1]
    OBVIOUS
  <1>5. \A j \in G : j \in C <=> (j = L \/ v[L] < v[q[j]])
    OBVIOUS
  <1>6. DOMAIN v = G /\ DOMAIN p = G /\ p = [j \in G |-> p[j]]
    OBVIOUS
  <1> HIDE DEF p, C, G, H
  <1>7. \A j \in G : /\ j < c => j \in H /\ p[j] = q[j] /\ p[j] \in H
                     /\ j = c => p[j] = L
                     /\ c < j => j - 1 \in H /\ p[j] = q[j - 1] /\ p[j] \in H
    <2> SUFFICES ASSUME NEW j \in G
                 PROVE  /\ j < c => j \in H /\ p[j] = q[j] /\ p[j] \in H
                        /\ j = c => p[j] = L
                        /\ c < j => j - 1 \in H /\ p[j] = q[j - 1] /\ p[j] \in H
      OBVIOUS
    <2>1. j \in Nat /\ c \in Nat /\ c <= L
      BY <1>3
    <2>2. j < c => j \in H
      BY <2>1, <1>3
    <2> QED BY <2>1, <2>2, <1>3, <1>4
  <1>8. \A j \in G : p[j] \in G
    <2> SUFFICES ASSUME NEW j \in G PROVE p[j] \in G
      OBVIOUS
    <2>1. j < c \/ j = c \/ c < j
      BY <1>3
    <2> QED BY <2>1, <1>3, <1>7
  <1>9. p \in [G -> G]
    BY <1>6, <1>8
  <1>10. \A a, b \in G : p[a] = p[b] => a = b
    <2> SUFFICES ASSUME NEW a \in G, NEW b \in G, p[a] = p[b] PROVE a = b
      OBVIOUS
    <2>t. a \in Nat /\ b \in Nat /\ c \in Nat
      BY <1>3
    <2>1. CASE a < c /\ b < c
      BY <2>1, <1>1, <1>7
    <2>2. CASE c < a /\ c < b
      <3>1. a - 1 = b - 1
        BY <2>2, <1>1, <1>7
      <3> QED BY <3>1, <2>t
    <2>3. CASE a < c /\ c < b
      <3>1. a = b - 1
        BY <2>3, <1>1, <1>7
      <3> QED BY <3>1, <2>3, <2>t
    <2>4. CASE b < c /\ c < a
      <3>1. b = a - 1
        BY <2>4, <1>1, <1>7
      <3> QED BY <3>1, <2>4, <2>t
    <2>5. CASE a = c \/ b = c
      <3>1. (p[a] = L => a = c) /\ (p[b] = L => b = c)
        BY <1>7, <1>3, <2>t
      <3> QED BY <3>1, <2>5, <1>7
    <2> QED BY <2>1, <2>2, <2>3, <2>4, <2>5, <2>t
  <1>11. \A t \in G : \E s \in G : p[s] = t
    <2> SUFFICES ASSUME NEW t \in G PROVE \E s \in G : p[s] = t
      OBVIOUS
    <2>1. CASE t = L
      BY <2>1, <1>7, <1>3
    <2>2. CASE t # L
      <3>1. PICK s \in H : q[s] = t
        BY <1>1, <1>3, <2>2
      <3>2. s \in G /\ s \in Nat /\ c \in Nat /\ s + 1 \in G /\ (s + 1) - 1 = s
        BY <1>3
      <3>3. CASE s < c
        BY <3>1, <3>2, <3>3, <1>7
      <3>4. CASE c <= s
        <4>1. p[s + 1] = t
          BY <3>1, <3>2, <3>4, <1>7
        <4> QED BY <4>1, <3>2
      <3> QED BY <3>2, <3>3, <3>4
    <2> QED BY <2>1, <2>2
  <1>12. \A j \in H : /\ j < c => v[q[j]] <= v[L]
                      /\ c <= j => v[L] <= v[q[j]]
    <2> SUFFICES ASSUME NEW j \in H
                 PROVE  /\ j < c => v[q[j]] <= v[L]
                        /\ c <= j => v[L] <= v[q[j]]
      OBVIOUS
    <2>1. /\ q[j] \in G /\ j \in G /\ j # L /\ j \in Nat /\ c \in Nat /\ j <= L
          /\ v[L] \in Nat /\ v[q[j]] \in Nat
      BY <1>3
    <2>2. CASE j < c
      <3>1. j \notin C
        BY <1>2, <2>1, <2>2
      <3> QED BY <3>1, <2>1, <2>2, <1>5
    <2>3. CASE c <= j
      <3>1. c # L
        BY <2>1, <2>3, <1>3
      <3>2. c \in H /\ v[L] < v[q[c]] /\ v[q[c]] \in Nat
        BY <3>1, <1>3, <1>5
      <3>3. v[q[c]] <= v[q[j]]
        <4>1. CASE c = j
          BY <4>1, <2>1
        <4>2. CASE c < j
          BY <4>2, <3>2, <1>1
        <4> QED BY <4>1, <4>2, <2>1, <2>3
      <3> QED BY <3>2, <3>3, <2>1, <2>3
    <2> QED BY <2>2, <2>3
  <1>13. \A j, k \in G : j < k => v[p[j]] <= v[p[k]]
    <2> SUFFICES ASSUME NEW j \in G, NEW k \in G, j < k PROVE v[p[j]] <= v[p[k]]
      OBVIOUS
    <2>t. j \in Nat /\ k \in Nat /\ c \in Nat
      BY <1>3
    <2>1. CASE k < c
      <3>1. j < c
        BY <2>1, <2>t
      <3> QED BY <3>1, <2>1, <1>1, <1>7
    <2>2. CASE k = c
      BY <2>2, <1>12, <1>7
    <2>3. CASE c < k /\ j < c
      <3>1. k - 1 \in H /\ c <= k - 1 /\ j \in H /\ p[k] = q[k - 1] /\ p[j] = q[j]
        BY <2>3, <1>3, <1>7
      <3>2. v[q[j]] <= v[L] /\ v[L] <= v[q[k - 1]]
        BY <3>1, <2>3, <1>12
      <3>3. v[q[j]] \in Nat /\ v[L] \in Nat /\ v[q[k - 1]] \in Nat
        BY <3>1, <1>3
      <3> QED BY <3>1, <3>2, <3>3
    <2>4. CASE c < k /\ j = c
      BY <2>4, <1>12, <1>7, <1>3
    <2>5. CASE c < j
      <3>1. c < k /\ j - 1 < k - 1
        BY <2>5, <2>t
      <3>2. /\ j - 1 \in H /\ k - 1 \in H
            /\ p[j] = q[j - 1] /\ p[k] = q[k - 1]
        BY <3>1, <2>5, <1>7
      <3> QED BY <3>1, <3>2, <1>1
    <2> QED BY <2>1, <2>2, <2>3, <2>4, <2>5, <2>t
  <1>14. p \in Orders(v)
    BY <1>6, <1>9, <1>10, <1>11, <1>13
       DEF Orders, Bijection, Injection, Surjection, IsInjective
  <1> QED
    BY <1>14

\* qsort has something to return: every vector can be sorted.
LEMMA Sortable ==
  ASSUME NEW L \in Nat, NEW v \in [1..L -> Nat]
  PROVE  Orders(v) # {}
  <1> DEFINE T == {m \in Nat : \E w \in [1..m -> Nat] : Orders(w) = {}}
  <1>1. CASE T = {}
    BY <1>1
  <1>2. CASE T # {}
    <2>1. PICK m \in T : \A y \in T : m <= y
      <3>1. T \in SUBSET Nat
        OBVIOUS
      <3> HIDE DEF T
      <3> QED BY <3>1, <1>2, LeastNat
    <2>2. PICK w \in [1..m -> Nat] : Orders(w) = {}
      BY <2>1
    <2>3. m # 0
      <3> SUFFICES ASSUME m = 0 PROVE FALSE
        OBVIOUS
      <3>1. DOMAIN w = {}
        BY 1..0 = {}
      <3>2. [k \in {} |-> k] \in Orders(w)
        BY <3>1 DEF Orders, Bijection, Injection, Surjection, IsInjective
      <3> QED BY <3>2, <2>2
    <2>4. m \in Nat \ {0} /\ m - 1 \in Nat /\ m - 1 \notin T
      <3>1. m \in Nat
        OBVIOUS
      <3>2. m - 1 \in Nat /\ ~(m <= m - 1)
        BY <3>1, <2>3
      <3> HIDE DEF T
      <3> QED BY <2>1, <2>3, <3>1, <3>2
    <2>5. [k \in 1..m - 1 |-> w[k]] \in [1..m - 1 -> Nat]
      BY <2>4
    <2>6. Orders([k \in 1..m - 1 |-> w[k]]) # {}
      BY <2>4, <2>5
    <2> QED BY <2>2, <2>4, <2>6, Insert
  <1> QED BY <1>1, <1>2

\* The value that sorting puts in place q is the q-th smallest.
LEMMA PlaceIsRank ==
  ASSUME NEW L \in Nat, NEW v \in [1..L -> Nat], NEW p \in Orders(v), NEW q \in 1..L
  PROVE  /\ Cardinality({k \in 1..L : v[k] < v[p[q]]}) < q
         /\ q <= Cardinality({k \in 1..L : v[k] <= v[p[q]]})
  <1> DEFINE G == 1..L
             A == {k \in G : v[k] < v[p[q]]}
             B == {k \in G : v[k] <= v[p[q]]}
             U == {p[j] : j \in 1..q - 1}
             V == {p[j] : j \in 1..q}
             f == [j \in 1..q - 1 |-> p[j]]
             g == [j \in 1..q |-> p[j]]
  <1>1. /\ p \in [G -> G]
        /\ \A a, b \in G : p[a] = p[b] => a = b
        /\ \A t \in G : \E s \in G : p[s] = t
        /\ \A j, k \in G : j < k => v[p[j]] <= v[p[k]]
    BY DEF Orders, Bijection, Injection, Surjection, IsInjective
  <1>2. q \in Nat /\ q - 1 \in Nat /\ q \in G /\ 1..q \subseteq G /\ 1..q - 1 \subseteq G
    OBVIOUS
  <1>3. /\ IsFiniteSet(1..q - 1) /\ Cardinality(1..q - 1) = q - 1
        /\ IsFiniteSet(1..q) /\ Cardinality(1..q) = q
        /\ IsFiniteSet(G)
    <2>1. \A m \in Nat : IsFiniteSet(1..m) /\ Cardinality(1..m) = m
      <3> SUFFICES ASSUME NEW m \in Nat PROVE IsFiniteSet(1..m) /\ Cardinality(1..m) = m
        OBVIOUS
      <3>1. IsFiniteSet(1..m) /\ Cardinality(1..m) = IF 1 > m THEN 0 ELSE m - 1 + 1
        BY FS_Interval
      <3> QED BY <3>1
    <2> QED BY <2>1, <1>2
  <1>4. IsFiniteSet(U) /\ Cardinality(U) <= q - 1
    <2>1. f \in Surjection(1..q - 1, U)
      BY DEF Surjection
    <2> HIDE DEF f, U
    <2> QED BY <2>1, <1>3, FS_Surjection
  <1>5. IsFiniteSet(V) /\ Cardinality(V) = q
    <2>1. g \in Surjection(1..q, V)
      BY DEF Surjection
    <2>2. g \in Injection(1..q, V)
      BY <1>1, <1>2 DEF Injection, IsInjective
    <2> HIDE DEF g, V
    <2> QED BY <2>1, <2>2, <1>3, FS_Surjection
  <1>6. A \subseteq U
    <2> SUFFICES ASSUME NEW k \in A PROVE k \in U
      OBVIOUS
    <2>1. PICK j \in G : p[j] = k
      BY <1>1
    <2>2. v[k] \in Nat /\ v[p[q]] \in Nat /\ v[k] < v[p[q]]
      BY <1>1, <1>2
    <2>3. j # q
      BY <2>1, <2>2
    <2>4. ~(q < j)
      <3>1. q < j => v[p[q]] <= v[k]
        BY <2>1, <1>1, <1>2
      <3> QED BY <3>1, <2>2
    <2>5. j \in 1..q - 1
      BY <2>3, <2>4, <1>2
    <2> QED BY <2>1, <2>5
  <1>7. V \subseteq B
    <2> SUFFICES ASSUME NEW j \in 1..q PROVE p[j] \in B
      OBVIOUS
    <2>1. j \in G /\ (j < q \/ j = q)
      BY <1>2
    <2>2. p[j] \in G
      BY <2>1, <1>1
    <2>3. v[p[j]] \in Nat
      BY <2>2
    <2>4. v[p[j]] <= v[p[q]]
      <3>1. CASE j < q
        BY <3>1, <2>1, <1>1, <1>2
      <3>2. CASE j = q
        BY <3>2, <2>3
      <3> QED BY <2>1, <3>1, <3>2
    <2> QED BY <2>2, <2>4
  <1>8. IsFiniteSet(B) /\ B \subseteq G
    <2>1. B \in SUBSET G
      OBVIOUS
    <2> HIDE DEF B
    <2> QED BY <2>1, <1>3, FS_Subset
  <1>9. Cardinality(A) <= Cardinality(U) /\ IsFiniteSet(A)
    <2> HIDE DEF A, U
    <2> QED BY <1>4, <1>6, FS_Subset
  <1>10. Cardinality(V) <= Cardinality(B)
    <2> HIDE DEF B, V
    <2> QED BY <1>7, <1>8, FS_Subset
  <1>11. Cardinality(A) \in Nat /\ Cardinality(U) \in Nat /\ Cardinality(B) \in Nat
    BY <1>4, <1>8, <1>9, FS_CardinalityType
  <1> HIDE DEF A, B, U, V
  <1>12. Cardinality(A) < q /\ q <= Cardinality(B)
    BY <1>2, <1>4, <1>5, <1>9, <1>10, <1>11
  <1> QED
    BY <1>12 DEF A, B

\* The first and the last place hold the least and the greatest value.
LEMMA Ends ==
  ASSUME NEW L \in Nat \ {0}, NEW v \in [1..L -> Nat], NEW p \in Orders(v)
  PROVE  Least(Range(v)) = v[p[1]] /\ Greatest(Range(v)) = v[p[L]]
  <1>1. /\ p \in [1..L -> 1..L]
        /\ \A t \in 1..L : \E s \in 1..L : p[s] = t
        /\ \A j, k \in 1..L : j < k => v[p[j]] <= v[p[k]]
    BY DEF Orders, Bijection, Injection, Surjection, IsInjective
  <1>2. 1 \in 1..L /\ L \in 1..L /\ p[1] \in 1..L /\ p[L] \in 1..L
    BY <1>1
  <1>3. Range(v) \subseteq Nat /\ v[p[1]] \in Range(v) /\ v[p[L]] \in Range(v)
    BY <1>2 DEF Range
  <1>4. \A x \in Range(v) : v[p[1]] <= x /\ x <= v[p[L]]
    <2> SUFFICES ASSUME NEW k \in 1..L PROVE v[p[1]] <= v[k] /\ v[k] <= v[p[L]]
      BY DEF Range
    <2>1. PICK j \in 1..L : p[j] = k
      BY <1>1
    <2>2. (j = 1 \/ 1 < j) /\ (j = L \/ j < L)
      OBVIOUS
    <2>3. v[k] \in Nat
      OBVIOUS
    <2>4. v[p[1]] <= v[k]
      <3>1. CASE j = 1
        BY <3>1, <2>1, <2>3
      <3>2. CASE 1 < j
        BY <3>2, <2>1, <1>1, <1>2
      <3> QED BY <2>2, <3>1, <3>2
    <2>5. v[k] <= v[p[L]]
      <3>1. CASE j = L
        BY <3>1, <2>1, <2>3
      <3>2. CASE j < L
        BY <3>2, <2>1, <1>1, <1>2
      <3> QED BY <2>2, <3>1, <3>2
    <2> QED BY <2>4, <2>5
  <1>5. \A x, y \in Range(v) : x <= y /\ y <= x => x = y
    BY <1>3
  <1>6. /\ Least(Range(v)) \in Range(v) /\ Least(Range(v)) <= v[p[1]]
        /\ Greatest(Range(v)) \in Range(v) /\ v[p[L]] <= Greatest(Range(v))
    BY <1>3, <1>4 DEF Least, Greatest
  <1> QED
    BY <1>3, <1>4, <1>5, <1>6

\* The row that bench_main is about to print has the median of its runs.
LEMMA RowMedian ==
  ASSUME NEW L \in Nat \ {0}, NEW of \in Seq([ns : Times, n : Nat]), Len(of) = L
  PROVE  LET v == [k \in 1..L |-> of[k].ns] IN
         /\ \E r, s \in DOMAIN of :
              /\ Ranked(of, r, (L + 1) \div 2) /\ Ranked(of, s, L \div 2 + 1)
              /\ median_of(v) = of[r].ns + of[s].ns
         /\ \E r, s \in DOMAIN of :
              /\ Ranked(of, r, 1) /\ Ranked(of, s, L)
              /\ Least(Range(v)) = of[r].ns /\ Greatest(Range(v)) = of[s].ns
  <1> DEFINE v == [k \in 1..L |-> of[k].ns]
             p == CHOOSE x \in Orders(v) : TRUE
             m == L \div 2
  <1>1. DOMAIN of = 1..L /\ \A k \in 1..L : of[k].ns \in Nat
    <2>1. of \in [1..L -> [ns : Times, n : Nat]] /\ DOMAIN of = 1..L
      BY LenProperties, ElementOfSeq
    <2>2. Times \subseteq Nat
      BY RunnerAssumption
    <2> QED BY <2>1, <2>2
  <1>2. v \in [1..L -> Nat] /\ DOMAIN v = 1..L /\ \A k \in 1..L : v[k] = of[k].ns
    BY <1>1
  <1>3. p \in Orders(v)
    <2> HIDE DEF v
    <2> QED BY <1>2, Sortable
  <1>4. \A k \in 1..L : qsort(v)[k] = v[p[k]]
    BY <1>2 DEF qsort
  <1>5. v \in Seq(Nat) /\ Len(v) = L
    BY <1>2, SeqDef
  <1> HIDE DEF v, p
  <1>6. \A q \in 1..L : /\ p[q] \in DOMAIN of /\ v[p[q]] = of[p[q]].ns
                        /\ Ranked(of, p[q], q)
    <2> SUFFICES ASSUME NEW q \in 1..L
                 PROVE  /\ p[q] \in DOMAIN of /\ v[p[q]] = of[p[q]].ns
                        /\ Ranked(of, p[q], q)
      OBVIOUS
    <2>1. p[q] \in 1..L
      BY <1>2, <1>3 DEF Orders, Bijection, Injection
    <2>2. /\ Cardinality({k \in 1..L : v[k] < v[p[q]]}) < q
          /\ q <= Cardinality({k \in 1..L : v[k] <= v[p[q]]})
      <3>1. L \in Nat /\ v \in [1..L -> Nat] /\ p \in Orders(v) /\ q \in 1..L
        BY <1>2, <1>3
      <3> QED
        BY <3>1, PlaceIsRank, Zenon
    <2>3. /\ {k \in DOMAIN of : of[k].ns < of[p[q]].ns} = {k \in 1..L : v[k] < v[p[q]]}
          /\ {k \in DOMAIN of : of[k].ns <= of[p[q]].ns} = {k \in 1..L : v[k] <= v[p[q]]}
      BY <2>1, <1>1, <1>2
    <2> QED BY <2>1, <2>2, <2>3, <1>1, <1>2 DEF Ranked
  <1>7. Least(Range(v)) = v[p[1]] /\ Greatest(Range(v)) = v[p[L]]
    BY <1>2, <1>3, Ends
  <1>8. 1 \in 1..L /\ L \in 1..L
    OBVIOUS
  <1>9. CASE L % 2 = 1
    <2>1. (L + 1) \div 2 = m + 1 /\ m + 1 \in 1..L
      BY <1>9
    <2>2. median_of(v) = 2 * v[p[m + 1]]
      BY <1>4, <1>5, <1>9, <2>1 DEF median_of
    <2>3. of[p[m + 1]].ns \in Nat
      BY <1>1, <1>6, <2>1
    <2>4. median_of(v) = of[p[m + 1]].ns + of[p[m + 1]].ns
      BY <1>6, <2>1, <2>2, <2>3
    <2> QED BY <1>6, <1>7, <1>8, <2>1, <2>4 DEF v
  <1>10. CASE L % 2 # 1
    <2>1. (L + 1) \div 2 = m /\ m \in 1..L /\ m + 1 \in 1..L
      BY <1>10
    <2>2. median_of(v) = v[p[m]] + v[p[m + 1]]
      BY <1>4, <1>5, <1>10, <2>1 DEF median_of
    <2>3. median_of(v) = of[p[m]].ns + of[p[m + 1]].ns
      BY <1>6, <2>1, <2>2
    <2> QED BY <1>6, <1>7, <1>8, <2>1, <2>3 DEF v
  <1> QED
    BY <1>9, <1>10

\* The median printed in a row splits its runs, and lo and hi are their ends.
THEOREM MedianRight == Spec => []MedianSplitsRuns
  <1>1. Init => MedianSplitsRuns
    <2>1. Init => 1..Len(out) = {}
      BY EmptySeq DEF Init
    <2> QED BY <2>1 DEF MedianSplitsRuns
  <1>2. IInv /\ MedianSplitsRuns /\ [Next]_vars => MedianSplitsRuns'
    <2> SUFFICES ASSUME IInv, MedianSplitsRuns, [Next]_vars PROVE MedianSplitsRuns'
      OBVIOUS
    <2> DEFINE Good(x) ==
          LET of == x.of
              L  == Len(of)
          IN  /\ \E r, s \in DOMAIN of :
                   /\ Ranked(of, r, (L + 1) \div 2) /\ Ranked(of, s, L \div 2 + 1)
                   /\ x.median2 = of[r].ns + of[s].ns
              /\ \E r, s \in DOMAIN of :
                   /\ Ranked(of, r, 1) /\ Ranked(of, s, L)
                   /\ x.lo = of[r].ns /\ x.hi = of[s].ns
    <2> USE DEF IInv
    <2>g. /\ \A k \in 1..Len(out) : opt.list \/ Good(out[k])
          /\ (\A k \in 1..Len(out') : opt'.list \/ Good(out'[k])) => MedianSplitsRuns'
      BY DEF MedianSplitsRuns, Ranked
    <2> HIDE DEF Good
    <2>1. CASE UNCHANGED <<opt, out>>
      BY <2>1, <2>g
    <2>2. CASE ParseArg \/ ArgsDone
      <3>1. out = <<>> /\ out' = out
        BY <2>2 DEF ParseArg, ArgsDone, Exit, Phases
      <3>2. 1..Len(out') = {}
        BY <3>1, EmptySeq
      <3> QED BY <3>2, <2>g
    <2>3. CASE List
      BY <2>3, <2>g DEF List
    <2>4. CASE Report
      <3>1. /\ pc = "report" /\ out' = Append(out, Row) /\ opt' = opt
            /\ Len(samples) = opt.count /\ opt.count \in Nat \ {0}
            /\ samples \in Seq([ns : Times, n : Nat])
        BY <2>4, RunnerAssumption DEF Report, Repetitions, Phases, TypeOK
      <3>2. /\ Len(out) \in Nat /\ Len(out') = Len(out) + 1
            /\ \A k \in 1..Len(out) : out'[k] = out[k]
            /\ out'[Len(out) + 1] = Row
        BY <3>1, AppendRow DEF TypeOK
      <3>3. Good(Row)
        <4>1. /\ Row.of = samples
              /\ Row.median2 = median_of([k \in 1..Len(samples) |-> samples[k].ns])
              /\ Row.lo = Least(Range([k \in 1..Len(samples) |-> samples[k].ns]))
              /\ Row.hi = Greatest(Range([k \in 1..Len(samples) |-> samples[k].ns]))
          BY DEF Row
        <4> DEFINE L == Len(samples)
                   v == [k \in 1..L |-> samples[k].ns]
        <4>2. L \in Nat \ {0}
          BY <3>1
        <4> HIDE DEF L
        <4>3. /\ \E r, s \in DOMAIN samples :
                   /\ Ranked(samples, r, (L + 1) \div 2) /\ Ranked(samples, s, L \div 2 + 1)
                   /\ median_of(v) = samples[r].ns + samples[s].ns
              /\ \E r, s \in DOMAIN samples :
                   /\ Ranked(samples, r, 1) /\ Ranked(samples, s, L)
                   /\ Least(Range(v)) = samples[r].ns /\ Greatest(Range(v)) = samples[s].ns
          BY <4>2, <3>1, RowMedian DEF L
        <4>4. /\ Row.median2 = median_of(v) /\ Row.lo = Least(Range(v))
              /\ Row.hi = Greatest(Range(v)) /\ Row.of = samples /\ L = Len(samples)
          BY <4>1 DEF L
        <4> HIDE DEF v
        <4> QED
          BY <4>3, <4>4 DEF Good
      <3>4. \A k \in 1..Len(out') : k \in 1..Len(out) \/ k = Len(out) + 1
        BY <3>2
      <3>5. \A k \in 1..Len(out') : opt.list \/ Good(out'[k])
        BY <2>g, <3>2, <3>3, <3>4
      <3> QED BY <3>1, <3>5, <2>g
    <2> QED
      BY <2>1, <2>2, <2>3, <2>4
         DEF Next, vars, row, bench_register, EnterMain, Start, Select, Count,
             Repeat, BodyEnds, RepeatsDone, Finish, Exited
  <1> QED
    BY <1>1, <1>2, Invariance, PTL DEF Spec
=============================================================================
