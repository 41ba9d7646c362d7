---------------------------- MODULE RowProofs ----------------------------
(***************************************************************************)
(* What reading a row once shows holds of every run of it: for any number   *)
(* of calls, any counts, and any interleaving of the body with what it      *)
(* starts.                                                                  *)
(***************************************************************************)
EXTENDS RowWords, TLAPS

USE DEF Off, Setup, Loop, After, Finally

\* The code a process runs.
CodeOf(p) == IF p = "main" THEN Body(row) ELSE Kid(row)

LEMMA Processes ==
  /\ Range(Kids) = {"k1", "k2", "k3"}
  /\ Procs = {"main", "k1", "k2", "k3"}
  /\ \A k \in DOMAIN Kids : Kids[k] \in {"k1", "k2", "k3"}
  BY DEF Procs, Kids, Range

\* A process at an instruction goes, by Target, where reading the row says.
LEMMA TargetIsOnPath ==
  ASSUME NEW p \in Procs, pc[p] # Off, NEW how \in Hows(Instr(p)) \cap {"next", "break", "return"}
  PROVE  /\ Target(p, how) \in Goes(CodeOf(p), pc[p])
         /\ Target(p, how) \in GoesBy(CodeOf(p), pc[p], how)
  <1> DEFINE code == CodeOf(p)
             at   == pc[p]
  <1>1. InstrAt(code, at) = Instr(p)
    BY DEF InstrAt, Instr, Code, CodeOf
  <1>2. \A part : From(p, part) = FirstOf(code, part) /\ Code(p, part) = code[part]
    BY DEF From, Code, CodeOf
  <1>3. Following(p) \in Nexts(code, at)
    <2>1. CASE at[2] < Len(code[at[1]])
      BY <1>2, <2>1 DEF Following, Nexts
    <2>2. CASE ~(at[2] < Len(code[at[1]]))
      BY <1>2, <2>2 DEF Following, Nexts
    <2> QED
      BY <2>1, <2>2
  <1>4. CASE how = "next"
    BY <1>1, <1>3, <1>4 DEF Target, Goes, GoesBy
  <1>5. CASE how = "break"
    BY <1>1, <1>2, <1>5 DEF Target, Goes, GoesBy
  <1>6. CASE how = "return"
    BY <1>1, <1>2, <1>6 DEF Target, Goes, GoesBy
  <1> QED
    BY <1>4, <1>5, <1>6

-----------------------------------------------------------------------------
\* The kinds of steps: a process goes on from its instruction, or stays; the
\* clock and the borrowed words stay, or change as the instruction says.
Went(p, how) ==
  /\ pc[p] # Off /\ how \in Hows(Instr(p))
  /\ pc'[p] = Target(p, how) /\ iter'[p] = Rounds(p, how)

Rested(p) == pc'[p] = pc[p] /\ iter'[p] = iter[p]

SameClock == UNCHANGED <<running, managed, Lent>>
ClockStep(i) ==
  /\ running' = Runs(i, running)
  /\ managed' = Manages(i, pc["main"][1], managed)
  /\ Lent' = Lends(i, Lent)

MainStep ==
  \/ Rested("main") /\ SameClock
  \/ (\E how : Went("main", how)) /\ ClockStep(Instr("main"))

KidStep(q) == pc'[q] \in {pc[q], Off, From(q, Loop)} \/ \E how : Went(q, how)

Stepped ==
  /\ MainStep /\ \A q \in Range(Kids) : KidStep(q)
  /\ DOMAIN pc' = Procs /\ DOMAIN iter' = Procs /\ DOMAIN flag' = Flags
  /\ running' \in BOOLEAN /\ managed' \in BOOLEAN
  /\ Sleepers'
  /\ UNCHANGED <<harness, aborted>>

Stopped ==
  /\ aborted' /\ \A p \in Procs : pc'[p] = Off
  /\ DOMAIN pc' = Procs /\ parked' = {}
  /\ UNCHANGED <<harness, iter, flag, clock>>

\* What reading the row says of the instruction a process is at.
LEMMA InstrReads ==
  ASSUME PathInv, NEW p \in Procs, pc[p] # Off
  PROVE  LET i == Instr(p) IN
         /\ Hows(i) \subseteq {"next", "break", "return"}
         /\ SparesWords(i) /\ WellTyped(i)
         /\ pc[p][2] \in DOMAIN Code(p, pc[p][1])
         /\ p # "main" => /\ i.op \notin {"pause", "resume", "shutdown"}
                          /\ i.op = "store" => i.f \notin Borrowed
  <1>1. ReadsWell(row)
    BY RowAssumption DEF PathInv, Shapes
  <1>2. /\ InstrAt(CodeOf(p), pc[p]) = Instr(p)
        /\ CodeOf(p)[pc[p][1]] = Code(p, pc[p][1])
    BY DEF InstrAt, Instr, Code, CodeOf
  <1>3. CASE p = "main"
    <2>1. PICK s \in Stands(Body(row)) : s.at = pc[p]
      BY <1>3 DEF PathInv, OnPath, Stand
    <2> QED
      BY <1>1, <1>2, <1>3, <2>1 DEF ReadsWell, Closed, BodyReadsWell, CodeOf
  <1>4. CASE p # "main"
    <2>1. PICK s \in Stands(Kid(row)) : s.at = pc[p]
      BY <1>4, Processes DEF PathInv, OnPath
    <2> QED
      BY <1>1, <1>2, <1>4, <2>1 DEF ReadsWell, Closed, KidReadsWell, CodeOf
  <1> QED
    BY <1>3, <1>4

\* An instruction that is not about the clock leaves it as it is.
LEMMA QuietClock ==
  ASSUME Shapes, SameClock, NEW i, i.op \notin {"pause", "resume", "store"}
  PROVE  ClockStep(i)
  <1>1. running' = Runs(i, running)
    BY DEF Shapes, SameClock, Runs
  <1>2. managed' = Manages(i, pc["main"][1], managed)
    BY DEF Shapes, SameClock, Manages
  <1>3. Lent' = Lends(i, Lent)
    BY DEF SameClock, Lends, Lent
  <1> QED
    BY <1>1, <1>2, <1>3 DEF ClockStep

\* What a move of one process changes.
LEMMA LeaveMoves ==
  ASSUME NEW p \in Procs, NEW how, Leave(p, how)
  PROVE  /\ DOMAIN pc' = Procs /\ DOMAIN iter' = Procs
         /\ pc'[p] = Target(p, how) /\ iter'[p] = Rounds(p, how)
         /\ \A q \in Procs \ {p} : Rested(q)
         /\ parked' = parked \ {p}
  BY DEF Leave, Move, Rested

LEMMA AtChanStays ==
  ASSUME NEW q, pc'[q] = pc[q], UNCHANGED row
  PROVE  AtChan(q)' = AtChan(q)
  BY DEF AtChan, Instr, Code, Body, Kid

\* Who was asleep and has not moved sleeps on.
LEMMA SleepersStay ==
  ASSUME PathInv, parked' \subseteq parked, UNCHANGED row,
         \A q \in parked' : pc'[q] = pc[q]
  PROVE  Sleepers'
  BY AtChanStays DEF PathInv, Sleepers, Procs

\* A step that moves one process.
LEMMA LeaveSteps ==
  ASSUME PathInv, NEW p \in Procs, pc[p] # Off, NEW how \in Hows(Instr(p)), Leave(p, how),
         IF p = "main" THEN ClockStep(Instr(p)) ELSE SameClock,
         DOMAIN flag' = Flags, running' \in BOOLEAN, managed' \in BOOLEAN,
         UNCHANGED <<harness, aborted>>
  PROVE  Stepped
  <1>1. Went(p, how)
    BY LeaveMoves DEF Went
  <1>2. \A q \in Procs \ {p} : Rested(q)
    BY LeaveMoves
  <1>3. MainStep
    BY <1>1, <1>2, Processes DEF MainStep
  <1>4. ASSUME NEW q \in Range(Kids) PROVE KidStep(q)
    BY <1>1, <1>2, Processes DEF KidStep, Rested
  <1>5. Sleepers'
    BY <1>2, LeaveMoves, SleepersStay DEF PathInv, Sleepers, Rested, harness
  <1> QED
    BY <1>3, <1>4, <1>5, LeaveMoves DEF Stepped

\* One that has nothing to do with the clock.
LEMMA QuietSteps ==
  ASSUME PathInv, NEW p \in Procs, pc[p] # Off, NEW how \in Hows(Instr(p)), Leave(p, how),
         Instr(p).op \notin {"pause", "resume", "store"},
         DOMAIN flag' = Flags, SameClock, UNCHANGED <<harness, aborted>>
  PROVE  Stepped
  <1>1. ClockStep(Instr(p))
    BY QuietClock DEF PathInv
  <1>2. running' \in BOOLEAN /\ managed' \in BOOLEAN
    BY DEF SameClock, PathInv, Shapes
  <1> QED
    BY <1>1, <1>2, LeaveSteps

LEMMA NextIsAHow == \A i : "next" \in Hows(i)
  BY DEF Hows

LEMMA AbortStops == Abort => Stopped
  BY DEF Abort, Stopped

-----------------------------------------------------------------------------
\* What each action does, in those terms.
LEMMA ClockActions ==
  ASSUME PathInv, NEW p \in Procs, bench_pause(p) \/ bench_resume(p)
  PROVE  Stepped
  <1>1. pc[p] # Off /\ Instr(p).op \in {"pause", "resume"} /\ Leave(p, "next")
    BY DEF bench_pause, bench_resume, At, Advance
  <1>2. p = "main"
    BY <1>1, InstrReads
  <1>3. running \in BOOLEAN /\ managed \in BOOLEAN
    BY DEF PathInv, Shapes
  <1>4. UNCHANGED <<flag, harness, aborted>> /\ DOMAIN flag' = Flags /\ Lent' = Lends(Instr(p), Lent)
    BY <1>1 DEF bench_pause, bench_resume, chans, outcome, harness, PathInv, Shapes, Lent, Lends
  <1>5. CASE bench_pause(p)
    <2>1. Instr(p).op = "pause" /\ running' = FALSE
          /\ managed' = (managed \/ pc["main"][1] = Setup)
      BY <1>2, <1>5 DEF bench_pause, At
    <2>2. ClockStep(Instr(p))
      BY <1>4, <2>1 DEF ClockStep, Runs, Manages
    <2> QED
      BY <1>1, <1>2, <1>3, <1>4, <2>1, <2>2, NextIsAHow, LeaveSteps
  <1>6. CASE bench_resume(p)
    <2>1. Instr(p).op = "resume" /\ running' = TRUE /\ managed' = managed
      BY <1>6 DEF bench_resume, At, outcome
    <2>2. ClockStep(Instr(p))
      BY <1>3, <1>4, <2>1 DEF ClockStep, Runs, Manages
    <2> QED
      BY <1>1, <1>2, <1>3, <1>4, <2>1, <2>2, NextIsAHow, LeaveSteps
  <1> QED
    BY <1>5, <1>6

\* The actions that leave the shared words alone and take the next instruction.
LEMMA PlainActions ==
  ASSUME PathInv, NEW p \in Procs,
         \/ AllocateOnce(p) \/ arena_reset(p) \/ Release(p) \/ Call(p)
         \/ chan_close(p) \/ AwaitOthers(p)
  PROVE  Stepped
  <1>1. /\ pc[p] # Off /\ Leave(p, "next") /\ UNCHANGED <<flag, clock, harness, aborted>>
        /\ Instr(p).op \notin {"pause", "resume", "store"}
    BY DEF AllocateOnce, arena_reset, Release, Call, chan_close, AwaitOthers, At, Advance,
           chans, outcome, harness
  <1>2. DOMAIN flag' = Flags /\ SameClock
    BY <1>1 DEF PathInv, Shapes, SameClock, Lent, clock
  <1> QED
    BY <1>1, <1>2, NextIsAHow, QuietSteps

LEMMA AllocateSteps ==
  ASSUME PathInv, NEW p \in Procs, Allocate(p)
  PROVE  Stepped \/ Stopped
  <1> DEFINE i == Instr(p)
  <1>1. pc[p] # Off /\ i.op = "make"
    BY DEF Allocate, At
  <1>2. i.rs \in Seq(Pointers)
    BY <1>1, InstrReads DEF SparesWords
  <1>3. Borrowed \cap Pointers = {} /\ Borrowed \subseteq Flags
    BY DEF Borrowed, Pointers, Statics, InArena, Chans, Flags
  <1>4. ASSUME NEW made \in SUBSET Pointers, Fresh(made), UNCHANGED clock
        PROVE  DOMAIN flag' = Flags /\ SameClock
    BY <1>3, <1>4 DEF Fresh, SameClock, Lent, clock
  <1>5. Range(i.rs) \subseteq Pointers
    BY <1>2 DEF Range
  <1>6. CASE Fresh(Range(i.rs)) /\ Advance(p) /\ UNCHANGED <<harness, got, clock, outcome>>
    BY <1>1, <1>4, <1>5, <1>6, NextIsAHow, QuietSteps DEF Advance, outcome
  <1>7. CASE /\ i.onfail \notin {"never", "abort"}
             /\ \E made \in SomeOf(i) : Fresh(made)
             /\ Leave(p, i.onfail) /\ UNCHANGED <<harness, got, clock, aborted>>
    <2>1. PICK made \in SomeOf(i) : Fresh(made)
      BY <1>7
    <2>2. ASSUME NEW k \in 0..Len(i.rs) - 1 PROVE Range(SubSeq(i.rs, 1, k)) \subseteq Pointers
      BY <1>2 DEF Range
    <2>3. made \subseteq Pointers
      BY <1>5, <2>1, <2>2 DEF SomeOf
    <2>4. i.onfail \in Hows(i)
      BY <1>1, <1>7 DEF Hows
    <2> QED
      BY <1>1, <1>4, <1>7, <2>1, <2>3, <2>4, QuietSteps
  <1>8. CASE Abort
    BY <1>8, AbortStops
  <1> QED
    BY <1>6, <1>7, <1>8 DEF Allocate

LEMMA BoxSteps ==
  ASSUME PathInv, NEW p \in Procs, Boxes(p)
  PROVE  Stepped
  <1>1. /\ pc[p] # Off /\ Instr(p).op \in {"boxget", "retire", "drain", "freepool"}
        /\ UNCHANGED <<harness, clock, aborted>>
    BY DEF Boxes, At
  <1>2. PICK how \in {"next", "break"} : Leave(p, how) /\ (how = "break" => Instr(p).op = "boxget")
    BY DEF Boxes, At, Advance
  <1>3. how \in Hows(Instr(p))
    BY <1>2 DEF Hows
  <1>4. DOMAIN flag' = Flags /\ \A f \in Flags \ {"pool", "retired"} : flag'[f] = flag[f]
    BY DEF Boxes, PathInv, Shapes
  <1>5. SameClock
    BY <1>1, <1>4 DEF SameClock, Lent, clock, Borrowed, Flags
  <1> QED
    BY <1>1, <1>2, <1>3, <1>4, <1>5, QuietSteps

\* What follows a select is one of its ways on.
LEMMA ChosenIsAHow ==
  ASSUME NEW p, AtChan(p), NEW k
  PROVE  /\ pc[p] # Off /\ Chosen(p, k) \in Hows(Instr(p))
         /\ Instr(p).op \in {"select", "sendnext"}
  BY DEF AtChan, Chosen, Hows

LEMMA BufferedSteps ==
  ASSUME PathInv, NEW p \in Procs, Buffered(p)
  PROVE  Stepped
  <1>1. PICK k : Leave(p, Chosen(p, k))
    BY DEF Buffered
  <1>2. AtChan(p) /\ UNCHANGED <<harness, flag, clock, aborted>>
    BY DEF Buffered, outcome
  <1>3. DOMAIN flag' = Flags /\ SameClock
    BY <1>2 DEF PathInv, Shapes, SameClock, Lent, clock
  <1> QED
    BY <1>1, <1>2, <1>3, ChosenIsAHow, QuietSteps

\* Two processes move at once when they meet on a channel.
LEMMA RendezvousSteps ==
  ASSUME PathInv, NEW p \in Procs, Rendezvous(p)
  PROVE  Stepped
  <1>1. PICK k \in Ready(p) : \E m \in Partners(p, Alts(p)[k]) :
           Move([q \in {p, m[1]} |-> Chosen(q, IF q = p THEN k ELSE m[2])])
    BY DEF Rendezvous
  <1>2. PICK m \in Partners(p, Alts(p)[k]) :
           Move([q \in {p, m[1]} |-> Chosen(q, IF q = p THEN k ELSE m[2])])
    BY <1>1
  <1>3. m[1] \in Procs /\ m[1] \in parked /\ m[2] \in DOMAIN Alts(m[1])
        /\ Alts(m[1])[m[2]] = Opposite(Alts(p)[k])
    BY <1>2 DEF Partners
  <1> DEFINE q  == m[1]
             hp == Chosen(p, k)
             hq == Chosen(q, m[2])
  <1>4. p # q /\ AtChan(p) /\ AtChan(q)
    BY <1>2, <1>3 DEF Rendezvous, Partners, PathInv, Sleepers
  <1>5. UNCHANGED <<flag, clock, harness, aborted>> /\ DOMAIN flag' = Flags /\ SameClock
    BY DEF Rendezvous, outcome, PathInv, Shapes, SameClock, Lent, clock
  <1>6. /\ DOMAIN pc' = Procs /\ DOMAIN iter' = Procs /\ parked' = parked \ {p, q}
        /\ pc'[p] = Target(p, hp) /\ iter'[p] = Rounds(p, hp)
        /\ pc'[q] = Target(q, hq) /\ iter'[q] = Rounds(q, hq)
        /\ \A r \in Procs \ {p, q} : Rested(r)
    BY <1>2, <1>3, <1>4 DEF Move, Rested
  <1>7. Went(p, hp) /\ Went(q, hq)
    <2> HIDE DEF q
    <2> QED
      BY <1>4, <1>6, ChosenIsAHow DEF Went
  <1> HIDE DEF q, hp, hq
  <1>8. ASSUME NEW r \in {p, q} PROVE ClockStep(Instr(r))
    BY <1>4, <1>5, ChosenIsAHow, QuietClock DEF PathInv
  <1>9. MainStep
    BY <1>5, <1>6, <1>7, <1>8, Processes DEF MainStep
  <1>10. ASSUME NEW r \in Range(Kids) PROVE KidStep(r)
    BY <1>6, <1>7, Processes DEF KidStep, Rested
  <1>11. Sleepers'
    BY <1>5, <1>6, SleepersStay DEF PathInv, Sleepers, Rested, harness
  <1>12. running' \in BOOLEAN /\ managed' \in BOOLEAN
    BY <1>5 DEF SameClock, PathInv, Shapes
  <1> QED
    BY <1>5, <1>6, <1>9, <1>10, <1>11, <1>12 DEF Stepped

LEMMA NothingReadySteps ==
  ASSUME PathInv, NEW p \in Procs, NothingReady(p)
  PROVE  Stepped
  <1>1. AtChan(p) /\ UNCHANGED <<harness, flag, clock, aborted>>
    BY DEF NothingReady, outcome
  <1>2. DOMAIN flag' = Flags /\ SameClock /\ running' \in BOOLEAN /\ managed' \in BOOLEAN
    BY <1>1 DEF PathInv, Shapes, SameClock, Lent, clock
  <1>3. pc[p] # Off /\ Instr(p).op \in {"select", "sendnext"}
    BY <1>1 DEF AtChan
  <1>4. CASE Leave(p, "next")
    BY <1>1, <1>2, <1>3, <1>4, NextIsAHow, QuietSteps
  <1>5. CASE parked' = parked \cup {p} /\ UNCHANGED <<pc, iter>>
    <2>1. MainStep /\ \A q \in Range(Kids) : KidStep(q)
      BY <1>2, <1>5 DEF MainStep, KidStep, Rested
    <2>2. Sleepers'
      BY <1>1, <1>5, AtChanStays DEF PathInv, Sleepers, harness
    <2> QED
      BY <1>1, <1>2, <1>5, <2>1, <2>2 DEF Stepped, PathInv, Shapes
  <1> QED
    BY <1>4, <1>5 DEF NothingReady, Advance

\* The first idle goroutine is one of them.
LEMMA LeastIdle ==
  ASSUME Idle # {}
  PROVE  Kids[Min(Idle)] \in Range(Kids) /\ pc[Kids[Min(Idle)]] = Off
  <1>1. Idle \subseteq {1, 2, 3}
    BY DEF Idle, Kids
  <1>2. \E k \in Idle : \A j \in Idle : k <= j
    <2>1. CASE 1 \in Idle
      BY <1>1, <2>1
    <2>2. CASE 1 \notin Idle /\ 2 \in Idle
      BY <1>1, <2>2
    <2>3. CASE Idle = {3}
      BY <2>3
    <2> QED
      BY <1>1, <2>1, <2>2, <2>3
  <1>3. Min(Idle) \in Idle
    BY <1>2 DEF Min
  <1> QED
    BY <1>3 DEF Idle, Range

LEMMA StartSteps ==
  ASSUME PathInv, NEW p \in Procs, Start(p)
  PROVE  Stepped
  <1> DEFINE k == Kids[Min(Idle)]
  <1>1. pc[p] # Off /\ Instr(p).op = "go" /\ UNCHANGED <<harness, flag, clock, aborted>>
    BY DEF Start, At
  <1>2. DOMAIN flag' = Flags /\ SameClock /\ running' \in BOOLEAN /\ managed' \in BOOLEAN
    BY <1>1 DEF PathInv, Shapes, SameClock, Lent, clock
  <1>3. CASE /\ Idle # {}
             /\ pc' = [pc EXCEPT ![k] = From(k, Loop), ![p] = Following(p)]
             /\ iter' = [iter EXCEPT ![k] = 0, ![p] = Rounds(p, "next")]
             /\ UNCHANGED parked
    <2>1. k \in Range(Kids) /\ pc[k] = Off /\ k \in Procs /\ k # p
      BY <1>1, <1>3, LeastIdle DEF Procs
    <2> HIDE DEF k
    <2>2. /\ DOMAIN pc' = Procs /\ DOMAIN iter' = Procs
          /\ pc'[k] = From(k, Loop)
          /\ pc'[p] = Target(p, "next") /\ iter'[p] = Rounds(p, "next")
          /\ \A q \in Procs \ {p, k} : Rested(q)
      BY <1>3, <2>1 DEF PathInv, Shapes, Rested, Target
    <2>3. Went(p, "next")
      BY <1>1, <2>2, NextIsAHow DEF Went
    <2>4. ClockStep(Instr(p))
      BY <1>1, <1>2, QuietClock DEF PathInv
    <2>5. MainStep
      BY <1>2, <2>1, <2>2, <2>3, <2>4, Processes DEF MainStep
    <2>6. ASSUME NEW q \in Range(Kids) PROVE KidStep(q)
      BY <2>1, <2>2, <2>3, Processes DEF KidStep, Rested
    <2>7. k \notin parked /\ p \notin parked
      BY <1>1, <2>1 DEF PathInv, Sleepers, AtChan
    <2>8. Sleepers'
      BY <1>1, <1>3, <2>2, <2>7, SleepersStay DEF PathInv, Sleepers, Rested, harness
    <2> QED
      BY <1>1, <1>2, <2>2, <2>5, <2>6, <2>8 DEF Stepped
  <1>4. CASE Instr(p).onfail # "never" /\ Leave(p, Instr(p).onfail)
    <2>1. Instr(p).onfail \in Hows(Instr(p))
      BY <1>1, <1>4 DEF Hows
    <2> QED
      BY <1>1, <1>2, <1>4, <2>1, QuietSteps
  <1> QED
    BY <1>3, <1>4 DEF Start

LEMMA EndRuntimeSteps ==
  ASSUME PathInv, NEW p \in Procs, EndRuntime(p)
  PROVE  Stepped
  <1>1. pc[p] # Off /\ Instr(p).op = "shutdown" /\ UNCHANGED <<harness, flag, clock, aborted>>
    BY DEF EndRuntime, At, outcome
  <1>2. DOMAIN flag' = Flags /\ SameClock /\ running' \in BOOLEAN /\ managed' \in BOOLEAN
    BY <1>1 DEF PathInv, Shapes, SameClock, Lent, clock
  <1>3. p = "main"
    BY <1>1, InstrReads
  <1>4. /\ DOMAIN pc' = Procs /\ DOMAIN iter' = Procs /\ parked' = {}
        /\ pc'[p] = Target(p, "next") /\ iter'[p] = Rounds(p, "next")
        /\ \A q \in Procs \ {p} : pc'[q] = Off
    BY DEF EndRuntime, PathInv, Shapes, Target
  <1>5. Went(p, "next")
    BY <1>1, <1>4, NextIsAHow DEF Went
  <1>6. ClockStep(Instr(p))
    BY <1>1, <1>2, QuietClock DEF PathInv
  <1>7. MainStep /\ \A q \in Range(Kids) : KidStep(q)
    BY <1>3, <1>4, <1>5, <1>6, Processes DEF MainStep, KidStep
  <1>8. Sleepers'
    BY <1>4 DEF Sleepers
  <1> QED
    BY <1>1, <1>2, <1>4, <1>7, <1>8 DEF Stepped

\* An operation on a shared word, and the only one that changes a borrowed word.
LEMMA WordSteps ==
  ASSUME PathInv, NEW p \in Procs, Word(p)
  PROVE  Stepped
  <1> DEFINE i == Instr(p)
  <1>1. pc[p] # Off /\ UNCHANGED <<harness, clock, aborted>>
    BY DEF Word, outcome
  <1>2. running' \in BOOLEAN /\ managed' \in BOOLEAN /\ UNCHANGED <<running, managed>>
    BY <1>1 DEF PathInv, Shapes, clock
  <1>3. Borrowed \subseteq Flags
    BY DEF Borrowed, Flags
  <1>4. CASE i.op = "store" /\ flag' = [flag EXCEPT ![i.f] = i.v] /\ Leave(p, "next")
    <2>1. DOMAIN flag' = Flags
      BY <1>4 DEF PathInv, Shapes
    <2>2. CASE p = "main"
      <3>1. Lent' = Lends(i, Lent)
        BY <1>3, <1>4 DEF Lent, Lends, PathInv, Shapes
      <3>2. ClockStep(i)
        BY <1>2, <1>4, <3>1 DEF ClockStep, Runs, Manages
      <3> QED
        BY <1>1, <1>2, <1>4, <2>1, <2>2, <3>2, NextIsAHow, LeaveSteps
    <2>3. CASE p # "main"
      <3>1. i.f \notin Borrowed
        BY <1>1, <1>4, <2>3, InstrReads
      <3>2. SameClock
        BY <1>2, <1>3, <1>4, <3>1 DEF SameClock, Lent, PathInv, Shapes
      <3> QED
        BY <1>1, <1>2, <1>4, <2>1, <2>3, <3>2, NextIsAHow, LeaveSteps
    <2> QED
      BY <2>2, <2>3
  <1>5. CASE /\ i.op \in {"add", "shift", "cas"} /\ Leave(p, "next")
             /\ \E v : flag' = [flag EXCEPT ![i.f] = v]
    <2>1. i.f \notin Borrowed
      BY <1>1, <1>5, InstrReads DEF SparesWords
    <2>2. DOMAIN flag' = Flags /\ SameClock
      BY <1>2, <1>3, <1>5, <2>1 DEF SameClock, Lent, PathInv, Shapes
    <2> QED
      BY <1>1, <1>5, <2>2, NextIsAHow, QuietSteps
  <1>6. CASE i.op = "load" /\ flag' = [flag EXCEPT ![i.local] = flag[i.f]] /\ Leave(p, "next")
    <2>1. i.local \notin Borrowed
      BY <1>1, <1>6, InstrReads DEF SparesWords
    <2>2. DOMAIN flag' = Flags /\ SameClock
      BY <1>2, <1>3, <1>6, <2>1 DEF SameClock, Lent, PathInv, Shapes
    <2> QED
      BY <1>1, <1>6, <2>2, NextIsAHow, QuietSteps
  <1>7. CASE /\ i.op \in {"await", "reach", "breakif", "breakdone"} /\ UNCHANGED flag
             /\ \E how \in Hows(i) : Leave(p, how)
    <2>1. DOMAIN flag' = Flags /\ SameClock
      BY <1>2, <1>7 DEF SameClock, Lent, PathInv, Shapes
    <2> QED
      BY <1>1, <1>7, <2>1, QuietSteps
  <1>8. ASSUME i.op \in {"breakif", "breakdone"} PROVE {"next", "break"} \subseteq Hows(i)
    BY <1>8 DEF Hows
  <1> QED
    <2> HIDE DEF i
    <2>1. \/ i.op = "store" /\ flag' = [flag EXCEPT ![i.f] = i.v] /\ Leave(p, "next")
          \/ i.op = "load" /\ flag' = [flag EXCEPT ![i.local] = flag[i.f]] /\ Leave(p, "next")
          \/ i.op = "add" /\ flag' = [flag EXCEPT ![i.f] = @ + 1] /\ Leave(p, "next")
          \/ /\ i.op = "shift" /\ Leave(p, "next")
             /\ flag' = [flag EXCEPT ![i.f] = IF @ = i.from THEN i.v ELSE @]
          \/ /\ i.op = "cas" /\ Leave(p, "next")
             /\ flag' = [flag EXCEPT ![i.f] = IF @ = iter[p] THEN @ + 1 ELSE @]
          \/ i.op = "await" /\ Leave(p, "next") /\ UNCHANGED flag
          \/ i.op = "reach" /\ Leave(p, "next") /\ UNCHANGED flag
          \/ i.op = "breakif" /\ UNCHANGED flag /\ (Leave(p, "break") \/ Leave(p, "next"))
          \/ i.op = "breakdone" /\ UNCHANGED flag /\ (Leave(p, "break") \/ Leave(p, "next"))
      BY DEF Word, Advance, i
    <2> QED
      BY <1>4, <1>5, <1>6, <1>7, <1>8, <2>1, NextIsAHow

\* A step of a process is one of those, or the end of everything.
LEMMA StepSteps ==
  ASSUME PathInv, NEW p \in Procs, Step(p)
  PROVE  Stepped \/ Stopped
  <1>1. CASE GiveUp(p)
    BY <1>1, AbortStops DEF GiveUp
  <1>2. CASE ~GiveUp(p)
    BY <1>2, ClockActions, PlainActions, AllocateSteps, BoxSteps, BufferedSteps, RendezvousSteps,
       NothingReadySteps, StartSteps, EndRuntimeSteps, WordSteps DEF Step
  <1> QED
    BY <1>1, <1>2

-----------------------------------------------------------------------------
\* The body goes from one stand to the next.
LEMMA MainStaysOnPath ==
  ASSUME PathInv, MainStep, UNCHANGED <<row, aborted>>
  PROVE  /\ (pc["main"] # Off => Stand(pc["main"], running, managed, Lent) \in Stands(Body(row)))'
         /\ (pc["main"] = Off /\ ~aborted => \A f \in Borrowed : flag[f] = 0)'
  <1> DEFINE code == Body(row)
             s    == Stand(pc["main"], running, managed, Lent)
             t    == Stand(pc'["main"], running', managed', Lent')
  <1>1. Closed(code) /\ BodyReadsWell(code)
    BY RowAssumption DEF PathInv, Shapes, ReadsWell
  <1>2. CASE Rested("main") /\ SameClock
    <2>1. \A f \in Borrowed : Lent'[f] = Lent[f]
      BY <1>2 DEF SameClock
    <2>2. \A f \in Borrowed : flag'[f] = flag[f]
      BY <2>1 DEF Lent
    <2> QED
      BY <1>2, <2>2 DEF PathInv, OnPath, Rested, SameClock
  <1>3. ASSUME NEW how, Went("main", how), ClockStep(Instr("main"))
        PROVE  /\ t \in Stands(code)
               /\ pc'["main"] = Off => \A f \in Borrowed : flag'[f] = 0
    <2>1. s \in Stands(code) /\ s.at = pc["main"] /\ s.at # Off
      BY <1>3 DEF PathInv, OnPath, Went, Stand
    <2>2. Instr("main") = InstrAt(code, s.at)
      BY <2>1 DEF InstrAt, Instr, Code
    <2>3. Hows(Instr("main")) \subseteq {"next", "break", "return"}
      BY <1>3, InstrReads, Processes DEF Went
    <2>4. pc'["main"] \in Goes(code, s.at)
      BY <1>3, <2>1, <2>3, TargetIsOnPath, Processes DEF Went, CodeOf
    <2>5. t \in Steps(code, s)
      <3>1. /\ running' = Runs(InstrAt(code, s.at), s.running)
            /\ managed' = Manages(InstrAt(code, s.at), s.at[1], s.managed)
            /\ Lent' = Lends(InstrAt(code, s.at), s.lent)
        BY <1>3, <2>2 DEF ClockStep, Stand
      <3> HIDE DEF code, s
      <3> QED
        BY <2>4, <3>1 DEF Steps
    <2>6. t \in Stands(code)
      BY <1>1, <2>1, <2>5 DEF Closed
    <2>7. ASSUME pc'["main"] = Off PROVE Lent' = [f \in Borrowed |-> 0]
      <3>1. t.at = Off /\ t.lent = Lent'
        BY <2>7 DEF Stand
      <3> HIDE DEF t
      <3> QED
        BY <1>1, <2>6, <3>1 DEF BodyReadsWell
    <2>8. ASSUME Lent' = [f \in Borrowed |-> 0] PROVE \A f \in Borrowed : flag'[f] = 0
      <3>1. \A f \in Borrowed : Lent'[f] = 0
        BY <2>8
      <3> QED
        BY <3>1 DEF Lent
    <2> QED
      BY <2>6, <2>7, <2>8
  <1>4. Body(row') = code
    OBVIOUS
  <1> QED
    BY <1>2, <1>3, <1>4 DEF MainStep, Stand

\* And so does what it starts.
LEMMA KidStaysOnPath ==
  ASSUME PathInv, NEW q \in Range(Kids), KidStep(q), UNCHANGED row, pc'[q] # Off
  PROVE  (\E s \in Stands(Kid(row)) : s.at = pc[q])'
  <1> DEFINE code == Kid(row)
  <1>1. Closed(code)
    BY RowAssumption DEF PathInv, Shapes, ReadsWell
  <1>2. q \in Procs /\ q # "main"
    BY Processes
  <1>3. CASE pc'[q] = pc[q]
    BY <1>3 DEF PathInv, OnPath
  <1>4. CASE pc'[q] = From(q, Loop)
    <2>1. code[Setup] = << >>
      BY DEF Kid
    <2>2. {k \in Loop..Finally : code[k] # << >>} = {k \in Setup..Finally : code[k] # << >>}
      BY <2>1
    <2>3. From(q, Loop) = FirstOf(code, Setup)
      BY <1>2, <2>2 DEF From, FirstOf
    <2> QED
      BY <1>1, <1>4, <2>3 DEF Closed, Entry, Stand
  <1>5. ASSUME NEW how, Went(q, how) PROVE \E s \in Stands(code) : s.at = pc'[q]
    <2>1. PICK s \in Stands(code) : s.at = pc[q]
      BY <1>5 DEF PathInv, OnPath, Went
    <2>2. Hows(Instr(q)) \subseteq {"next", "break", "return"}
      BY <1>2, <1>5, InstrReads DEF Went
    <2>3. pc'[q] \in Goes(code, s.at)
      BY <1>2, <1>5, <2>1, <2>2, TargetIsOnPath DEF Went, CodeOf
    <2> DEFINE i == InstrAt(code, s.at)
               t == Stand(pc'[q], Runs(i, s.running), Manages(i, s.at[1], s.managed), Lends(i, s.lent))
    <2>4. t \in Steps(code, s) /\ t.at = pc'[q]
      <3>1. t \in Steps(code, s)
        BY <2>3 DEF Steps
      <3> QED
        BY <3>1 DEF Stand
    <2> HIDE DEF t
    <2> QED
      BY <1>1, <1>5, <2>1, <2>4 DEF Closed, Went
  <1> QED
    BY <1>3, <1>4, <1>5 DEF KidStep

\* A row that reads well keeps to what was read.
LEMMA PathInductive == PathInv /\ [Next]_vars => PathInv'
  <1> SUFFICES ASSUME PathInv, [Next]_vars PROVE PathInv'
    OBVIOUS
  <1>1. ReadsWell(row)
    BY RowAssumption DEF PathInv, Shapes
  <1>2. row' = row
    <2>1. Stepped \/ Stopped => row' = row
      BY DEF Stepped, Stopped, harness
    <2> QED
      BY <2>1, StepSteps DEF Next, run_measured, vars
  <1>3. ASSUME row' = row PROVE (\E k \in DOMAIN Table : row = Table[k])'
    BY <1>3 DEF PathInv, Shapes
  <1>4. CASE run_measured
    <2>1. /\ pc' = [p \in Procs |-> IF p = "main" THEN FirstOf(Body(row), Setup) ELSE Off]
          /\ DOMAIN iter' = Procs /\ parked' = {}
          /\ running' = TRUE /\ managed' = FALSE /\ UNCHANGED <<flag, aborted>> /\ ~aborted
          /\ pc["main"] = Off
      BY <1>4 DEF run_measured, From
    <2>2. \A f \in Borrowed : flag[f] = 0
      BY <2>1 DEF PathInv, OnPath
    <2>3. Lent' = [f \in Borrowed |-> 0]
      BY <2>1, <2>2 DEF Lent
    <2>4. Stand(pc["main"], running, managed, Lent)' \in Stands(Body(row))
      BY <1>1, <2>1, <2>3, Processes DEF ReadsWell, Closed, Entry, Stand
    <2>5. OnPath'
      BY <1>2, <2>1, <2>2, <2>4, Processes DEF OnPath
    <2> QED
      BY <1>2, <1>3, <2>1, <2>5 DEF PathInv, Shapes, Sleepers
  <1>5. CASE Stepped
    <2>1. (pc["main"] # Off => Stand(pc["main"], running, managed, Lent) \in Stands(Body(row)))'
          /\ (pc["main"] = Off /\ ~aborted => \A f \in Borrowed : flag[f] = 0)'
      BY <1>5, MainStaysOnPath DEF Stepped, harness
    <2>2. ASSUME NEW q \in Range(Kids), (pc[q] # Off)'
          PROVE  (\E s \in Stands(Kid(row)) : s.at = pc[q])'
      BY <1>5, <2>2, KidStaysOnPath DEF Stepped, harness
    <2> QED
      BY <1>2, <1>3, <1>5, <2>1, <2>2 DEF Stepped, PathInv, Shapes, OnPath
  <1>6. CASE Stopped
    BY <1>2, <1>3, <1>6, Processes DEF Stopped, PathInv, Shapes, OnPath, Sleepers, clock
  <1>7. CASE UNCHANGED vars
    BY <1>2, <1>3, <1>7, AtChanStays DEF vars, clock, harness, outcome, PathInv, Shapes, OnPath, Sleepers, Lent
  <1> QED
    BY <1>4, <1>5, <1>6, <1>7, StepSteps DEF Next

LEMMA PathInit == Init => PathInv
  <1> SUFFICES ASSUME Init PROVE PathInv
    OBVIOUS
  <1>1. Shapes
    BY DEF Init, Shapes
  <1>2. OnPath
    BY Processes DEF Init, OnPath, Borrowed, Flags
  <1> QED
    BY <1>1, <1>2 DEF Init, PathInv, Sleepers

THEOREM Paths == Spec => []PathInv
  BY PathInit, PathInductive, PTL DEF Spec

\* What the clock of a row counts is what its name says, whatever b->n is, in
\* every call, and however its goroutines interleave with its body: bench_pause
\* and bench_resume around what prepares it keep that out, on every path.
THEOREM ClockCountsTheLoop == Spec => []TimedExactly
  <1>1. PathInv => TimedExactly
    <2> SUFFICES ASSUME PathInv, pc["main"] # Off, Instr("main").op \notin {"pause", "resume"}
                 PROVE  IF pc["main"][1] = Loop THEN running = ~Instr("main").prep
                                                ELSE managed => ~running
      BY DEF TimedExactly
    <2>1. BodyReadsWell(Body(row))
      BY RowAssumption DEF PathInv, Shapes, ReadsWell
    <2> DEFINE s == Stand(pc["main"], running, managed, Lent)
    <2>2. /\ s \in Stands(Body(row)) /\ s.at = pc["main"]
          /\ s.running = running /\ s.managed = managed
      BY DEF PathInv, OnPath, Stand
    <2>3. InstrAt(Body(row), s.at) = Instr("main")
      BY <2>2 DEF InstrAt, Instr, Code
    <2> HIDE DEF s
    <2>4. RightClock(Instr("main"), pc["main"][1], running, managed)
      BY <2>1, <2>2, <2>3 DEF BodyReadsWell
    <2> QED
      BY <2>4 DEF RightClock
  <1> QED
    BY <1>1, Paths, PTL

\* GOMAXPROCS and the current stack are what they were when a body returns,
\* whatever failed in it and wherever it returned.
THEOREM BorrowedIsPutBack == Spec => []WordsPutBack
  <1>1. PathInv => WordsPutBack
    BY DEF PathInv, OnPath, WordsPutBack, Returned, Borrowed
  <1> QED
    BY <1>1, Paths, PTL

-----------------------------------------------------------------------------
\* The parts behind one are behind it.
LEMMA FirstOfIsLater ==
  ASSUME NEW code, NEW part \in {After, Finally, Finally + 1}
  PROVE  FirstOf(code, part)[1] \in part..Off[1]
  <1> DEFINE parts == {k \in part..Finally : code[k] # <<>>}
  <1>1. CASE parts = {}
    BY <1>1 DEF FirstOf
  <1>2. CASE parts # {}
    <2>1. parts \subseteq {After, Finally} /\ \A k \in parts : k >= part
      OBVIOUS
    <2>2. \E k \in parts : \A j \in parts : k <= j
      <3> HIDE DEF parts
      <3>1. CASE After \in parts
        BY <2>1, <3>1
      <3>2. CASE parts = {Finally}
        BY <3>2
      <3> QED
        BY <1>2, <2>1, <3>1, <3>2
    <2>3. Min(parts) \in parts
      BY <2>2 DEF Min
    <2>4. FirstOf(code, part) = <<Min(parts), 1>>
      BY <1>2 DEF FirstOf
    <2>5. FirstOf(code, part)[1] = Min(parts)
      BY <2>4
    <2>6. Min(parts) \in part..Off[1]
      BY <2>1, <2>3
    <2> QED
      BY <2>5, <2>6
  <1> QED
    BY <1>1, <1>2

\* The body never goes back to an earlier part.
LEMMA MainGoesOn ==
  ASSUME PathInv, NEW how, Went("main", how)
  PROVE  LET at == pc["main"] IN
         /\ at[1] \in Setup..Finally
         /\ at[2] \in 1..Len(Body(row)[at[1]])
         /\ pc'["main"][1] \in at[1]..Off[1]
  <1> DEFINE code == Body(row)
             s    == Stand(pc["main"], running, managed, Lent)
             i    == InstrAt(code, s.at)
             t    == Stand(pc'["main"], Runs(i, s.running), Manages(i, s.at[1], s.managed),
                           Lends(i, s.lent))
  <1>1. Closed(code)
    BY RowAssumption DEF PathInv, Shapes, ReadsWell
  <1>2. s \in Stands(code) /\ s.at = pc["main"] /\ s.at # Off
    BY DEF PathInv, OnPath, Went, Stand
  <1>3. pc'["main"] \in Goes(code, s.at)
    BY <1>2, InstrReads, TargetIsOnPath, Processes DEF Went, CodeOf
  <1>4. t \in Steps(code, s) /\ t.at = pc'["main"]
    <2>1. t \in Steps(code, s)
      BY <1>3 DEF Steps
    <2> QED
      BY <2>1 DEF Stand
  <1> HIDE DEF t, s
  <1> QED
    BY <1>1, <1>2, <1>4 DEF Closed

LEMMA MainStaysCounted ==
  ASSUME PathInv, Counted, MainStep, UNCHANGED <<row, n>>
  PROVE  Counted'
  <1>1. CASE Rested("main")
    BY <1>1 DEF Rested, Counted
  <1>2. ASSUME NEW how, Went("main", how) PROVE Counted'
    <2> DEFINE at  == pc["main"]
               end == <<Loop, Len(Body(row)[Loop])>>
               to  == pc'["main"]
    <2>1. at # Off /\ at[1] \in Setup..Finally /\ at[2] \in 1..Len(Body(row)[at[1]])
          /\ to[1] \in at[1]..Off[1]
      BY <1>2, MainGoesOn DEF Went
    <2>2. n \in Nat /\ iter["main"] \in Nat
      BY DEF Counted
    <2>3. CASE how = "next" /\ at = end
      <3>1. iter'["main"] = iter["main"] + 1
        BY <1>2, <2>3 DEF Went, Rounds, Code
      <3>2. to = IF Again("main") THEN <<Loop, 1>> ELSE FirstOf(Body(row), After)
        <4>1. at[1] = Loop /\ at[2] = Len(Body(row)[Loop])
          BY <2>3
        <4>2. ~(at[2] < Len(Body(row)[Loop]))
          BY <2>1, <4>1
        <4>3. to = Following("main")
          BY <1>2, <2>3 DEF Went, Target
        <4> HIDE DEF at
        <4>4. Following("main") = IF Again("main") THEN <<Loop, 1>> ELSE From("main", at[1] + 1)
          BY <4>1, <4>2 DEF Following, Code, at
        <4> QED
          BY <4>1, <4>3, <4>4 DEF From
      <3>3. FirstOf(Body(row), After)[1] \in After..Off[1]
        BY FirstOfIsLater
      <3>4. ASSUME ~row.endless PROVE iter["main"] < n
        BY <2>1, <2>3, <3>4 DEF Counted
      <3>5. ASSUME ~row.endless, to[1] <= Loop PROVE iter["main"] + 1 < n
        <4>1. CASE Again("main")
          BY <3>5, <4>1 DEF Again
        <4>2. CASE ~Again("main")
          BY <3>2, <3>3, <3>5, <4>2
        <4> QED
          BY <4>1, <4>2
      <3> QED
        BY <2>2, <3>1, <3>4, <3>5 DEF Counted
    <2>4. CASE ~(how = "next" /\ at = end)
      <3>1. iter'["main"] = iter["main"]
        BY <1>2, <2>4 DEF Went, Rounds, Code
      <3>2. ASSUME to # Off, to[1] <= Loop PROVE at[1] <= Loop
        BY <2>1, <3>2
      <3> QED
        BY <2>1, <2>2, <3>1, <3>2 DEF Counted
    <2> QED
      BY <2>3, <2>4
  <1> QED
    BY <1>1, <1>2 DEF MainStep

\* The iterations of the body never get past those that its call asked for.
THEOREM Counting == Spec => []Counted
  <1>1. Init => Counted
    BY Processes DEF Init, Counted
  <1>2. PathInv /\ Counted /\ [Next]_vars => Counted'
    <2> SUFFICES ASSUME PathInv, Counted, [Next]_vars PROVE Counted'
      OBVIOUS
    <2>1. CASE run_measured
      <3>1. /\ n' \in Nat \ {0} /\ row' = row /\ iter'["main"] = 0
        BY <2>1, CountAssumption, Processes DEF run_measured
      <3> QED
        BY <3>1 DEF Counted
    <2>2. CASE Stepped
      BY <2>2, MainStaysCounted DEF Stepped, harness
    <2>3. CASE Stopped
      BY <2>3, Processes DEF Stopped, Counted, harness
    <2>4. CASE UNCHANGED vars
      BY <2>4 DEF vars, Counted
    <2> QED
      BY <2>1, <2>2, <2>3, <2>4, StepSteps DEF Next
  <1> QED
    BY <1>1, <1>2, Paths, PTL DEF Spec

\* A BENCH_LOOP goes round no more often than b->n of its call, in whatever
\* order the other goroutines run; only the rows whose loop is ended by a
\* message may go round otherwise.
THEOREM NoExtraRound == Spec => []LoopIsCounted
  <1>1. Counted => LoopIsCounted
    BY DEF Counted, LoopIsCounted
  <1> QED
    BY <1>1, Counting, PTL

-----------------------------------------------------------------------------
\* What a row made a channel for is a number.
LEMMA CapIsNat == PathInv => \A c \in Chans : Cap(c) \in Nat
  <1> SUFFICES ASSUME PathInv, NEW c \in Chans PROVE Cap(c) \in Nat
    OBVIOUS
  <1>1. ReadsWell(row)
    BY RowAssumption DEF PathInv, Shapes
  <1>2. CASE c \in DOMAIN row.cap
    BY <1>1, <1>2 DEF ReadsWell, Cap
  <1>3. CASE c \notin DOMAIN row.cap
    BY <1>3 DEF Cap
  <1> QED
    BY <1>2, <1>3

\* Making a channel empties it.
LEMMA FreshChannels ==
  ASSUME PathInv, ChannelInv, NEW made, Fresh(made), UNCHANGED row
  PROVE  ChannelInv'
  <1>1. DOMAIN count' = Chans /\ \A c \in Chans : count'[c] \in {0, count[c]}
    BY DEF Fresh
  <1>2. \A c \in Chans : Cap(c)' = Cap(c)
    BY DEF Cap
  <1> QED
    BY <1>1, <1>2, CapIsNat DEF ChannelInv

\* A send finds room and a receive a value.
LEMMA BufferedChannels ==
  ASSUME PathInv, ChannelInv, NEW p \in Procs, Buffered(p)
  PROVE  ChannelInv'
  <1>1. PICK k \in Ready(p) :
          /\ AltReady(Alts(p)[k])
          /\ count' = [count EXCEPT ![Alts(p)[k][2]] = Contents(Alts(p)[k][1], @)]
    BY DEF Buffered
  <1> DEFINE a == Alts(p)[k]
             c == a[2]
  <1>2. row' = row
    BY DEF Buffered, harness
  <1>3. \A d \in Chans : Cap(d)' = Cap(d)
    BY <1>2 DEF Cap
  <1>4. DOMAIN count' = Chans /\ \A d \in Chans \ {c} : count'[d] = count[d]
    BY <1>1 DEF ChannelInv
  <1>5. ASSUME c \in Chans PROVE count'[c] \in 0..Cap(c)
    <2>1. count'[c] = Contents(a[1], count[c]) /\ count[c] \in 0..Cap(c) /\ Cap(c) \in Nat
      BY <1>1, <1>5, CapIsNat DEF ChannelInv
    <2>2. a[1] = "send" => count[c] < Cap(c)
      BY <1>1 DEF AltReady
    <2> HIDE DEF c
    <2> QED
      BY <2>1, <2>2 DEF Contents
  <1> HIDE DEF c
  <1> QED
    BY <1>3, <1>4, <1>5 DEF ChannelInv

LEMMA ChannelsInit == Init => ChannelInv
  <1> SUFFICES ASSUME Init PROVE ChannelInv
    BY PathInit
  <1>1. DOMAIN count = Chans /\ \A c \in Chans : count[c] = 0
    BY DEF Init
  <1> QED
    BY <1>1, PathInit, CapIsNat DEF ChannelInv

LEMMA ChannelsInductive == PathInv /\ ChannelInv /\ [Next]_vars => ChannelInv'
  <1> SUFFICES ASSUME PathInv, ChannelInv, [Next]_vars PROVE ChannelInv'
    OBVIOUS
  <1>1. ASSUME UNCHANGED <<row, count>> PROVE ChannelInv'
    <2>1. \A c \in Chans : Cap(c)' = Cap(c)
      BY <1>1 DEF Cap
    <2> QED
      BY <1>1, <2>1 DEF ChannelInv
  <1>2. ASSUME NEW p \in Procs, Step(p), ~Buffered(p), ~Allocate(p) PROVE UNCHANGED <<row, count>>
    <2>1. CASE GiveUp(p)
      BY <2>1 DEF GiveUp, Abort, harness, chans
    <2>2. CASE Boxes(p) \/ Word(p)
      BY <2>2 DEF Boxes, Word, harness, chans
    <2>3. CASE bench_pause(p) \/ bench_resume(p) \/ AllocateOnce(p) \/ arena_reset(p) \/ Release(p)
               \/ Call(p) \/ chan_close(p) \/ AwaitOthers(p) \/ NothingReady(p)
      BY <2>3 DEF bench_pause, bench_resume, AllocateOnce, arena_reset, Release, Call,
                  chan_close, AwaitOthers, NothingReady, harness, chans
    <2>4. CASE Rendezvous(p) \/ Start(p) \/ EndRuntime(p)
      BY <2>4 DEF Rendezvous, Start, EndRuntime, harness, chans
    <2> QED
      BY <1>2, <2>1, <2>2, <2>3, <2>4 DEF Step
  <1>3. ASSUME NEW p \in Procs, Allocate(p) PROVE ChannelInv'
    <2>1. (UNCHANGED row /\ \E made : Fresh(made)) \/ UNCHANGED <<row, count>>
      BY <1>3 DEF Allocate, Abort, harness, chans
    <2> QED
      BY <1>1, <2>1, FreshChannels
  <1>4. ASSUME run_measured \/ UNCHANGED vars PROVE UNCHANGED <<row, count>>
    BY <1>4 DEF run_measured, vars, chans
  <1> QED
    BY <1>1, <1>2, <1>3, <1>4, BufferedChannels DEF Next

\* A row never holds more values in a channel than it made it for, and who
\* sleeps is at a channel operation: a goroutine is woken by going on from it.
THEOREM ChannelsAreBounded == Spec => []ChannelsHold
  <1>1. PathInv /\ ChannelInv => ChannelsHold
    BY DEF PathInv, Sleepers, ChannelInv, ChannelsHold
  <1> QED
    BY <1>1, Paths, ChannelsInit, ChannelsInductive, PTL DEF Spec

-----------------------------------------------------------------------------
\* What a step does to the memory of the body: nothing, or what one of the ways
\* on from its instruction says.
KidsDown  == \A q \in Range(Kids) : pc'[q] = Off
NoneStarted == \A q \in Range(Kids) : pc[q] = Off => pc'[q] = Off

Followed(w) ==
  /\ Went("main", w.how) /\ live' = w.live /\ failed' = w.failed
  /\ w.others = "same" => NoneStarted
  /\ w.others = "none" => KidsDown

BodyStep ==
  \/ Rested("main") /\ UNCHANGED <<live, failed>> /\ NoneStarted
  \/ \E w \in Ways(Instr("main"), live, failed, iter["main"] % 2 = 1) : Followed(w)

\* What Ways says, instruction by instruction.
LEMMA WaysOfMake ==
  ASSUME NEW i, NEW l, NEW f, NEW odd, i.op = "make"
  PROVE  Ways(i, l, f, odd) = MakeWays(i, l, f)
  BY DEF Ways

LEMMA WaysOfGo ==
  ASSUME NEW i, NEW l, NEW f, NEW odd, i.op = "go"
  PROVE  Ways(i, l, f, odd) = GoWays(i, l, f)
  BY DEF Ways

LEMMA WaysOfOnce ==
  ASSUME NEW i, NEW l, NEW f, NEW odd, i.op = "once"
  PROVE  Ways(i, l, f, odd) = {Way("next", [l EXCEPT ![i.r] = 1], f, "same")}
  BY DEF Ways

LEMMA WaysOfReset ==
  ASSUME NEW i, NEW l, NEW f, NEW odd, i.op = "reset"
  PROVE  Ways(i, l, f, odd) =
            {Way("next", IF i.every = 2 /\ odd THEN l ELSE Emptied(l, {i.r}), f, "same")}
  BY DEF Ways

LEMMA WaysOfFree ==
  ASSUME NEW i, NEW l, NEW f, NEW odd, i.op = "free"
  PROVE  Ways(i, l, f, odd) = {Way("next", Emptied(Released(l, i.rs), i.rs), f, "same")}
  BY DEF Ways

LEMMA WaysOfTry ==
  ASSUME NEW i, NEW l, NEW f, NEW odd, i.op = "try"
  PROVE  Ways(i, l, f, odd) = {Way("next", l, g, "same") : g \in {f, TRUE}}
  BY DEF Ways

LEMMA WaysOfVerify ==
  ASSUME NEW i, NEW l, NEW f, NEW odd, i.op = "verify"
  PROVE  Ways(i, l, f, odd) = IF f THEN {} ELSE {Way("next", l, f, "same")}
  BY DEF Ways

LEMMA WaysOfAwait ==
  ASSUME NEW i, NEW l, NEW f, NEW odd, i.op \in {"join", "shutdown"}
  PROVE  Ways(i, l, f, odd) = {Way("next", l, f, "none")}
  BY DEF Ways

LEMMA OtherWays ==
  ASSUME NEW i, NEW l, NEW f, NEW odd,
         i.op \notin {"make", "go", "once", "reset", "free", "try", "verify", "join", "shutdown"}
  PROVE  Ways(i, l, f, odd) = {Way(how, l, f, "same") : how \in Hows(i)}
  BY DEF Ways

\* A step of one process starts nobody, unless it is a start.
LEMMA LeaveStartsNone ==
  ASSUME NEW p \in Procs, pc[p] # Off, NEW how, Leave(p, how)
  PROVE  NoneStarted
  BY LeaveMoves, Processes DEF NoneStarted, Rested

\* What the others do leaves the memory alone.
LEMMA OthersLeaveMemory ==
  ASSUME NEW p \in Procs \ {"main"}, NEW how, Leave(p, how), pc[p] # Off,
         UNCHANGED <<live, failed>>
  PROVE  BodyStep
  BY LeaveStartsNone, LeaveMoves, Processes DEF BodyStep

\* A quiet instruction of the body leaves it alone as well.
LEMMA QuietMemory ==
  ASSUME NEW how \in Hows(Instr("main")), Leave("main", how), pc["main"] # Off,
         Instr("main").op \notin MemoryOps \cup {"join", "shutdown"}, UNCHANGED <<live, failed>>
  PROVE  BodyStep
  <1> DEFINE w == Way(how, live, failed, "same")
  <1>1. w \in Ways(Instr("main"), live, failed, iter["main"] % 2 = 1)
    <2> DEFINE i == Instr("main")
               odd == iter["main"] % 2 = 1
    <2>1. i.op \notin {"make", "go", "once", "reset", "free", "try", "verify", "join", "shutdown"}
      BY DEF MemoryOps
    <2> HIDE DEF i, odd
    <2>2. Ways(i, live, failed, odd) = {Way(h, live, failed, "same") : h \in Hows(i)}
      BY <2>1, OtherWays
    <2> QED
      BY <2>2 DEF i, odd
  <1>2. Went("main", how)
    BY LeaveMoves, Processes DEF Went
  <1>3. Followed(w)
    BY <1>2, LeaveStartsNone, Processes DEF Followed, Way
  <1> QED
    BY <1>1, <1>3 DEF BodyStep

LEMMA QuietStep ==
  ASSUME NEW p \in Procs, NEW how \in Hows(Instr(p)), Leave(p, how), pc[p] # Off,
         Instr(p).op \notin MemoryOps \cup {"join", "shutdown"}, UNCHANGED <<live, failed>>
  PROVE  BodyStep
  <1>1. CASE p = "main"
    BY <1>1, QuietMemory
  <1>2. CASE p # "main"
    BY <1>2, OthersLeaveMemory
  <1> QED
    BY <1>1, <1>2

\* A step of the body by one of the ways on, which starts nobody.
LEMMA MainFollows ==
  ASSUME NEW w \in Ways(Instr("main"), live, failed, iter["main"] % 2 = 1),
         pc["main"] # Off, w.how \in Hows(Instr("main")), Leave("main", w.how),
         live' = w.live, failed' = w.failed, w.others = "none" => KidsDown
  PROVE  BodyStep
  <1>1. Went("main", w.how)
    BY LeaveMoves, Processes DEF Went
  <1>2. NoneStarted
    BY LeaveStartsNone, Processes
  <1> QED
    BY <1>1, <1>2 DEF BodyStep, Followed

\* What reading the row says of its instructions and the memory.
LEMMA InstrSpares ==
  ASSUME PathInv, MemoryInv, row.most # 0, NEW p \in Procs, pc[p] # Off
  PROVE  /\ Instr(p).op \notin PoolOps
         /\ p # "main" => Instr(p).op \notin MemoryOps
         /\ p = "main" /\ Instr(p).op = "reset" => Instr(p).every \in {1, 2}
  <1>1. MemoryReadsWell(row)
    BY MemoryAssumption DEF PathInv, Shapes
  <1>2. InstrAt(CodeOf(p), pc[p]) = Instr(p)
    BY DEF InstrAt, Instr, Code, CodeOf
  <1>3. CASE p = "main"
    <2>1. PICK m \in Accounts(row) : m.at = pc[p]
      BY <1>3 DEF MemoryInv, Accounted
    <2> QED
      BY <1>1, <1>2, <1>3, <2>1 DEF MemoryReadsWell, AccountsClosed, CodeOf
  <1>4. CASE p # "main"
    <2>1. PICK s \in Stands(Kid(row)) : s.at = pc[p]
      BY <1>4, Processes DEF PathInv, OnPath
    <2>2. KidSparesMemory(Kid(row))
      BY <1>1 DEF MemoryReadsWell
    <2> QED
      BY <1>2, <1>4, <2>1, <2>2 DEF KidSparesMemory, CodeOf, MemoryOps
  <1> QED
    BY <1>3, <1>4

LEMMA PlainMemory ==
  ASSUME PathInv, MemoryInv, row.most # 0, NEW p \in Procs,
         \/ bench_pause(p) \/ bench_resume(p) \/ chan_close(p) \/ Word(p)
         \/ Buffered(p)
  PROVE  BodyStep
  <1>1. pc[p] # Off /\ UNCHANGED <<live, failed>>
        /\ Instr(p).op \notin MemoryOps \cup {"join", "shutdown"}
    <2>1. CASE bench_pause(p) \/ bench_resume(p) \/ chan_close(p)
      BY <2>1 DEF bench_pause, bench_resume, chan_close, At, outcome, MemoryOps, PoolOps
    <2>2. CASE Word(p)
      BY <2>2 DEF Word, outcome, MemoryOps, PoolOps
    <2>3. CASE Buffered(p)
      BY <2>3 DEF Buffered, AtChan, outcome, MemoryOps, PoolOps
    <2> QED
      BY <2>1, <2>2, <2>3
  <1>2. \E how \in Hows(Instr(p)) : Leave(p, how)
    <2>1. CASE bench_pause(p) \/ bench_resume(p) \/ chan_close(p)
      BY <2>1, NextIsAHow DEF bench_pause, bench_resume, chan_close, Advance
    <2>2. CASE Word(p)
      <3>1. Leave(p, "next") \/ (Leave(p, "break") /\ Instr(p).op \in {"breakif", "breakdone"})
        BY <2>2 DEF Word, Advance
      <3>2. Instr(p).op \in {"breakif", "breakdone"} => "break" \in Hows(Instr(p))
        BY DEF Hows
      <3> QED
        BY <3>1, <3>2, NextIsAHow
    <2>3. CASE Buffered(p)
      BY <2>3, ChosenIsAHow DEF Buffered
    <2> QED
      BY <2>1, <2>2, <2>3
  <1> QED
    BY <1>1, <1>2, QuietStep

LEMMA OneWayMemory ==
  ASSUME PathInv, MemoryInv, row.most # 0, NEW p \in Procs,
         AllocateOnce(p) \/ arena_reset(p) \/ Release(p)
  PROVE  BodyStep
  <1>1. /\ pc[p] # Off /\ Leave(p, "next") /\ UNCHANGED failed
        /\ Instr(p).op \in {"once", "reset", "free"}
    BY DEF AllocateOnce, arena_reset, Release, At, Advance, outcome
  <1>2. p = "main"
    BY <1>1, InstrSpares DEF MemoryOps
  <1> DEFINE i   == Instr("main")
             odd == iter["main"] % 2 = 1
             w   == Way("next", live', failed, "same")
  <1>3. w \in Ways(i, live, failed, odd)
    <2>1. CASE AllocateOnce(p)
      <3>1. i.op = "once" /\ live' = [live EXCEPT ![i.r] = 1]
        BY <1>2, <2>1 DEF AllocateOnce, At
      <3> HIDE DEF i, odd
      <3> QED
        BY <3>1, WaysOfOnce
    <2>2. CASE arena_reset(p)
      <3>1. i.op = "reset" /\ i.every \in {1, 2} /\ iter["main"] \in Nat
        BY <1>1, <1>2, <2>2, InstrSpares DEF arena_reset, At, MemoryInv
      <3>2. live' = IF iter["main"] % i.every = 0 THEN Emptied(live, {i.r}) ELSE live
        BY <1>2, <2>2 DEF arena_reset
      <3>3. iter["main"] % i.every = 0 <=> ~(i.every = 2 /\ odd)
        BY <3>1
      <3>4. live' = IF i.every = 2 /\ odd THEN live ELSE Emptied(live, {i.r})
        BY <3>2, <3>3
      <3> HIDE DEF i, odd
      <3> QED
        BY <3>1, <3>4, WaysOfReset
    <2>3. CASE Release(p)
      <3>1. i.op = "free" /\ live' = Emptied(Released(live, i.rs), i.rs)
        BY <1>2, <2>3 DEF Release, At
      <3> HIDE DEF i, odd
      <3> QED
        BY <3>1, WaysOfFree
    <2> QED
      BY <2>1, <2>2, <2>3
  <1>4. w.how = "next" /\ w.live = live' /\ w.failed = failed' /\ w.others = "same"
    BY <1>1 DEF Way
  <1> HIDE DEF w
  <1> QED
    BY <1>1, <1>2, <1>3, <1>4, NextIsAHow, MainFollows

LEMMA CallMemory ==
  ASSUME PathInv, MemoryInv, row.most # 0, NEW p \in Procs, Call(p)
  PROVE  BodyStep
  <1>1. pc[p] # Off /\ Leave(p, "next") /\ UNCHANGED live
    BY DEF Call, At, Advance
  <1> DEFINE i   == Instr(p)
             odd == iter["main"] % 2 = 1
             w   == Way("next", live, failed', "same")
  <1>2. CASE i.op \in {"work", "must"}
    <2>1. UNCHANGED failed
      BY <1>2 DEF Call, At
    <2> QED
      BY <1>1, <1>2, <2>1, NextIsAHow, QuietStep DEF MemoryOps, PoolOps
  <1>3. CASE i.op \in {"try", "verify"}
    <2>1. p = "main"
      BY <1>1, <1>3, InstrSpares DEF MemoryOps
    <2>2. w \in Ways(Instr("main"), live, failed, odd)
      <3>1. CASE i.op = "try"
        <4>1. failed' \in {failed, TRUE}
          BY <3>1 DEF Call, At
        <4> HIDE DEF i, odd
        <4>2. Ways(i, live, failed, odd) = {Way("next", live, g, "same") : g \in {failed, TRUE}}
          BY <3>1, WaysOfTry
        <4> QED
          BY <2>1, <4>1, <4>2 DEF i
      <3>2. CASE i.op = "verify"
        <4>1. ~failed /\ failed' = failed
          BY <3>2 DEF Call, At
        <4> HIDE DEF i, odd
        <4>2. Ways(i, live, failed, odd) = IF failed THEN {} ELSE {Way("next", live, failed, "same")}
          BY <3>2, WaysOfVerify
        <4> QED
          BY <2>1, <4>1, <4>2 DEF i
      <3> QED
        BY <1>3, <3>1, <3>2
    <2>3. w.how = "next" /\ w.live = live' /\ w.failed = failed' /\ w.others = "same"
      BY <1>1 DEF Way
    <2> HIDE DEF w
    <2> QED
      BY <1>1, <2>1, <2>2, <2>3, NextIsAHow, MainFollows
  <1> QED
    BY <1>2, <1>3 DEF Call, At

\* When the body has waited for all of them, or ended the runtime, nobody is left.
LEMMA AwaitMemory ==
  ASSUME PathInv, MemoryInv, row.most # 0, NEW p \in Procs, AwaitOthers(p)
  PROVE  BodyStep
  <1>1. pc[p] # Off /\ Leave(p, "next") /\ UNCHANGED <<live, failed>>
        /\ Instr(p).op \in {"join", "swait"}
    BY DEF AwaitOthers, At, Advance, outcome
  <1>2. CASE p # "main"
    BY <1>1, <1>2, OthersLeaveMemory
  <1>3. CASE p = "main" /\ Instr(p).op = "swait"
    BY <1>1, <1>3, NextIsAHow, QuietStep DEF MemoryOps, PoolOps
  <1>4. CASE p = "main" /\ Instr(p).op = "join"
    <2> DEFINE w == Way("next", live, failed, "none")
    <2>1. w \in Ways(Instr("main"), live, failed, iter["main"] % 2 = 1)
      <3> DEFINE i   == Instr("main")
                 odd == iter["main"] % 2 = 1
      <3>1. i.op \in {"join", "shutdown"}
        BY <1>4
      <3> HIDE DEF i, odd
      <3>2. Ways(i, live, failed, odd) = {w}
        BY <3>1, WaysOfAwait
      <3> QED
        BY <3>2 DEF i, odd
    <2>2. \A q \in Range(Kids) : pc[q] = Off
      BY <1>4, Processes DEF AwaitOthers, At
    <2>3. KidsDown
      BY <1>1, <1>4, <2>2, LeaveMoves, Processes DEF KidsDown, Rested
    <2>4. w.how = "next" /\ w.live = live' /\ w.failed = failed'
      BY <1>1 DEF Way
    <2> HIDE DEF w
    <2> QED
      BY <1>1, <1>4, <2>1, <2>3, <2>4, NextIsAHow, MainFollows
  <1> QED
    BY <1>1, <1>2, <1>3, <1>4

LEMMA EndRuntimeMemory ==
  ASSUME PathInv, MemoryInv, row.most # 0, NEW p \in Procs, EndRuntime(p)
  PROVE  BodyStep
  <1>1. pc[p] # Off /\ Instr(p).op = "shutdown" /\ UNCHANGED <<live, failed>>
    BY DEF EndRuntime, At, outcome
  <1>2. p = "main"
    BY <1>1, InstrReads
  <1> DEFINE w == Way("next", live, failed, "none")
  <1>3. w \in Ways(Instr("main"), live, failed, iter["main"] % 2 = 1)
    <2> DEFINE i   == Instr("main")
               odd == iter["main"] % 2 = 1
    <2>1. i.op \in {"join", "shutdown"}
      BY <1>1, <1>2
    <2> HIDE DEF i, odd
    <2>2. Ways(i, live, failed, odd) = {w}
      BY <2>1, WaysOfAwait
    <2> QED
      BY <2>2 DEF i, odd
  <1>4. /\ pc'["main"] = Target("main", "next") /\ iter'["main"] = Rounds("main", "next")
        /\ KidsDown
    BY <1>2, Processes DEF EndRuntime, KidsDown, PathInv, Shapes, Target
  <1>5. Went("main", "next")
    BY <1>1, <1>2, <1>4, NextIsAHow DEF Went
  <1>6. w.how = "next" /\ w.live = live' /\ w.failed = failed' /\ w.others = "none"
    BY <1>1 DEF Way
  <1> HIDE DEF w
  <1> QED
    BY <1>3, <1>4, <1>5, <1>6 DEF BodyStep, Followed

LEMMA NothingReadyMemory ==
  ASSUME PathInv, NEW p \in Procs, NothingReady(p)
  PROVE  BodyStep
  <1>1. AtChan(p) /\ UNCHANGED <<live, failed>>
    BY DEF NothingReady, outcome
  <1>2. pc[p] # Off /\ Instr(p).op \in {"select", "sendnext"}
    BY <1>1 DEF AtChan
  <1>3. CASE Leave(p, "next")
    BY <1>1, <1>2, <1>3, NextIsAHow, QuietStep DEF MemoryOps, PoolOps
  <1>4. CASE UNCHANGED <<pc, iter>>
    BY <1>1, <1>4 DEF BodyStep, Rested, NoneStarted
  <1> QED
    BY <1>3, <1>4 DEF NothingReady, Advance

LEMMA RendezvousMemory ==
  ASSUME PathInv, MemoryInv, row.most # 0, NEW p \in Procs, Rendezvous(p)
  PROVE  BodyStep
  <1>1. PICK k \in Ready(p) : \E m \in Partners(p, Alts(p)[k]) :
           Move([q \in {p, m[1]} |-> Chosen(q, IF q = p THEN k ELSE m[2])])
    BY DEF Rendezvous
  <1>2. PICK m \in Partners(p, Alts(p)[k]) :
           Move([q \in {p, m[1]} |-> Chosen(q, IF q = p THEN k ELSE m[2])])
    BY <1>1
  <1>3. m[1] \in Procs /\ m[1] \in parked
    BY <1>2 DEF Partners
  <1> DEFINE q == m[1]
             choice == [r \in {p, q} |-> Chosen(r, IF r = p THEN k ELSE m[2])]
  <1>4. AtChan(p) /\ AtChan(q)
    BY <1>2, <1>3 DEF Rendezvous, Partners, PathInv, Sleepers
  <1>5. UNCHANGED <<live, failed>>
    BY DEF Rendezvous, outcome
  <1>6. /\ Move(choice) /\ DOMAIN choice = {p, q}
        /\ \A r \in {p, q} : \E j : choice[r] = Chosen(r, j)
    BY <1>2
  <1>7. q \in Procs
    BY <1>3
  <1> HIDE DEF q, choice
  <1>8. NoneStarted
    BY <1>4, <1>6, ChosenIsAHow, Processes DEF NoneStarted, Move
  <1>9. CASE "main" \notin {p, q}
    BY <1>5, <1>6, <1>8, <1>9, Processes DEF BodyStep, Rested, Move
  <1>10. CASE "main" \in {p, q}
    <2> DEFINE how == choice["main"]
               w   == Way(how, live, failed, "same")
    <2>1. /\ how \in Hows(Instr("main")) /\ pc["main"] # Off
          /\ Instr("main").op \in {"select", "sendnext"}
      BY <1>4, <1>6, <1>10, ChosenIsAHow
    <2>2. Went("main", how)
      BY <1>6, <1>10, <2>1, Processes DEF Went, Move
    <2>3. w \in Ways(Instr("main"), live, failed, iter["main"] % 2 = 1)
      <3> DEFINE i   == Instr("main")
                 odd == iter["main"] % 2 = 1
      <3>1. i.op \notin {"make", "go", "once", "reset", "free", "try", "verify", "join", "shutdown"}
        BY <2>1
      <3> HIDE DEF i, odd
      <3>2. Ways(i, live, failed, odd) = {Way(h, live, failed, "same") : h \in Hows(i)}
        BY <3>1, OtherWays
      <3> QED
        BY <2>1, <3>2 DEF i, odd
    <2>4. w.how = how /\ w.live = live' /\ w.failed = failed' /\ w.others = "same"
      BY <1>5 DEF Way
    <2> HIDE DEF how, w
    <2> QED
      BY <1>8, <2>2, <2>3, <2>4 DEF BodyStep, Followed
  <1> QED
    BY <1>9, <1>10

LEMMA AllocateMemory ==
  ASSUME PathInv, MemoryInv, row.most # 0, NEW p \in Procs, Allocate(p)
  PROVE  BodyStep \/ Abort
  <1>1. pc[p] # Off /\ Instr(p).op = "make"
    BY DEF Allocate, At
  <1>2. p = "main"
    BY <1>1, InstrSpares DEF MemoryOps
  <1> DEFINE i   == Instr("main")
             odd == iter["main"] % 2 = 1
  <1>3. Ways(i, live, failed, odd) = MakeWays(i, live, failed)
    <2>1. i.op = "make"
      BY <1>1, <1>2
    <2> HIDE DEF i, odd
    <2> QED
      BY <2>1, WaysOfMake
  <1>4. CASE live' = Given(live, Range(i.rs)) /\ Leave("main", "next") /\ UNCHANGED failed
    <2> DEFINE w == Way("next", Given(live, Range(i.rs)), failed, "same")
    <2>1. w \in Ways(i, live, failed, odd)
      BY <1>3 DEF MakeWays
    <2>2. w.how = "next" /\ w.live = live' /\ w.failed = failed' /\ w.others = "same"
      BY <1>4 DEF Way
    <2> HIDE DEF w
    <2> QED
      BY <1>1, <1>2, <1>4, <2>1, <2>2, NextIsAHow, MainFollows
  <1>5. CASE /\ i.onfail \notin {"never", "abort"}
             /\ \E made \in SomeOf(i) : live' = Refused(live, i, made)
             /\ Leave("main", i.onfail) /\ failed' = TRUE
    <2>1. PICK made \in SomeOf(i) : live' = Refused(live, i, made)
      BY <1>5
    <2> DEFINE w == Way(i.onfail, Refused(live, i, made), TRUE, "same")
    <2>2. w \in Ways(i, live, failed, odd)
      BY <1>3, <1>5 DEF MakeWays
    <2>3. w.how = i.onfail /\ w.live = live' /\ w.failed = failed' /\ w.others = "same"
      BY <1>5, <2>1 DEF Way
    <2>4. i.onfail \in Hows(i)
      BY <1>1, <1>2, <1>5 DEF Hows
    <2> HIDE DEF w
    <2> QED
      BY <1>1, <1>2, <1>5, <2>2, <2>3, <2>4, MainFollows
  <1> QED
    BY <1>2, <1>4, <1>5 DEF Allocate, Advance, outcome

LEMMA StartMemory ==
  ASSUME PathInv, MemoryInv, row.most # 0, NEW p \in Procs, Start(p)
  PROVE  BodyStep
  <1>1. pc[p] # Off /\ Instr(p).op = "go"
    BY DEF Start, At
  <1>2. p = "main"
    BY <1>1, InstrSpares DEF MemoryOps
  <1> DEFINE i   == Instr("main")
             odd == iter["main"] % 2 = 1
             k   == Kids[Min(Idle)]
  <1>3. Ways(i, live, failed, odd) = GoWays(i, live, failed)
    <2>1. i.op = "go"
      BY <1>1, <1>2
    <2> HIDE DEF i, odd
    <2> QED
      BY <2>1, WaysOfGo
  <1>4. CASE /\ Idle # {}
             /\ pc' = [pc EXCEPT ![k] = From(k, Loop), !["main"] = Following("main")]
             /\ iter' = [iter EXCEPT ![k] = 0, !["main"] = Rounds("main", "next")]
             /\ UNCHANGED <<live, failed>>
    <2> DEFINE w == Way("next", live, failed, "some")
    <2>1. w \in Ways(i, live, failed, odd)
      BY <1>3 DEF GoWays
    <2>2. w.how = "next" /\ w.live = live' /\ w.failed = failed' /\ w.others = "some"
      BY <1>4 DEF Way
    <2>3. k \in Range(Kids)
      BY <1>4, LeastIdle
    <2>4. Went("main", "next")
      <3> HIDE DEF k
      <3>1. k # "main" /\ k \in Procs
        BY <2>3, Processes
      <3>2. pc'["main"] = Target("main", "next") /\ iter'["main"] = Rounds("main", "next")
        BY <1>4, <3>1, Processes DEF PathInv, Shapes, Target
      <3> QED
        BY <1>1, <1>2, <3>2, NextIsAHow DEF Went
    <2> HIDE DEF w
    <2> QED
      BY <2>1, <2>2, <2>4 DEF BodyStep, Followed
  <1>5. CASE /\ i.onfail # "never" /\ live' = Released(live, i.drop)
             /\ Leave("main", i.onfail) /\ failed' = TRUE
    <2> DEFINE w == Way(i.onfail, Released(live, i.drop), TRUE, "same")
    <2>1. w \in Ways(i, live, failed, odd)
      BY <1>3, <1>5 DEF GoWays
    <2>2. w.how = i.onfail /\ w.live = live' /\ w.failed = failed' /\ w.others = "same"
      BY <1>5 DEF Way
    <2>3. i.onfail \in Hows(i)
      BY <1>1, <1>2, <1>5 DEF Hows
    <2> HIDE DEF w
    <2> QED
      BY <1>1, <1>2, <1>5, <2>1, <2>2, <2>3, MainFollows
  <1> QED
    BY <1>2, <1>4, <1>5 DEF Start

LEMMA StepMemory ==
  ASSUME PathInv, MemoryInv, row.most # 0, NEW p \in Procs, Step(p)
  PROVE  BodyStep \/ Abort
  <1>1. ~Boxes(p)
    BY InstrSpares DEF Boxes, At, PoolOps
  <1>2. CASE bench_pause(p) \/ bench_resume(p) \/ chan_close(p) \/ Word(p) \/ Buffered(p)
    BY <1>2, PlainMemory
  <1>3. CASE AllocateOnce(p) \/ arena_reset(p) \/ Release(p)
    BY <1>3, OneWayMemory
  <1>4. CASE Rendezvous(p) \/ NothingReady(p) \/ Start(p)
    BY <1>4, RendezvousMemory, NothingReadyMemory, StartMemory
  <1>5. CASE Call(p) \/ AwaitOthers(p) \/ EndRuntime(p)
    BY <1>5, CallMemory, AwaitMemory, EndRuntimeMemory
  <1>6. CASE Allocate(p) \/ GiveUp(p)
    BY <1>6, AllocateMemory DEF GiveUp
  <1> QED
    BY <1>1, <1>2, <1>3, <1>4, <1>5, <1>6 DEF Step

-----------------------------------------------------------------------------
LEMMA OnlyTheRunningStep ==
  ASSUME NEW p \in Procs, Step(p)
  PROVE  pc[p] # Off
  <1>1. CASE bench_pause(p) \/ bench_resume(p) \/ Allocate(p) \/ AllocateOnce(p)
             \/ arena_reset(p) \/ Release(p) \/ Call(p) \/ GiveUp(p) \/ Boxes(p)
    BY <1>1 DEF bench_pause, bench_resume, Allocate, AllocateOnce, arena_reset, Release, Call,
                GiveUp, Boxes, At
  <1>2. CASE Buffered(p) \/ Rendezvous(p) \/ NothingReady(p)
    BY <1>2 DEF Buffered, Rendezvous, NothingReady, AtChan
  <1>3. CASE chan_close(p) \/ Start(p) \/ AwaitOthers(p) \/ EndRuntime(p) \/ Word(p)
    BY <1>3 DEF chan_close, Start, AwaitOthers, EndRuntime, Word, At
  <1> QED
    BY <1>1, <1>2, <1>3 DEF Step

\* Another process moves the body along only where they meet on a channel.
LEMMA OthersMoveMain ==
  ASSUME PathInv, NEW p \in Procs \ {"main"}, Step(p), ~Abort
  PROVE  Rested("main") \/ (pc["main"] # Off /\ Instr("main").op \in {"select", "sendnext"})
  <1>1. ASSUME NEW how, Leave(p, how) PROVE Rested("main")
    BY <1>1, LeaveMoves, Processes
  <1>2. CASE bench_pause(p) \/ bench_resume(p) \/ AllocateOnce(p) \/ arena_reset(p)
             \/ Release(p) \/ Call(p) \/ chan_close(p) \/ AwaitOthers(p)
    BY <1>1, <1>2 DEF bench_pause, bench_resume, AllocateOnce, arena_reset, Release, Call,
                      chan_close, AwaitOthers, Advance
  <1>3. CASE Allocate(p) \/ GiveUp(p) \/ Boxes(p) \/ Word(p) \/ Buffered(p)
    BY <1>1, <1>3 DEF Allocate, GiveUp, Boxes, Word, Buffered, Advance
  <1>4. CASE NothingReady(p)
    BY <1>1, <1>4 DEF NothingReady, Advance, Rested
  <1>5. CASE EndRuntime(p)
    <2>1. pc[p] # Off /\ Instr(p).op = "shutdown"
      BY <1>5 DEF EndRuntime, At
    <2> QED
      BY <2>1, InstrReads
  <1>6. CASE Start(p)
    <2>1. CASE Leave(p, Instr(p).onfail)
      BY <1>1, <2>1
    <2>2. CASE /\ Idle # {}
               /\ pc' = [pc EXCEPT ![Kids[Min(Idle)]] = From(Kids[Min(Idle)], Loop), ![p] = Following(p)]
               /\ iter' = [iter EXCEPT ![Kids[Min(Idle)]] = 0, ![p] = Rounds(p, "next")]
      <3> DEFINE k == Kids[Min(Idle)]
      <3>1. k # "main"
        BY <2>2, LeastIdle, Processes
      <3> HIDE DEF k
      <3>2. /\ pc' = [pc EXCEPT ![k] = From(k, Loop), ![p] = Following(p)]
            /\ iter' = [iter EXCEPT ![k] = 0, ![p] = Rounds(p, "next")]
        BY <2>2 DEF k
      <3> QED
        BY <3>1, <3>2, Processes DEF Rested, PathInv, Shapes
    <2> QED
      BY <1>6, <2>1, <2>2 DEF Start
  <1>7. CASE Rendezvous(p)
    <2>1. PICK k \in Ready(p) : \E m \in Partners(p, Alts(p)[k]) :
             Move([q \in {p, m[1]} |-> Chosen(q, IF q = p THEN k ELSE m[2])])
      BY <1>7 DEF Rendezvous
    <2>2. PICK m \in Partners(p, Alts(p)[k]) :
             Move([q \in {p, m[1]} |-> Chosen(q, IF q = p THEN k ELSE m[2])])
      BY <2>1
    <2>3. m[1] \in parked
      BY <2>2 DEF Partners
    <2>4. AtChan(m[1])
      BY <2>3 DEF PathInv, Sleepers
    <2>5. CASE m[1] = "main"
      BY <2>4, <2>5 DEF AtChan
    <2>6. CASE m[1] # "main"
      BY <2>2, <2>6, Processes DEF Move, Rested
    <2> QED
      BY <2>5, <2>6
  <1> QED
    BY <1>2, <1>3, <1>4, <1>5, <1>6, <1>7 DEF Step

LEMMA OnlyWordsAndMakes ==
  ASSUME NEW p \in Procs, Step(p), Instr(p).op \in {"store", "shift", "cas", "add", "await", "make"}
  PROVE  IF Instr(p).op = "make" THEN Allocate(p) ELSE Word(p)
  <1>1. ~(bench_pause(p) \/ bench_resume(p) \/ AllocateOnce(p) \/ arena_reset(p) \/ Release(p)
          \/ Call(p) \/ GiveUp(p) \/ Boxes(p))
    BY DEF bench_pause, bench_resume, AllocateOnce, arena_reset, Release, Call, GiveUp, Boxes, At
  <1>2. ~(Buffered(p) \/ Rendezvous(p) \/ NothingReady(p))
    BY DEF Buffered, Rendezvous, NothingReady, AtChan
  <1>3. ~(chan_close(p) \/ Start(p) \/ AwaitOthers(p) \/ EndRuntime(p))
    BY DEF chan_close, Start, AwaitOthers, EndRuntime, At
  <1>4. Allocate(p) => Instr(p).op = "make"
    BY DEF Allocate, At
  <1>5. Word(p) => Instr(p).op # "make"
    BY DEF Word
  <1> QED
    BY <1>1, <1>2, <1>3, <1>4, <1>5 DEF Step

\* Only a make writes a note.
LEMMA MadeArePointers ==
  ASSUME PathInv, NEW p \in Procs, Allocate(p), ~Abort
  PROVE  \E made \in SUBSET Pointers : Fresh(made)
  <1> DEFINE i == Instr(p)
  <1>1. i.rs \in Seq(Pointers)
    <2>1. pc[p] # Off /\ i.op = "make"
      BY DEF Allocate, At
    <2> QED
      BY <2>1, InstrReads DEF SparesWords
  <1>2. Fresh(Range(i.rs)) \/ \E made \in SomeOf(i) : Fresh(made)
    BY DEF Allocate
  <1> HIDE DEF i
  <1>3. Range(i.rs) \subseteq Pointers
    BY <1>1 DEF Range
  <1>4. \A k \in 0..Len(i.rs) - 1 : Range(SubSeq(i.rs, 1, k)) \subseteq Pointers
    BY <1>1 DEF Range
  <1>5. \A made \in SomeOf(i) : made \subseteq Pointers
    BY <1>3, <1>4 DEF SomeOf
  <1> QED
    BY <1>2, <1>3, <1>5

\* An instruction that spares a word leaves it as it is.
LEMMA WordStays ==
  ASSUME PathInv, NEW p \in Procs, Step(p), NEW f \in Flags, SparesWord(Instr(p), f),
         Instr(p).op = "make" => f \notin Pointers
  PROVE  flag'[f] = flag[f]
  <1> DEFINE i == Instr(p)
  <1>1. DOMAIN flag = Flags
    BY DEF PathInv, Shapes
  <1>2. CASE Boxes(p)
    <2>1. i.op \in PoolOps
      BY <1>2 DEF Boxes, At, PoolOps
    <2>2. f \notin {"pool", "retired"}
      BY <2>1 DEF SparesWord
    <2> QED
      BY <1>1, <1>2, <2>2 DEF Boxes
  <1>3. CASE Word(p)
    <2>1. CASE i.op \in {"store", "add", "shift", "cas"}
      <3>1. i.f # f
        BY <2>1 DEF SparesWord
      <3>2. \E v : flag' = [flag EXCEPT ![i.f] = v]
        BY <1>3, <2>1 DEF Word
      <3> HIDE DEF i
      <3> QED
        BY <1>1, <3>1, <3>2
    <2>2. CASE i.op = "load"
      <3>1. i.local # f
        BY <2>2 DEF SparesWord
      <3>2. \E v : flag' = [flag EXCEPT ![i.local] = v]
        BY <1>3, <2>2 DEF Word
      <3> HIDE DEF i
      <3> QED
        BY <1>1, <3>1, <3>2
    <2>3. CASE i.op \notin {"store", "add", "shift", "cas", "load"}
      BY <1>3, <2>3 DEF Word
    <2> QED
      BY <2>1, <2>2, <2>3
  <1>4. CASE Allocate(p) /\ ~Abort
    <2>1. PICK made \in SUBSET Pointers : Fresh(made)
      BY <1>4, MadeArePointers
    <2>2. f \notin made
      <3>1. i.op = "make"
        BY <1>4 DEF Allocate, At
      <3> QED
        BY <3>1
    <2> QED
      BY <2>1, <2>2 DEF Fresh
  <1>5. CASE Abort
    BY <1>5 DEF Abort
  <1>6. CASE \/ bench_pause(p) \/ bench_resume(p) \/ AllocateOnce(p) \/ arena_reset(p)
             \/ Release(p) \/ Call(p) \/ chan_close(p) \/ AwaitOthers(p)
    BY <1>6 DEF bench_pause, bench_resume, AllocateOnce, arena_reset, Release, Call,
                chan_close, AwaitOthers
  <1>7. CASE Buffered(p) \/ Rendezvous(p) \/ NothingReady(p) \/ Start(p) \/ EndRuntime(p)
    BY <1>7 DEF Buffered, Rendezvous, NothingReady, Start, EndRuntime
  <1> QED
    BY <1>2, <1>3, <1>4, <1>5, <1>6, <1>7 DEF Step, GiveUp

\* Only a start makes anyone run who did not.
LEMMA StepStartsNone ==
  ASSUME PathInv, NEW p \in Procs, Step(p), ~Start(p)
  PROVE  NoneStarted
  <1>1. pc[p] # Off
    BY OnlyTheRunningStep
  <1>2. CASE Abort
    BY <1>2, Processes DEF Abort, NoneStarted
  <1>3. CASE \E how : Leave(p, how)
    BY <1>1, <1>3, LeaveStartsNone
  <1>4. CASE Rendezvous(p)
    <2>1. PICK k \in Ready(p) : \E m \in Partners(p, Alts(p)[k]) :
             Move([q \in {p, m[1]} |-> Chosen(q, IF q = p THEN k ELSE m[2])])
      BY <1>4 DEF Rendezvous
    <2>2. PICK m \in Partners(p, Alts(p)[k]) :
             Move([q \in {p, m[1]} |-> Chosen(q, IF q = p THEN k ELSE m[2])])
      BY <2>1
    <2>3. pc[m[1]] # Off
      BY <2>2 DEF Partners, PathInv, Sleepers, AtChan
    <2> QED
      BY <1>1, <2>2, <2>3, Processes DEF NoneStarted, Move
  <1>5. CASE NothingReady(p)
    <2>1. UNCHANGED pc \/ Leave(p, "next")
      BY <1>5 DEF NothingReady, Advance
    <2> QED
      BY <1>3, <2>1 DEF NoneStarted
  <1>6. CASE EndRuntime(p)
    <2>1. \A q \in Range(Kids) : q # p => pc'[q] = Off
      BY <1>6, Processes DEF EndRuntime
    <2> QED
      BY <1>1, <2>1 DEF NoneStarted
  <1>7. CASE \/ bench_pause(p) \/ bench_resume(p) \/ AllocateOnce(p) \/ arena_reset(p)
             \/ Release(p) \/ Call(p) \/ chan_close(p) \/ AwaitOthers(p)
    BY <1>3, <1>7 DEF bench_pause, bench_resume, AllocateOnce, arena_reset, Release, Call,
                      chan_close, AwaitOthers, Advance
  <1>8. CASE Allocate(p) \/ GiveUp(p) \/ Boxes(p) \/ Word(p) \/ Buffered(p)
    BY <1>2, <1>3, <1>8 DEF Allocate, GiveUp, Boxes, Word, Buffered, Advance
  <1> QED
    BY <1>4, <1>5, <1>6, <1>7, <1>8 DEF Step

\* What reading the row says of an instruction in a row that says farewell.
LEMMA FarewellReads ==
  ASSUME PathInv, NEW f, NEW j, NEW k, FarewellAt(row, f, j, k),
         NEW p \in Procs, pc[p] # Off
  PROVE  LET i == Instr(p) IN
         IF p = "main"
         THEN /\ i.op = "go" => InSetup(pc[p], k)
              /\ InSetup(pc[p], j) \/ SparesWord(i, f)
              /\ InSetup(pc[p], j) => i.op = "store" /\ i.f = f /\ i.v = 0
              /\ \A at \in Goes(Body(row), pc[p]) :
                   at[1] = Setup => pc[p][1] = Setup /\ at[2] = pc[p][2] + 1
         ELSE /\ i.op # "go"
              /\ SparesWord(i, f) \/ (i.op = "add" /\ Goes(Kid(row), pc[p]) = {Off})
  <1>1. InstrAt(CodeOf(p), pc[p]) = Instr(p)
    BY DEF InstrAt, Instr, Code, CodeOf
  <1>2. CASE p = "main"
    <2>1. PICK s \in Stands(Body(row)) : s.at = pc[p]
      BY <1>2 DEF PathInv, OnPath, Stand
    <2>2. InSetup(pc[p], j) => Instr(p) = row.setup[j]
      BY <1>2 DEF Instr, Code, Body, InSetup
    <2> QED
      BY <1>1, <1>2, <2>1, <2>2 DEF FarewellAt, CodeOf
  <1>3. CASE p # "main"
    <2>1. PICK s \in Stands(Kid(row)) : s.at = pc[p]
      BY <1>3, Processes DEF PathInv, OnPath
    <2> QED
      BY <1>1, <1>3, <2>1 DEF FarewellAt, CodeOf
  <1> QED
    BY <1>2, <1>3

\* The body gets past a wait only when the word is what it waits for.
LEMMA AwaitPasses ==
  ASSUME PathInv, NEW p \in Procs, Step(p), ~Abort
  PROVE  pc["main"] # Off /\ Instr("main").op = "await" =>
           Rested("main") \/ flag[Instr("main").f] = Instr("main").v
  <1>1. CASE p = "main"
    BY <1>1, OnlyWordsAndMakes DEF Word
  <1>2. CASE p # "main"
    BY <1>2, OthersMoveMain
  <1> QED
    BY <1>1, <1>2

\* The body goes where reading the row says.
LEMMA MainGoes ==
  ASSUME PathInv, NEW how, Went("main", how)
  PROVE  pc'["main"] \in Goes(Body(row), pc["main"])
  BY InstrReads, TargetIsOnPath, Processes DEF Went, CodeOf

LEMMA FarewellInit == Init => FarewellInv
  <1> SUFFICES ASSUME Init PROVE FarewellInv
    OBVIOUS
  <1>1. \A p \in Procs : pc[p] = Off
    BY DEF Init
  <1> QED
    BY <1>1, Processes DEF FarewellInv

\* Before the farewell the word stays 0, and afterwards nobody is there.
LEMMA FarewellInductive == PathInv /\ FarewellInv /\ [Next]_vars => FarewellInv'
  <1> SUFFICES ASSUME PathInv, FarewellInv, [Next]_vars,
                      NEW f \in Flags, NEW j \in DOMAIN row'.setup, NEW k \in DOMAIN row'.setup,
                      FarewellAt(row', f, j, k)
               PROVE  /\ \A q1, q2 \in Range(Kids) : pc'[q1] # Off /\ pc'[q2] # Off => q1 = q2
                      /\ \A q \in Range(Kids) : pc'[q] # Off => flag'[f] = 0
                      /\ pc'["main"] # Off /\ pc'["main"][1] = Setup /\ pc'["main"][2] <= k =>
                           /\ \A q \in Range(Kids) : pc'[q] = Off
                           /\ pc'["main"][2] > j => flag'[f] = 0
    BY DEF FarewellInv
  <1>1. row' = row
    <2>1. ASSUME NEW p \in Procs, Step(p) PROVE row' = row
      BY <2>1, StepSteps DEF Stepped, Stopped, harness
    <2> QED
      BY <2>1 DEF Next, run_measured, vars
  <1>2. /\ FarewellAt(row, f, j, k) /\ j \in Nat \ {0} /\ k \in Nat /\ j < k /\ f \notin Pointers
        /\ \A q1, q2 \in Range(Kids) : pc[q1] # Off /\ pc[q2] # Off => q1 = q2
        /\ \A q \in Range(Kids) : pc[q] # Off => flag[f] = 0
        /\ pc["main"] # Off /\ pc["main"][1] = Setup /\ pc["main"][2] <= k =>
             /\ \A q \in Range(Kids) : pc[q] = Off
             /\ pc["main"][2] > j => flag[f] = 0
    BY <1>1 DEF FarewellInv, FarewellAt
  <1>3. CASE UNCHANGED vars
    BY <1>2, <1>3 DEF vars
  <1>4. CASE run_measured
    <2>1. pc'["main"] = FirstOf(Body(row), Setup) /\ \A q \in Range(Kids) : pc'[q] = Off
      BY <1>4, Processes DEF run_measured, From
    <2>2. pc'["main"] # Off => pc'["main"][2] = 1
      BY <2>1 DEF FirstOf
    <2> QED
      BY <1>2, <2>1, <2>2
  <1>5. ASSUME NEW p \in Procs, Step(p), Stopped
        PROVE  \A q \in Procs : pc'[q] = Off
    BY <1>5 DEF Stopped
  <1>6. ASSUME NEW p \in Procs, Step(p), Start(p), ~Stopped
        PROVE  /\ \A q1, q2 \in Range(Kids) : pc'[q1] # Off /\ pc'[q2] # Off => q1 = q2
               /\ \A q \in Range(Kids) : pc'[q] # Off => flag'[f] = 0
               /\ ~(pc'["main"] # Off /\ pc'["main"][1] = Setup /\ pc'["main"][2] <= k)
    <2>1. pc[p] # Off /\ Instr(p).op = "go" /\ UNCHANGED flag
      BY <1>6 DEF Start, At
    <2>2. p = "main" /\ pc["main"][1] = Setup /\ pc["main"][2] = k
      BY <1>2, <2>1, FarewellReads DEF InSetup
    <2>3. (\A q \in Range(Kids) : pc[q] = Off) /\ flag[f] = 0
      BY <1>2, <2>1, <2>2
    <2>4. \E q \in Range(Kids) : \A r \in Range(Kids) : r # q => pc'[r] = Off
      <3>1. CASE \E how : Leave(p, how)
        BY <2>2, <2>3, <3>1, LeaveMoves, Processes DEF Rested
      <3>2. CASE /\ Idle # {}
                 /\ pc' = [pc EXCEPT ![Kids[Min(Idle)]] = From(Kids[Min(Idle)], Loop), ![p] = Following(p)]
        <4> DEFINE q == Kids[Min(Idle)]
        <4>1. q \in Range(Kids)
          BY <3>2, LeastIdle
        <4>2. pc' = [pc EXCEPT ![q] = From(q, Loop), ![p] = Following(p)]
          BY <3>2
        <4> HIDE DEF q
        <4>3. \A r \in Range(Kids) : r # q => pc'[r] = Off
          BY <2>2, <2>3, <4>2, Processes DEF PathInv, Shapes
        <4> QED
          BY <4>1, <4>3
      <3> QED
        BY <1>6, <3>1, <3>2 DEF Start
    <2>5. \E how : Went("main", how)
      <3>1. Following(p) = Target("main", "next") /\ Rounds(p, "next") = Rounds("main", "next")
        BY <2>2 DEF Target
      <3>2. CASE Leave(p, Instr(p).onfail) /\ Instr(p).onfail # "never"
        BY <2>1, <2>2, <3>2, LeaveMoves DEF Went, Hows
      <3>3. CASE /\ Idle # {}
                 /\ pc' = [pc EXCEPT ![Kids[Min(Idle)]] = From(Kids[Min(Idle)], Loop), ![p] = Following(p)]
                 /\ iter' = [iter EXCEPT ![Kids[Min(Idle)]] = 0, ![p] = Rounds(p, "next")]
        <4> DEFINE q == Kids[Min(Idle)]
        <4>1. q # "main" /\ q \in Procs
          BY <3>3, LeastIdle, Processes
        <4>2. /\ pc' = [pc EXCEPT ![q] = From(q, Loop), ![p] = Following(p)]
              /\ iter' = [iter EXCEPT ![q] = 0, ![p] = Rounds(p, "next")]
          BY <3>3
        <4> HIDE DEF q
        <4>3. pc'["main"] = Target("main", "next") /\ iter'["main"] = Rounds("main", "next")
          BY <2>2, <3>1, <4>1, <4>2, Processes DEF PathInv, Shapes
        <4> QED
          BY <2>1, <2>2, <4>3, NextIsAHow DEF Went
      <3> QED
        BY <1>6, <3>2, <3>3 DEF Start
    <2>6. pc'["main"] \in Goes(Body(row), pc["main"])
      BY <2>5, MainGoes
    <2>7. pc'["main"][1] = Setup => pc'["main"][2] = k + 1
      BY <1>2, <2>1, <2>2, <2>6, FarewellReads
    <2> QED
      BY <1>2, <2>1, <2>3, <2>4, <2>7
  <1>7. ASSUME NEW p \in Procs, Step(p), ~Start(p), ~Stopped
        PROVE  /\ \A q1, q2 \in Range(Kids) : pc'[q1] # Off /\ pc'[q2] # Off => q1 = q2
               /\ \A q \in Range(Kids) : pc'[q] # Off => flag'[f] = 0
    <2>1. NoneStarted /\ pc[p] # Off
      BY <1>7, StepStartsNone, OnlyTheRunningStep
    <2>2. ASSUME NEW q \in Range(Kids), pc'[q] # Off PROVE flag'[f] = 0
      <3>1. pc[q] # Off /\ flag[f] = 0
        BY <1>2, <2>1, <2>2 DEF NoneStarted
      <3>2. CASE SparesWord(Instr(p), f)
        BY <1>2, <1>7, <3>1, <3>2, WordStays
      <3>3. CASE ~SparesWord(Instr(p), f) /\ p = "main"
        <4>1. Instr(p).op = "store" /\ Instr(p).f = f /\ Instr(p).v = 0
          BY <1>2, <2>1, <3>3, FarewellReads
        <4>2. Word(p)
          BY <1>7, <4>1, OnlyWordsAndMakes
        <4> QED
          BY <4>1, <4>2 DEF Word, PathInv, Shapes
      <3>4. CASE ~SparesWord(Instr(p), f) /\ p # "main"
        <4>1. Instr(p).op = "add" /\ Goes(Kid(row), pc[p]) = {Off}
          BY <1>2, <2>1, <3>4, FarewellReads
        <4>2. Word(p) /\ Leave(p, "next")
          <5>1. Word(p)
            BY <1>7, <4>1, OnlyWordsAndMakes
          <5> QED
            BY <4>1, <5>1 DEF Word, Advance
        <4>3. pc'[p] = Off
          <5>1. pc'[p] = Target(p, "next")
            BY <4>2, LeaveMoves
          <5>2. Target(p, "next") \in Goes(CodeOf(p), pc[p])
            BY <2>1, NextIsAHow, TargetIsOnPath
          <5> QED
            BY <3>4, <4>1, <5>1, <5>2 DEF CodeOf
        <4>4. p \in Range(Kids) /\ p = q
          BY <1>2, <2>1, <3>1, <3>4, Processes
        <4> QED
          BY <2>2, <4>3, <4>4
      <3> QED
        BY <3>2, <3>3, <3>4
    <2> QED
      BY <1>2, <2>1, <2>2 DEF NoneStarted
  <1>8. ASSUME NEW p \in Procs, Step(p), ~Start(p), ~Stopped,
               pc'["main"] # Off, pc'["main"][1] = Setup, pc'["main"][2] <= k
        PROVE  /\ \A q \in Range(Kids) : pc'[q] = Off
               /\ pc'["main"][2] > j => flag'[f] = 0
    <2>1. NoneStarted /\ pc[p] # Off /\ Stepped
      BY <1>8, StepStartsNone, OnlyTheRunningStep, StepSteps
    <2>2. /\ pc["main"] # Off /\ pc["main"][1] = Setup /\ pc["main"][2] <= k
          /\ \/ pc'["main"] = pc["main"] /\ Rested("main")
             \/ pc'["main"][2] = pc["main"][2] + 1 /\ pc["main"][2] \in Nat
      <3>1. CASE Rested("main")
        BY <1>8, <3>1 DEF Rested
      <3>2. ASSUME NEW how, Went("main", how)
            PROVE  /\ pc["main"] # Off /\ pc["main"][1] = Setup /\ pc["main"][2] <= k
                   /\ pc'["main"][2] = pc["main"][2] + 1 /\ pc["main"][2] \in Nat
        <4>1. pc["main"] # Off /\ pc'["main"] \in Goes(Body(row), pc["main"])
          BY <3>2, MainGoes DEF Went
        <4>2. pc["main"][1] = Setup /\ pc'["main"][2] = pc["main"][2] + 1
          BY <1>2, <1>8, <4>1, FarewellReads, Processes
        <4>3. pc["main"][2] \in Nat
          BY <3>2, MainGoesOn
        <4> QED
          BY <1>2, <1>8, <4>1, <4>2, <4>3
      <3> QED
        BY <2>1, <3>1, <3>2 DEF Stepped, MainStep
    <2>3. (\A q \in Range(Kids) : pc[q] = Off) /\ (pc["main"][2] > j => flag[f] = 0)
      BY <1>2, <2>2
    <2>4. p = "main"
      BY <2>1, <2>3, Processes
    <2>5. ASSUME pc'["main"][2] > j PROVE flag'[f] = 0
      <3>1. CASE InSetup(pc["main"], j)
        <4>1. Instr(p).op = "store" /\ Instr(p).f = f /\ Instr(p).v = 0
          BY <1>2, <2>1, <2>4, <3>1, FarewellReads
        <4>2. Word(p)
          BY <1>8, <4>1, OnlyWordsAndMakes
        <4> QED
          BY <4>1, <4>2 DEF Word, PathInv, Shapes
      <3>2. CASE ~InSetup(pc["main"], j)
        <4>1. SparesWord(Instr(p), f)
          BY <1>2, <2>1, <2>4, <3>2, FarewellReads
        <4>2. flag'[f] = flag[f]
          BY <1>2, <1>8, <4>1, WordStays
        <4>3. pc["main"][2] > j
          BY <1>2, <2>2, <2>5, <3>2 DEF InSetup
        <4> QED
          BY <2>3, <4>2, <4>3
      <3> QED
        BY <3>1, <3>2
    <2> QED
      BY <2>1, <2>3, <2>5 DEF NoneStarted
  <1>9. ASSUME NEW p \in Procs, Step(p), Stopped
        PROVE  pc'["main"] = Off /\ \A q \in Range(Kids) : pc'[q] = Off
    BY <1>5, <1>9, Processes
  <1>10. CASE \E p \in Procs : Step(p)
    BY <1>6, <1>7, <1>8, <1>9, <1>10
  <1> QED
    BY <1>3, <1>4, <1>10 DEF Next

-----------------------------------------------------------------------------
\* The account of the body that fits the state, and which goes on with it.
Fits(m) ==
  /\ m.live = live /\ m.at = pc["main"] /\ m.failed = failed /\ m.odd = (iter["main"] % 2 = 1)
  /\ m.alone => \A q \in Range(Kids) : pc[q] = Off

LEMMA AccountsOfRow ==
  ASSUME PathInv, row.most # 0
  PROVE  /\ MemoryReadsWell(row) /\ Opening \in Accounts(row)
         /\ \A m \in Accounts(row) : Onward(row, m) \subseteq Accounts(row)
  BY MemoryAssumption DEF PathInv, Shapes, MemoryReadsWell, AccountsClosed

\* Whoever has heard the farewell knows that nobody else runs.
LEMMA PartingWord ==
  ASSUME PathInv, FarewellInv, Parting(row, Instr("main")), pc["main"] # Off,
         NEW w \in Ways(Instr("main"), live, failed, iter["main"] % 2 = 1), Followed(w),
         ~(Rested("main") /\ UNCHANGED <<live, failed>> /\ NoneStarted),
         Rested("main") \/ flag[Instr("main").f] = Instr("main").v
  PROVE  KidsDown
  <1> DEFINE i   == Instr("main")
             odd == iter["main"] % 2 = 1
  <1>1. i.op = "await" /\ i.v # 0
    BY DEF Parting
  <1>2. Ways(i, live, failed, odd) = {Way(h, live, failed, "same") : h \in Hows(i)}
    <2> HIDE DEF i, odd
    <2> QED
      BY <1>1, OtherWays
  <1>3. UNCHANGED <<live, failed>> /\ NoneStarted
    BY <1>2 DEF Followed, Way
  <1>4. flag[i.f] = i.v
    BY <1>3
  <1>5. PICK j \in DOMAIN row.setup, k \in DOMAIN row.setup : FarewellAt(row, i.f, j, k)
    BY DEF Parting, Farewell
  <1>6. i.f \in Flags
    BY <1>5 DEF FarewellAt
  <1> HIDE DEF i
  <1>7. \A q \in Range(Kids) : pc[q] # Off => flag[i.f] = 0
    BY <1>5, <1>6 DEF FarewellInv
  <1> QED
    BY <1>1, <1>3, <1>4, <1>7 DEF NoneStarted, KidsDown

LEMMA AccountGoesOn ==
  ASSUME PathInv, MemoryInv, FarewellInv, row.most # 0, ~aborted, BodyStep,
         pc["main"] # Off /\ Instr("main").op = "await" =>
           Rested("main") \/ flag[Instr("main").f] = Instr("main").v
  PROVE  \E m \in Accounts(row) : Fits(m)'
  <1> DEFINE code == Body(row)
  <1>1. PICK m \in Accounts(row) : Fits(m)
    BY DEF MemoryInv, Accounted, Fits
  <1>2. CASE Rested("main") /\ UNCHANGED <<live, failed>> /\ NoneStarted
    BY <1>1, <1>2 DEF Fits, Rested, NoneStarted
  <1>3. ASSUME NEW w \in Ways(Instr("main"), live, failed, iter["main"] % 2 = 1), Followed(w),
               ~(Rested("main") /\ UNCHANGED <<live, failed>> /\ NoneStarted)
        PROVE  \E t \in Accounts(row) : Fits(t)'
    <2>1. /\ pc["main"] # Off /\ w.how \in Hows(Instr("main"))
          /\ pc'["main"] = Target("main", w.how) /\ iter'["main"] = Rounds("main", w.how)
          /\ live' = w.live /\ failed' = w.failed
      BY <1>3 DEF Followed, Went
    <2>2. pc'["main"] \in GoesBy(code, pc["main"], w.how)
      BY <2>1, InstrReads, TargetIsOnPath, Processes DEF CodeOf
    <2>3. InstrAt(code, pc["main"]) = Instr("main")
      BY DEF InstrAt, Instr, Code
    <2> DEFINE odd   == Turns(code, m.at, w.how, m.odd)
               alone == \/ w.others = "none"
                        \/ w.others = "same" /\ (m.alone \/ Parting(row, InstrAt(code, m.at)))
               t     == Account(pc'["main"], w.live, w.failed, odd, alone)
    <2>4. t \in Leads(row, m, w)
      BY <1>1, <2>2 DEF Leads, Fits
    <2>5. w \in Ways(InstrAt(code, m.at), m.live, m.failed, m.odd)
      BY <1>1, <2>3 DEF Fits
    <2>6. t \in Onward(row, m)
      <3> HIDE DEF t
      <3> QED
        BY <1>1, <2>1, <2>4, <2>5 DEF Onward, Fits
    <2>7. odd = (iter'["main"] % 2 = 1)
      <3>1. iter["main"] \in Nat
        BY DEF MemoryInv
      <3>2. Code("main", Loop) = code[Loop]
        BY DEF Code
      <3>3. CASE w.how = "next" /\ pc["main"] = <<Loop, Len(code[Loop])>>
        <4>1. iter'["main"] = iter["main"] + 1
          BY <2>1, <3>2, <3>3 DEF Rounds
        <4>2. odd = ~(iter["main"] % 2 = 1)
          BY <1>1, <3>3 DEF Turns, Fits
        <4> HIDE DEF odd
        <4> QED
          BY <3>1, <4>1, <4>2
      <3>4. CASE ~(w.how = "next" /\ pc["main"] = <<Loop, Len(code[Loop])>>)
        <4>1. iter'["main"] = iter["main"]
          BY <2>1, <3>2, <3>4 DEF Rounds
        <4>2. odd = (iter["main"] % 2 = 1)
          BY <1>1, <3>4 DEF Turns, Fits
        <4> HIDE DEF odd
        <4> QED
          BY <4>1, <4>2
      <3> QED
        BY <3>3, <3>4
    <2>8. alone => KidsDown
      <3>1. CASE Parting(row, Instr("main"))
        <4>1. Rested("main") \/ flag[Instr("main").f] = Instr("main").v
          BY <2>1, <3>1 DEF Parting
        <4> QED
          BY <1>3, <2>1, <3>1, <4>1, PartingWord
      <3>2. CASE ~Parting(row, Instr("main"))
        BY <1>1, <1>3, <2>3, <3>2 DEF Followed, Fits, NoneStarted, KidsDown
      <3> QED
        BY <3>1, <3>2
    <2>9. /\ t.at = pc'["main"] /\ t.live = w.live /\ t.failed = w.failed
          /\ t.odd = odd /\ t.alone = alone
      BY DEF Account
    <2>10. t \in Accounts(row)
      BY <1>1, <2>6, AccountsOfRow
    <2> HIDE DEF t, odd, alone, code
    <2> QED
      BY <2>1, <2>7, <2>8, <2>9, <2>10 DEF Fits, KidsDown
  <1> QED
    BY <1>2, <1>3 DEF BodyStep

LEMMA AccountOfCall ==
  ASSUME PathInv, MemoryInv, row.most # 0, run_measured
  PROVE  \E m \in Accounts(row) : Fits(m)'
  <1> DEFINE code == Body(row)
             t    == Account(FirstOf(code, Setup), Kept(live), FALSE, FALSE, TRUE)
  <1>1. ~aborted /\ pc["main"] = Off
    BY DEF run_measured
  <1>2. PICK m \in Accounts(row) : m.live = live /\ m.at = Off
    BY <1>1 DEF MemoryInv, Accounted
  <1>3. t \in Accounts(row)
    <2>1. Onward(row, m) = {t}
      BY <1>2 DEF Onward
    <2> HIDE DEF t
    <2> QED
      BY <1>2, <2>1, AccountsOfRow
  <1>4. /\ pc' = [p \in Procs |-> IF p = "main" THEN From(p, Setup) ELSE Off]
        /\ iter'["main"] = 0 /\ live' = Kept(live) /\ failed' = FALSE
    BY Processes DEF run_measured
  <1>5. pc'["main"] = FirstOf(code, Setup) /\ \A q \in Range(Kids) : pc'[q] = Off
    BY <1>4, Processes DEF From
  <1>6. /\ t.at = FirstOf(code, Setup) /\ t.live = Kept(live) /\ t.failed = FALSE
        /\ t.odd = FALSE /\ t.alone = TRUE
    BY DEF Account
  <1>7. (iter'["main"] % 2 = 1) = FALSE
    BY <1>4
  <1> HIDE DEF t, code
  <1>8. t.live = live' /\ t.at = pc'["main"] /\ t.failed = failed'
    BY <1>4, <1>5, <1>6
  <1>9. t.odd = (iter'["main"] % 2 = 1)
    BY <1>6, <1>7
  <1> QED
    BY <1>3, <1>5, <1>8, <1>9 DEF Fits, code

LEMMA MemoryInit == Init => MemoryInv
  <1> SUFFICES ASSUME Init PROVE MemoryInv
    OBVIOUS
  <1>1. /\ iter["main"] = 0 /\ \A p \in Procs : pc[p] = Off
        /\ live = [r \in Pointers |-> 0] /\ failed = FALSE /\ aborted = FALSE
    BY Processes DEF Init
  <1>2. /\ Opening.at = Off /\ Opening.live = live /\ Opening.failed = FALSE
        /\ Opening.odd = FALSE
    BY <1>1 DEF Opening, Account
  <1>3. (iter["main"] % 2 = 1) = FALSE
    BY <1>1
  <1>4. row.most # 0 => Opening \in Accounts(row)
    BY PathInit, AccountsOfRow
  <1>5. Opening.odd = (iter["main"] % 2 = 1)
    BY <1>2, <1>3
  <1>6. Opening.failed = failed
    BY <1>1, <1>2
  <1>7. pc["main"] = Off /\ \A q \in Range(Kids) : pc[q] = Off
    BY <1>1, Processes
  <1>8. row.most # 0 =>
          /\ Opening \in Accounts(row) /\ Opening.live = live
          /\ Opening.at = pc["main"] /\ Opening.failed = failed
          /\ Opening.odd = (iter["main"] % 2 = 1)
          /\ Opening.alone => \A q \in Range(Kids) : pc[q] = Off
    BY <1>2, <1>4, <1>5, <1>6, <1>7
  <1>9. Accounted
    BY <1>8 DEF Accounted
  <1>10. iter["main"] \in Nat
    BY <1>1
  <1> QED
    BY <1>1, <1>9, <1>10 DEF MemoryInv

LEMMA MemoryInductive == PathInv /\ MemoryInv /\ FarewellInv /\ [Next]_vars => MemoryInv'
  <1> SUFFICES ASSUME PathInv, MemoryInv, FarewellInv, [Next]_vars PROVE MemoryInv'
    OBVIOUS
  <1>1. ASSUME UNCHANGED vars PROVE MemoryInv'
    BY <1>1 DEF vars, MemoryInv, Accounted
  <1>2. CASE run_measured
    <2>1. UNCHANGED <<row, aborted>> /\ iter'["main"] = 0 /\ ~aborted
      BY <1>2, Processes DEF run_measured
    <2>2. row.most # 0 => \E m \in Accounts(row) : Fits(m)'
      BY <1>2, AccountOfCall
    <2> QED
      BY <2>1, <2>2 DEF MemoryInv, Accounted, Fits
  <1>3. ASSUME NEW p \in Procs, Step(p) PROVE MemoryInv'
    <2>1. ~aborted
      BY <1>3, OnlyTheRunningStep DEF MemoryInv
    <2>2. CASE Abort
      BY <2>1, <2>2 DEF Abort, MemoryInv, Accounted, harness
    <2>3. CASE ~Abort /\ row.most # 0
      <3>1. \E m \in Accounts(row) : Fits(m)'
        BY <1>3, <2>1, <2>3, StepMemory, AwaitPasses, AccountGoesOn
      <3>2. CASE Stepped
        <4>1. UNCHANGED <<row, aborted>>
          BY <3>2 DEF Stepped, harness
        <4>2. iter'["main"] \in Nat
          BY <3>2 DEF Stepped, MainStep, Rested, Went, Rounds, MemoryInv
        <4> QED
          BY <2>1, <3>1, <4>1, <4>2 DEF MemoryInv, Accounted, Fits
      <3>3. CASE Stopped
        BY <3>1, <3>3 DEF Stopped, harness, MemoryInv, Accounted, Fits
      <3> QED
        BY <1>3, <3>2, <3>3, StepSteps
    <2>4. CASE row.most = 0
      <3>1. CASE Stepped
        <4>1. UNCHANGED <<row, aborted>>
          BY <3>1 DEF Stepped, harness
        <4>2. iter'["main"] \in Nat
          BY <3>1 DEF Stepped, MainStep, Rested, Went, Rounds, MemoryInv
        <4> QED
          BY <2>1, <2>4, <4>1, <4>2 DEF MemoryInv, Accounted
      <3>2. CASE Stopped
        BY <2>4, <3>2 DEF Stopped, harness, MemoryInv, Accounted
      <3> QED
        BY <1>3, <3>1, <3>2, StepSteps
    <2> QED
      BY <2>2, <2>3, <2>4
  <1> QED
    BY <1>1, <1>2, <1>3 DEF Next

-----------------------------------------------------------------------------
LEMMA KidsRest ==
  ASSUME PathInv, NobodyElse(row)
  PROVE  /\ \A q \in Range(Kids) : pc[q] = Off
         /\ \A p \in parked : p = "main"
  <1>1. \A q \in Range(Kids) : pc[q] = Off
    BY DEF PathInv, OnPath, NobodyElse
  <1>2. \A p \in parked : p \in Procs /\ pc[p] # Off
    BY DEF PathInv, Sleepers, AtChan
  <1> QED
    BY <1>1, <1>2, Processes

\* What reading the row of the pool says of the instruction its body is at,
\* and of where the body goes from there.
LEMMA PoolReads ==
  ASSUME PathInv, row.most = 0
  PROVE  /\ NobodyElse(row) /\ ~row.endless /\ Len(Body(row)[Loop]) = 2
         /\ FirstOf(Body(row), Setup)[1] = Setup
         /\ pc["main"] # Off =>
              LET i == Instr("main") IN
              /\ i.op \in PoolOps \cup {"pause", "resume", "shutdown"}
              /\ i.op = "boxget" <=> pc["main"] = <<Loop, 1>>
              /\ i.op = "retire" <=> pc["main"] = <<Loop, 2>>
              /\ i.uses \subseteq IF i.op = "retire" THEN {"box"} ELSE {}
              /\ \A at \in Goes(Body(row), pc["main"]) :
                   /\ at = <<Loop, 2>> => i.op = "boxget"
                   /\ at = Off => i.op = "freepool"
                   /\ at # Off /\ InstrAt(Body(row), at).op = "freepool" => i.op = "drain"
  <1>1. PoolReadsWell(row)
    BY MemoryAssumption DEF PathInv, Shapes
  <1>2. ASSUME pc["main"] # Off
        PROVE  \E s \in Stands(Body(row)) : s.at = pc["main"] /\ s.at # Off
                                           /\ InstrAt(Body(row), s.at) = Instr("main")
    <2>1. PICK s \in Stands(Body(row)) : s.at = pc["main"]
      BY <1>2 DEF PathInv, OnPath, Stand
    <2>2. InstrAt(Body(row), s.at) = Instr("main")
      BY <2>1 DEF InstrAt, Instr, Code
    <2> QED
      BY <1>2, <2>1, <2>2
  <1>3. CASE pc["main"] = Off
    BY <1>1, <1>3 DEF PoolReadsWell, Body
  <1>4. CASE pc["main"] # Off
    <2>1. PICK s \in Stands(Body(row)) : s.at = pc["main"] /\ s.at # Off
                                        /\ InstrAt(Body(row), s.at) = Instr("main")
      BY <1>2, <1>4
    <2> QED
      BY <1>1, <1>4, <2>1 DEF PoolReadsWell, Body
  <1> QED
    BY <1>3, <1>4

LEMMA PoolActions ==
  ASSUME PathInv, row.most = 0, NEW p \in Procs, Step(p)
  PROVE  /\ p = "main" /\ pc["main"] # Off
         /\ IF Instr("main").op \in PoolOps THEN Boxes("main")
            ELSE UNCHANGED <<flag, live>> /\ Went("main", "next")
  <1> DEFINE i == Instr("main")
  <1>1. p = "main" /\ pc["main"] # Off
    BY PoolReads, KidsRest, OnlyTheRunningStep, Processes
  <1>2. i.op \in {"boxget", "retire", "drain", "freepool", "pause", "resume", "shutdown"}
    BY <1>1, PoolReads DEF PoolOps
  <1>3. ~(Allocate("main") \/ AllocateOnce("main") \/ arena_reset("main") \/ Release("main")
          \/ Call("main") \/ GiveUp("main"))
    BY <1>2 DEF Allocate, AllocateOnce, arena_reset, Release, Call, GiveUp, At
  <1>4. ~(Buffered("main") \/ Rendezvous("main") \/ NothingReady("main") \/ Word("main"))
    BY <1>2 DEF Buffered, Rendezvous, NothingReady, AtChan, Word
  <1>5. ~(chan_close("main") \/ Start("main") \/ AwaitOthers("main"))
    BY <1>2 DEF chan_close, Start, AwaitOthers, At
  <1>6. CASE Boxes("main")
    <2>1. i.op \in PoolOps
      BY <1>6 DEF Boxes, At, PoolOps
    <2> QED
      BY <1>1, <1>6, <2>1
  <1>7. CASE bench_pause("main") \/ bench_resume("main")
    <2>1. i.op \notin PoolOps /\ UNCHANGED <<flag, live>> /\ Leave("main", "next")
      BY <1>7 DEF bench_pause, bench_resume, At, PoolOps, Advance
    <2> QED
      BY <1>1, <2>1, LeaveMoves, NextIsAHow, Processes DEF Went
  <1>8. CASE EndRuntime("main")
    <2>1. i.op \notin PoolOps /\ UNCHANGED <<flag, live>>
      BY <1>8 DEF EndRuntime, At, PoolOps
    <2>2. pc'["main"] = Target("main", "next") /\ iter'["main"] = Rounds("main", "next")
      BY <1>8, Processes DEF EndRuntime, PathInv, Shapes, Target
    <2> QED
      BY <1>1, <2>1, <2>2, NextIsAHow DEF Went
  <1> QED
    BY <1>1, <1>3, <1>4, <1>5, <1>6, <1>7, <1>8 DEF Step

\* Where the body of the pool's row goes, and what it counts.
LEMMA PoolMoves ==
  ASSUME PathInv, row.most = 0, row' = row, NEW how, Went("main", how)
  PROVE  LET i == Instr("main")  to == pc'["main"] IN
         /\ to = <<Loop, 2>> => i.op = "boxget"
         /\ to = Off => i.op = "freepool"
         /\ to # Off /\ Instr("main")'.op = "freepool" => i.op = "drain"
         /\ i.op = "boxget" /\ how = "next" => to = <<Loop, 2>>
         /\ how = "break" => to # <<Loop, 2>>
         /\ how = "next" => iter'["main"] = IF i.op = "retire" THEN iter["main"] + 1 ELSE iter["main"]
         /\ i.op # "retire" => iter'["main"] = iter["main"]
         /\ InHand = IF i.op = "retire" THEN 1 ELSE 0
  <1> DEFINE i    == Instr("main")
             to   == pc'["main"]
             code == Body(row)
  <1>1. pc["main"] # Off /\ to = Target("main", how) /\ iter'["main"] = Rounds("main", how)
    BY DEF Went
  <1>2. to \in Goes(code, pc["main"])
    BY <1>1, InstrReads, TargetIsOnPath, Processes DEF Went, CodeOf
  <1>3. to # Off => Instr("main")' = InstrAt(code, to)
    BY DEF Instr, InstrAt, Code, Body
  <1>4. /\ to = <<Loop, 2>> => i.op = "boxget"
        /\ to = Off => i.op = "freepool"
        /\ to # Off /\ InstrAt(code, to).op = "freepool" => i.op = "drain"
        /\ i.op = "boxget" <=> pc["main"] = <<Loop, 1>>
        /\ i.op = "retire" <=> pc["main"] = <<Loop, 2>>
        /\ Len(code[Loop]) = 2
    BY <1>1, <1>2, PoolReads
  <1>5. Code("main", Loop) = code[Loop]
    BY DEF Code
  <1>6. i.op = "boxget" /\ how = "next" => to = <<Loop, 2>>
    BY <1>1, <1>4, <1>5 DEF Target, Following
  <1>7. how = "break" => to # <<Loop, 2>>
    <2>1. FirstOf(code, After)[1] \in After..Off[1]
      BY FirstOfIsLater
    <2>2. how = "break" => to = FirstOf(code, After)
      BY <1>1 DEF Target, From
    <2> QED
      BY <2>1, <2>2
  <1>8. iter'["main"] = IF how = "next" /\ i.op = "retire" THEN iter["main"] + 1 ELSE iter["main"]
    BY <1>1, <1>4, <1>5 DEF Rounds
  <1>9. InHand = IF i.op = "retire" THEN 1 ELSE 0
    BY <1>4 DEF InHand
  <1> HIDE DEF i, to, code
  <1> QED
    BY <1>3, <1>4, <1>6, <1>7, <1>8, <1>9 DEF i, to, code

\* What a call of the body does to the pool, instruction by instruction.
LEMMA PoolGoesOn ==
  ASSUME PathInv, MemoryInv, PoolInv, row.most = 0, NEW p \in Procs, Step(p), row' = row
  PROVE  PoolInv'
  <1> DEFINE i    == Instr("main")
             to   == pc'["main"]
             pool == flag["pool"]
             rest == flag["retired"]
             pool2 == flag'["pool"]
             rest2 == flag'["retired"]
  <1>1. pc["main"] # Off /\ i.op \in PoolOps \cup {"pause", "resume", "shutdown"}
    BY PoolActions, PoolReads
  <1>2. /\ pool \in Nat /\ rest \in Nat /\ iter["main"] \in Nat /\ pool + rest <= iter["main"]
        /\ i.op = "freepool" => rest = 0
        /\ DOMAIN live = Pointers
        /\ \A x \in Pointers : live[x] = IF x = "box" THEN pool + rest + InHand ELSE 0
    BY <1>1 DEF PoolInv, MemoryInv
  <1>3. DOMAIN flag = Flags /\ {"pool", "retired"} \subseteq Flags /\ "box" \in Pointers
    BY DEF PathInv, Shapes, Flags, Pointers
  <1>4. InHand' = IF to = <<Loop, 2>> THEN 1 ELSE 0
    BY DEF InHand
  <1>5. SUFFICES /\ pool2 \in Nat /\ rest2 \in Nat
                 /\ DOMAIN live' = Pointers
                 /\ \A x \in Pointers : live'[x] = IF x = "box" THEN pool2 + rest2 + InHand' ELSE 0
                 /\ to = Off => pool2 = 0 /\ rest2 = 0
                 /\ to # Off => /\ pool2 + rest2 <= iter'["main"]
                                /\ Instr("main")'.op = "freepool" => rest2 = 0
    BY DEF PoolInv
  <1>6. CASE i.op \notin PoolOps
    <2>1. UNCHANGED <<flag, live>> /\ Went("main", "next")
      BY <1>6, PoolActions
    <2>2. i.op \in {"pause", "resume", "shutdown"}
      BY <1>1, <1>6
    <2> QED
      BY <1>2, <1>4, <2>1, <2>2, PoolMoves
  <1>7. ASSUME NEW how, Leave("main", how), how \in Hows(i) PROVE Went("main", how)
    BY <1>1, <1>7, LeaveMoves, Processes DEF Went
  <1>8. CASE i.op = "boxget"
    <2>1. Boxes("main")
      BY <1>8, PoolActions DEF PoolOps
    <2>2. CASE pool > 0 /\ flag' = [flag EXCEPT !["pool"] = @ - 1] /\ Advance("main") /\ UNCHANGED live
      <3>1. Went("main", "next")
        BY <1>7, <2>2, NextIsAHow DEF Advance
      <3>2. pool2 = pool - 1 /\ rest2 = rest
        BY <1>3, <2>2
      <3> QED
        BY <1>2, <1>4, <1>8, <2>2, <3>1, <3>2, PoolMoves
    <2>3. CASE pool = 0 /\ live' = Given(live, {"box"}) /\ Advance("main") /\ UNCHANGED flag
      <3>1. Went("main", "next")
        BY <1>7, <2>3, NextIsAHow DEF Advance
      <3>2. /\ DOMAIN live' = Pointers
            /\ \A x \in Pointers : live'[x] = IF x = "box" THEN live[x] + 1 ELSE live[x]
        BY <2>3 DEF Given
      <3> QED
        BY <1>2, <1>4, <1>8, <2>3, <3>1, <3>2, PoolMoves
    <2>4. CASE Leave("main", "break") /\ UNCHANGED <<flag, live>>
      <3>1. Went("main", "break")
        BY <1>7, <1>8, <2>4 DEF Hows
      <3> QED
        BY <1>2, <1>4, <1>8, <2>4, <3>1, PoolMoves
    <2> QED
      BY <1>8, <2>1, <2>2, <2>3, <2>4 DEF Boxes, At
  <1>9. CASE i.op = "retire"
    <2>1. Boxes("main")
      BY <1>9, PoolActions DEF PoolOps
    <2>2. PICK freed \in {0, rest} :
            flag' = [flag EXCEPT !["pool"] = @ + freed, !["retired"] = @ - freed + 1]
      BY <1>9, <2>1 DEF Boxes, At
    <2>3. Advance("main") /\ UNCHANGED live
      BY <1>9, <2>1 DEF Boxes, At
    <2>4. Went("main", "next")
      BY <1>7, <2>3, NextIsAHow DEF Advance
    <2>5. pool2 = pool + freed /\ rest2 = rest - freed + 1
      BY <1>3, <2>2
    <2>6. /\ to # Off /\ InHand = 1 /\ InHand' = 0 /\ iter'["main"] = iter["main"] + 1
          /\ Instr("main")'.op # "freepool"
      BY <1>4, <1>9, <2>4, PoolMoves
    <2>7. pool2 \in Nat /\ rest2 \in Nat /\ pool2 + rest2 = pool + rest + 1
      BY <1>2, <2>5
    <2> HIDE DEF to, pool, rest, pool2, rest2
    <2> QED
      BY <1>2, <2>3, <2>6, <2>7
  <1>10. CASE i.op = "drain"
    <2>1. Boxes("main")
      BY <1>10, PoolActions DEF PoolOps
    <2>2. /\ flag' = [flag EXCEPT !["pool"] = @ + flag["retired"], !["retired"] = 0]
          /\ Advance("main") /\ UNCHANGED live
      BY <1>10, <2>1 DEF Boxes, At
    <2>3. Went("main", "next")
      BY <1>7, <2>2, NextIsAHow DEF Advance
    <2>4. pool2 = pool + rest /\ rest2 = 0
      BY <1>3, <2>2
    <2>5. to # Off /\ InHand = 0 /\ InHand' = 0 /\ iter'["main"] = iter["main"]
      BY <1>4, <1>10, <2>3, PoolMoves
    <2> HIDE DEF to, pool, rest, pool2, rest2
    <2> QED
      BY <1>2, <2>2, <2>4, <2>5
  <1>11. CASE i.op = "freepool"
    <2>1. Boxes("main")
      BY <1>11, PoolActions DEF PoolOps
    <2>2. /\ live' = [live EXCEPT !["box"] = @ - flag["pool"]]
          /\ flag' = [flag EXCEPT !["pool"] = 0] /\ Advance("main")
      BY <1>11, <2>1 DEF Boxes, At
    <2>3. Went("main", "next")
      BY <1>7, <2>2, NextIsAHow DEF Advance
    <2>4. pool2 = 0 /\ rest2 = rest
      BY <1>3, <2>2
    <2>5. InHand = 0 /\ rest = 0
      BY <1>2, <1>11, <2>3, PoolMoves
    <2>6. \A x \in Pointers : live[x] = IF x = "box" THEN pool ELSE 0
      BY <1>2, <2>5
    <2>7. DOMAIN live' = Pointers /\ \A x \in Pointers : live'[x] = 0
      <3>1. live' = [live EXCEPT !["box"] = @ - pool]
        BY <2>2
      <3> HIDE DEF pool
      <3>2. /\ DOMAIN live' = Pointers
            /\ \A x \in Pointers : live'[x] = IF x = "box" THEN live[x] - pool ELSE live[x]
        BY <1>2, <3>1
      <3>3. pool - pool = 0
        BY <1>2
      <3> QED
        BY <2>6, <3>2, <3>3
    <2> QED
      BY <1>2, <1>4, <1>11, <2>3, <2>4, <2>5, <2>7, PoolMoves
  <1> QED
    BY <1>6, <1>8, <1>9, <1>10, <1>11 DEF PoolOps

LEMMA PoolInductive == PathInv /\ MemoryInv /\ PoolInv /\ [Next]_vars => PoolInv'
  <1> SUFFICES ASSUME PathInv, MemoryInv, PoolInv, [Next]_vars PROVE PoolInv'
    OBVIOUS
  <1>1. CASE UNCHANGED vars
    BY <1>1 DEF vars, PoolInv, InHand, Instr, Code, Body, Kid
  <1>2. CASE run_measured
    <2>1. SUFFICES ASSUME row.most = 0 PROVE PoolInv'
      BY <1>2 DEF run_measured, PoolInv
    <2>2. /\ pc'["main"] = FirstOf(Body(row), Setup) /\ iter'["main"] = 0
          /\ flag' = flag /\ live' = Kept(live) /\ pc["main"] = Off
      BY <1>2, Processes DEF run_measured, From
    <2>3. pc'["main"] # Off /\ pc'["main"] # <<Loop, 2>>
      BY <2>1, <2>2, PoolReads
    <2>4. /\ flag["pool"] = 0 /\ flag["retired"] = 0 /\ InHand = 0
          /\ \A x \in Pointers : live[x] = 0
      BY <2>1, <2>2 DEF PoolInv, InHand
    <2>5. DOMAIN live' = Pointers /\ \A x \in Pointers : live'[x] = 0
      BY <2>2, <2>4 DEF Kept
    <2>6. InHand' = 0
      BY <2>3 DEF InHand
    <2> QED
      BY <2>2, <2>3, <2>4, <2>5, <2>6 DEF PoolInv
  <1>3. ASSUME NEW p \in Procs, Step(p) PROVE PoolInv'
    <2>1. row' = row
      BY <1>3, StepSteps DEF Stepped, Stopped, harness
    <2> QED
      BY <1>3, <2>1, PoolGoesOn DEF PoolInv
  <1> QED
    BY <1>1, <1>2, <1>3 DEF Next

LEMMA PoolInit == Init => PoolInv
  <1> SUFFICES ASSUME Init PROVE PoolInv
    OBVIOUS
  <1>1. /\ pc["main"] = Off /\ flag = [f \in Flags |-> 0] /\ live = [r \in Pointers |-> 0]
    BY Processes DEF Init
  <1> QED
    BY <1>1 DEF PoolInv, InHand, Flags

-----------------------------------------------------------------------------
\* Nothing that a row allocates piles up, however often its body is called,
\* whatever b->n is and whatever fails; and the pool of reclaim_retire never
\* holds more boxes than the call has iterations.
THEOREM MemoryDoesNotGrow == Spec => []NothingLost
  <1>1. PathInv /\ MemoryInv /\ PoolInv /\ Counted => NothingLost
    <2> SUFFICES ASSUME PathInv, MemoryInv, PoolInv, Counted PROVE NothingLost
      OBVIOUS
    <2>1. CASE row.most # 0
      <3>1. PICK m \in Accounts(row) : m.live = live
        BY <2>1 DEF MemoryInv, Accounted
      <3>2. \A x \in Pointers : m.live[x] <= row.most
        BY <2>1, AccountsOfRow DEF MemoryReadsWell, UsesAndFrees
      <3> QED
        BY <2>1, <3>1, <3>2 DEF NothingLost
    <2>2. CASE row.most = 0
      <3>1. n \in Nat /\ iter["main"] \in Nat /\ iter["main"] <= n
            /\ (pc["main"] = <<Loop, 2>> => iter["main"] < n)
        BY <2>2, PoolReads DEF Counted
      <3>2. \A x \in Pointers : live[x] <= n
        BY <2>2, <3>1 DEF PoolInv, InHand
      <3> QED
        BY <2>2, <3>2 DEF NothingLost
    <2> QED
      BY <2>1, <2>2
  <1> QED
    BY <1>1, Paths, Counting, FarewellInit, FarewellInductive, MemoryInit, MemoryInductive, PoolInit, PoolInductive, PTL DEF Spec

\* A body that met no failure has freed what it allocated, apart from the known
\* leaks; and where the body waits for what it starts, or ends the runtime,
\* nobody is left running when it returns.
THEOREM BodiesCleanUp == Spec => [](EndsAlone(row) => CleanReturn)
  <1>1. PathInv /\ MemoryInv /\ PoolInv /\ WordsPutBack => (EndsAlone(row) => CleanReturn)
    <2> SUFFICES ASSUME PathInv, MemoryInv, PoolInv, WordsPutBack, EndsAlone(row), Returned
                 PROVE  /\ \A p \in Procs : pc[p] = Off
                        /\ ~failed => \A r \in Pointers \ (Statics \cup KnownLeaks) : live[r] = 0
      BY DEF CleanReturn
    <2>1. pc["main"] = Off /\ ~aborted
      BY DEF Returned
    <2>2. CASE row.most # 0
      <3>1. PICK m \in Accounts(row) : Fits(m)
        BY <2>1, <2>2 DEF MemoryInv, Accounted, Fits
      <3>2. m.at = Off
        BY <2>1, <3>1 DEF Fits
      <3>3. m.alone
        BY <3>1, <3>2 DEF EndsAlone
      <3>4. \A p \in Procs : pc[p] = Off
        BY <3>1, <3>2, <3>3, Processes DEF Fits
      <3>5. ~m.failed => \A x \in Pointers \ (Statics \cup KnownLeaks) : m.live[x] = 0
        BY <2>2, <3>1, <3>2, AccountsOfRow DEF MemoryReadsWell, UsesAndFrees
      <3> QED
        BY <3>1, <3>4, <3>5 DEF Fits
    <2>3. CASE row.most = 0
      <3>1. \A p \in Procs : pc[p] = Off
        BY <2>1, <2>3, PoolReads, KidsRest, Processes
      <3>2. \A x \in Pointers : live[x] = 0
        BY <2>1, <2>3 DEF PoolInv, InHand
      <3> QED
        BY <3>1, <3>2
    <2> QED
      BY <2>2, <2>3
  <1> QED
    BY <1>1, Paths, FarewellInit, FarewellInductive, MemoryInit, MemoryInductive, PoolInit, PoolInductive, BorrowedIsPutBack,
       PTL DEF Spec

-----------------------------------------------------------------------------
\* The types.  A process that goes on counts its rounds.
LEMMA MoveCounts ==
  ASSUME iter \in [Procs -> Nat], NEW how, Move(how)
  PROVE  iter' \in [Procs -> Nat]
  <1>1. \A p \in Procs : \A h : Rounds(p, h) \in Nat
    BY DEF Rounds
  <1> QED
    BY <1>1 DEF Move

LEMMA IterTyped ==
  ASSUME PathInv, iter \in [Procs -> Nat], NEW p \in Procs, Step(p)
  PROVE  iter' \in [Procs -> Nat]
  <1>1. \A q \in Procs : \A h : Rounds(q, h) \in Nat
    BY DEF Rounds
  <1>2. ASSUME NEW how, Leave(p, how) PROVE iter' \in [Procs -> Nat]
    BY <1>2, MoveCounts DEF Leave
  <1>3. CASE \/ bench_pause(p) \/ bench_resume(p) \/ AllocateOnce(p) \/ arena_reset(p)
             \/ Release(p) \/ Call(p) \/ chan_close(p) \/ AwaitOthers(p)
    BY <1>2, <1>3 DEF bench_pause, bench_resume, AllocateOnce, arena_reset, Release, Call,
                      chan_close, AwaitOthers, Advance
  <1>4. CASE Abort
    BY <1>4 DEF Abort
  <1>5. CASE Allocate(p) \/ GiveUp(p) \/ Boxes(p) \/ Word(p) \/ Buffered(p)
    BY <1>2, <1>4, <1>5 DEF Allocate, GiveUp, Boxes, Word, Buffered, Advance
  <1>6. CASE NothingReady(p)
    BY <1>2, <1>6 DEF NothingReady, Advance
  <1>7. CASE Rendezvous(p)
    BY <1>7, MoveCounts DEF Rendezvous
  <1>8. CASE EndRuntime(p)
    BY <1>1, <1>8 DEF EndRuntime
  <1>9. CASE Start(p)
    <2>1. CASE Leave(p, Instr(p).onfail)
      BY <1>2, <2>1
    <2>2. CASE iter' = [iter EXCEPT ![Kids[Min(Idle)]] = 0, ![p] = Rounds(p, "next")]
      BY <1>1, <2>2
    <2> QED
      BY <1>9, <2>1, <2>2 DEF Start
  <1> QED
    BY <1>3, <1>5, <1>6, <1>7, <1>8, <1>9 DEF Step

\* The words stay natural numbers.
LEMMA WordPlusOne ==
  ASSUME flag \in [Flags -> Nat], NEW f, NEW k \in Nat
  PROVE  /\ [flag EXCEPT ![f] = @ + 1] \in [Flags -> Nat]
         /\ [flag EXCEPT ![f] = IF @ = k THEN @ + 1 ELSE @] \in [Flags -> Nat]
  <1>1. CASE f \in Flags
    BY <1>1
  <1>2. CASE f \notin Flags
    BY <1>2
  <1> QED
    BY <1>1, <1>2

LEMMA FlagTyped ==
  ASSUME PathInv, Numbers, NEW p \in Procs, Step(p)
  PROVE  flag' \in [Flags -> Nat]
  <1>1. flag \in [Flags -> Nat] /\ iter[p] \in Nat /\ pc[p] # Off
    BY OnlyTheRunningStep DEF Numbers
  <1>2. CASE UNCHANGED flag
    BY <1>1, <1>2
  <1>3. CASE Word(p)
    <2> DEFINE i == Instr(p)
    <2>1. WellTyped(i)
      BY <1>1, InstrReads
    <2>2. \/ i.op = "store" /\ flag' = [flag EXCEPT ![i.f] = i.v]
          \/ i.op = "load"  /\ flag' = [flag EXCEPT ![i.local] = flag[i.f]]
          \/ flag' = [flag EXCEPT ![i.f] = @ + 1]
          \/ i.op = "shift" /\ flag' = [flag EXCEPT ![i.f] = IF @ = i.from THEN i.v ELSE @]
          \/ flag' = [flag EXCEPT ![i.f] = IF @ = iter[p] THEN @ + 1 ELSE @]
          \/ UNCHANGED flag
      BY <1>3 DEF Word
    <2>3. /\ i.op \in {"store", "shift"} => i.v \in Nat
          /\ i.op = "load" => i.f \in Flags
      BY <2>1 DEF WellTyped
    <2> HIDE DEF i
    <2>4. CASE i.op = "store" /\ flag' = [flag EXCEPT ![i.f] = i.v]
      BY <1>1, <2>3, <2>4
    <2>5. CASE i.op = "load" /\ flag' = [flag EXCEPT ![i.local] = flag[i.f]]
      BY <1>1, <2>3, <2>5
    <2>6. CASE flag' = [flag EXCEPT ![i.f] = @ + 1]
      BY <1>1, <2>6, WordPlusOne
    <2>7. CASE i.op = "shift" /\ flag' = [flag EXCEPT ![i.f] = IF @ = i.from THEN i.v ELSE @]
      BY <1>1, <2>3, <2>7
    <2>8. CASE flag' = [flag EXCEPT ![i.f] = IF @ = iter[p] THEN @ + 1 ELSE @]
      BY <1>1, <2>8, WordPlusOne
    <2> QED
      BY <1>2, <2>2, <2>4, <2>5, <2>6, <2>7, <2>8
  <1>4. CASE Boxes(p)
    <2>1. "pool" \in Flags /\ "retired" \in Flags
      BY DEF Flags
    <2>2. \/ flag["pool"] > 0 /\ flag' = [flag EXCEPT !["pool"] = @ - 1]
          \/ UNCHANGED flag
          \/ \E freed \in {0, flag["retired"]} :
               flag' = [flag EXCEPT !["pool"] = @ + freed, !["retired"] = @ - freed + 1]
          \/ flag' = [flag EXCEPT !["pool"] = @ + flag["retired"], !["retired"] = 0]
          \/ flag' = [flag EXCEPT !["pool"] = 0]
      BY <1>4 DEF Boxes
    <2>3. CASE \E freed \in {0, flag["retired"]} :
                 flag' = [flag EXCEPT !["pool"] = @ + freed, !["retired"] = @ - freed + 1]
      BY <1>1, <2>1, <2>3
    <2> QED
      BY <1>1, <2>1, <2>2, <2>3
  <1>5. CASE Allocate(p)
    <2>1. (\E made : Fresh(made)) \/ UNCHANGED flag
      BY <1>5 DEF Allocate, Abort
    <2> QED
      BY <1>1, <2>1 DEF Fresh
  <1>6. CASE \/ bench_pause(p) \/ bench_resume(p) \/ AllocateOnce(p) \/ arena_reset(p)
             \/ Release(p) \/ Call(p) \/ chan_close(p) \/ AwaitOthers(p)
    BY <1>2, <1>6 DEF bench_pause, bench_resume, AllocateOnce, arena_reset, Release, Call,
                      chan_close, AwaitOthers
  <1>7. CASE \/ Buffered(p) \/ Rendezvous(p) \/ NothingReady(p) \/ Start(p) \/ EndRuntime(p)
             \/ GiveUp(p)
    BY <1>2, <1>7 DEF Buffered, Rendezvous, NothingReady, Start, EndRuntime, GiveUp, Abort
  <1> QED
    BY <1>3, <1>4, <1>5, <1>6, <1>7 DEF Step

\* And the rest keeps its type.
LEMMA AltsAreNumbered ==
  ASSUME PathInv, NEW p \in Procs, AtChan(p)
  PROVE  DOMAIN Alts(p) \subseteq Nat
  <1>1. pc[p] # Off /\ Instr(p).op \in {"select", "sendnext"}
    BY DEF AtChan
  <1>2. CASE Instr(p).op = "select"
    BY <1>1, <1>2, InstrReads DEF Alts, WellTyped
  <1>3. CASE Instr(p).op = "sendnext"
    BY <1>3 DEF Alts
  <1> QED
    BY <1>1, <1>2, <1>3

LEMMA GotTyped ==
  ASSUME PathInv, got \in Nat, NEW p \in Procs, Step(p)
  PROVE  got' \in Nat
  <1>1. ASSUME NEW q \in Procs, AtChan(q), NEW k \in DOMAIN Alts(q)
        PROVE  GotArm(q, k) \in Nat
    BY <1>1, AltsAreNumbered DEF GotArm
  <1>2. CASE Buffered(p)
    BY <1>1, <1>2 DEF Buffered, Ready
  <1>3. CASE Rendezvous(p)
    <2>1. PICK k \in Ready(p) : \E m \in Partners(p, Alts(p)[k]) :
            got' = IF m[1] = "main" THEN GotArm("main", m[2]) ELSE GotArm(p, k)
      BY <1>3 DEF Rendezvous
    <2>2. PICK m \in Partners(p, Alts(p)[k]) :
            got' = IF m[1] = "main" THEN GotArm("main", m[2]) ELSE GotArm(p, k)
      BY <2>1
    <2>3. m[1] \in Procs /\ m[1] \in parked /\ m[2] \in DOMAIN Alts(m[1])
      BY <2>2 DEF Partners
    <2>4. AtChan(p) /\ AtChan(m[1]) /\ k \in DOMAIN Alts(p)
      BY <1>3, <2>2, <2>3 DEF Rendezvous, PathInv, Sleepers, Ready
    <2> QED
      BY <1>1, <2>2, <2>3, <2>4
  <1>4. CASE Abort
    BY <1>4 DEF Abort, chans
  <1>5. CASE Allocate(p) \/ GiveUp(p) \/ Boxes(p) \/ Word(p)
    BY <1>4, <1>5 DEF Allocate, GiveUp, Boxes, Word, chans
  <1>6. CASE \/ bench_pause(p) \/ bench_resume(p) \/ AllocateOnce(p) \/ arena_reset(p)
             \/ Release(p) \/ Call(p) \/ chan_close(p) \/ AwaitOthers(p)
    BY <1>6 DEF bench_pause, bench_resume, AllocateOnce, arena_reset, Release, Call,
                chan_close, AwaitOthers, chans
  <1>7. CASE NothingReady(p) \/ Start(p) \/ EndRuntime(p)
    BY <1>7 DEF NothingReady, Start, EndRuntime, chans
  <1> QED
    BY <1>2, <1>3, <1>5, <1>6, <1>7 DEF Step

LEMMA RestTyped ==
  ASSUME PathInv, Numbers, NEW p \in Procs, Step(p)
  PROVE  closed' \in [Chans -> BOOLEAN] /\ failed' \in BOOLEAN /\ aborted' \in BOOLEAN
  <1>1. closed \in [Chans -> BOOLEAN] /\ failed \in BOOLEAN /\ aborted \in BOOLEAN
    BY DEF Numbers
  <1>2. CASE Abort
    BY <1>1, <1>2 DEF Abort, chans
  <1>3. CASE Allocate(p)
    <2>1. \/ failed' \in {failed, TRUE} /\ aborted' = aborted /\ \E made : Fresh(made)
          \/ Abort
      BY <1>3 DEF Allocate, outcome
    <2> QED
      BY <1>1, <1>2, <2>1 DEF Fresh
  <1>4. CASE chan_close(p)
    BY <1>1, <1>4 DEF chan_close, outcome
  <1>5. CASE Call(p)
    <2>1. failed' \in {failed, TRUE} /\ UNCHANGED <<closed, aborted>>
      BY <1>5 DEF Call, chans
    <2> QED
      BY <1>1, <2>1
  <1>6. CASE Boxes(p)
    <2>1. failed' \in {failed, TRUE} /\ UNCHANGED <<closed, aborted>>
      BY <1>6 DEF Boxes, chans
    <2> QED
      BY <1>1, <2>1
  <1>7. CASE Start(p)
    <2>1. failed' \in {failed, TRUE} /\ UNCHANGED <<closed, aborted>>
      BY <1>7 DEF Start, chans
    <2> QED
      BY <1>1, <2>1
  <1>8. CASE \/ bench_pause(p) \/ bench_resume(p) \/ AllocateOnce(p) \/ arena_reset(p)
             \/ Release(p) \/ AwaitOthers(p) \/ EndRuntime(p)
    BY <1>1, <1>8 DEF bench_pause, bench_resume, AllocateOnce, arena_reset, Release,
                      AwaitOthers, EndRuntime, chans, outcome
  <1>9. CASE Buffered(p) \/ Rendezvous(p) \/ NothingReady(p) \/ Word(p)
    BY <1>1, <1>9 DEF Buffered, Rendezvous, NothingReady, Word, chans, outcome
  <1> QED
    BY <1>2, <1>3, <1>4, <1>5, <1>6, <1>7, <1>8, <1>9 DEF Step, GiveUp

\* What is allocated and what is in the channels are tables, whatever is done.
Tables == live = [x \in Pointers |-> live[x]] /\ count = [c \in Chans |-> count[c]]

LEMMA TablesStay ==
  ASSUME Tables, NEW p \in Procs, Step(p)
  PROVE  Tables'
  <1>1. ASSUME UNCHANGED <<live, count>> PROVE Tables'
    BY <1>1 DEF Tables
  <1>2. CASE Allocate(p)
    <2>1. CASE Abort
      BY <1>1, <2>1 DEF Abort, chans
    <2>2. CASE ~Abort
      <3>1. \E made : Fresh(made)
        BY <1>2, <2>2 DEF Allocate
      <3>2. live' = Given(live, Range(Instr(p).rs)) \/ \E made : live' = Refused(live, Instr(p), made)
        BY <1>2, <2>2 DEF Allocate
      <3>3. count' = [c \in Chans |-> count'[c]]
        BY <3>1 DEF Fresh
      <3>4. live' = [x \in Pointers |-> live'[x]]
        BY <3>2 DEF Given, Refused
      <3> QED
        BY <3>3, <3>4 DEF Tables
    <2> QED
      BY <2>1, <2>2
  <1>3. CASE AllocateOnce(p)
    <2>1. live' = [live EXCEPT ![Instr(p).r] = 1] /\ UNCHANGED count
      BY <1>3 DEF AllocateOnce, chans
    <2> QED
      BY <2>1 DEF Tables
  <1>4. CASE arena_reset(p) \/ Release(p)
    <2>1. UNCHANGED count /\ (UNCHANGED live \/ \E l, rs : live' = Emptied(l, rs))
      BY <1>4 DEF arena_reset, Release, chans
    <2> QED
      BY <2>1 DEF Tables, Emptied
  <1>5. CASE Boxes(p)
    <2>1. /\ UNCHANGED count
          /\ \/ UNCHANGED live
             \/ live' = Given(live, {"box"})
             \/ live' = [live EXCEPT !["box"] = @ - flag["pool"]]
      BY <1>5 DEF Boxes, chans
    <2>2. CASE live' = [live EXCEPT !["box"] = @ - flag["pool"]]
      BY <2>1, <2>2 DEF Tables
    <2>3. CASE live' = Given(live, {"box"})
      BY <2>1, <2>3 DEF Tables, Given
    <2> QED
      BY <1>1, <2>1, <2>2, <2>3
  <1>6. CASE Buffered(p)
    <2>1. UNCHANGED live /\ \E c, x : count' = [count EXCEPT ![c] = x]
      BY <1>6 DEF Buffered
    <2> QED
      BY <2>1 DEF Tables
  <1>7. CASE Start(p)
    <2>1. UNCHANGED count /\ (UNCHANGED live \/ \E l, rs : live' = Released(l, rs))
      BY <1>7 DEF Start, chans
    <2> QED
      BY <2>1 DEF Tables, Released
  <1>8. CASE bench_pause(p) \/ bench_resume(p) \/ Call(p) \/ chan_close(p) \/ AwaitOthers(p)
    BY <1>1, <1>8 DEF bench_pause, bench_resume, Call, chan_close, AwaitOthers, chans
  <1>9. CASE Rendezvous(p) \/ NothingReady(p) \/ EndRuntime(p) \/ Word(p) \/ GiveUp(p)
    BY <1>1, <1>9 DEF Rendezvous, NothingReady, EndRuntime, Word, GiveUp, Abort, chans
  <1> QED
    BY <1>2, <1>3, <1>4, <1>5, <1>6, <1>7, <1>8, <1>9 DEF Step

LEMMA NumbersInit == Init => Numbers
  <1> SUFFICES ASSUME Init PROVE Numbers
    OBVIOUS
  <1>1. call = 0 /\ 0 \in 0..Calls
    BY CountAssumption DEF Init
  <1> QED
    BY <1>1 DEF Init, Numbers

LEMMA NumbersInductive == PathInv /\ Numbers /\ [Next]_vars => Numbers'
  <1> SUFFICES ASSUME PathInv, Numbers, [Next]_vars PROVE Numbers'
    OBVIOUS
  <1>1. CASE run_measured
    <2>1. call' \in 0..Calls /\ n' \in Counts
      BY <1>1, CountAssumption DEF run_measured, Numbers
    <2>2. iter' \in [Procs -> Nat] /\ failed' \in BOOLEAN
      BY <1>1 DEF run_measured
    <2>3. UNCHANGED <<flag, count, closed, got, aborted>>
      BY <1>1 DEF run_measured, chans
    <2>4. live' = [x \in Pointers |-> live'[x]]
      BY <1>1 DEF run_measured, Kept
    <2> QED
      BY <2>1, <2>2, <2>3, <2>4 DEF Numbers
  <1>2. ASSUME NEW p \in Procs, Step(p) PROVE Numbers'
    <2>1. UNCHANGED <<call, n>>
      BY <1>2, StepSteps DEF Stepped, Stopped, harness
    <2>2. Tables'
      BY <1>2, TablesStay DEF Tables, Numbers
    <2> QED
      BY <1>2, <2>1, <2>2, IterTyped, FlagTyped, GotTyped, RestTyped DEF Numbers, Tables
  <1>3. CASE UNCHANGED vars
    BY <1>3 DEF vars, harness, chans, outcome, Numbers
  <1> QED
    BY <1>1, <1>2, <1>3 DEF Next

\* Every row keeps to its types, whatever b->n is and however often its body is
\* called: nobody is past the end of its code, no pool and no count of what is
\* allocated falls below zero, and every word holds a number.
THEOREM TypesAreRight == Spec => []Typed
  <1>1. PathInv /\ Numbers /\ ChannelInv /\ MemoryInv /\ PoolInv => Typed
    <2> SUFFICES ASSUME PathInv, Numbers, ChannelInv, MemoryInv, PoolInv PROVE Typed
      OBVIOUS
    <2>1. /\ DOMAIN pc = Procs /\ parked \subseteq Procs
          /\ running \in BOOLEAN /\ managed \in BOOLEAN
      BY DEF PathInv, Shapes, Sleepers
    <2>2. \A p \in Procs : pc[p] = Off \/ pc[p][2] \in DOMAIN Code(p, pc[p][1])
      BY InstrReads
    <2>3. live \in [Pointers -> Nat]
      <3>1. CASE row.most # 0
        <4>1. PICK m \in Accounts(row) : m.live = live
          BY <3>1 DEF MemoryInv, Accounted
        <4>2. live \in [Pointers -> 0..row.most]
          BY <3>1, <4>1, AccountsOfRow DEF MemoryReadsWell, UsesAndFrees
        <4> QED
          BY <4>2
      <3>2. CASE row.most = 0
        <4>1. \A x \in Pointers : live[x] \in Nat
          BY <3>2 DEF PoolInv, InHand
        <4> QED
          BY <4>1 DEF Numbers
      <3> QED
        BY <3>1, <3>2
    <2>4. count \in [Chans -> Nat]
      <3>1. \A c \in Chans : count[c] \in Nat
        BY CapIsNat DEF ChannelInv
      <3> QED
        BY <3>1 DEF Numbers
    <2> QED
      BY <2>1, <2>2, <2>3, <2>4 DEF Numbers, Typed
  <1> QED
    BY <1>1, Paths, NumbersInit, NumbersInductive, ChannelsInit, ChannelsInductive,
       FarewellInit, FarewellInductive, MemoryInit, MemoryInductive, PoolInit, PoolInductive,
       PTL DEF Spec

-----------------------------------------------------------------------------
\* What reading the row says of the channels an instruction works on.
LEMMA ChannelReads ==
  ASSUME PathInv, SharesSafely(row), NEW p \in Procs, pc[p] # Off
  PROVE  LET i == Instr(p) IN
         /\ i.op # "close"
         /\ i.op = "select" => i.alts \in Seq({"send", "recv"} \X Chans)
         /\ i.op = "sendnext" => i.cs \in Seq(Chans) \ {<<>>}
  <1>1. \E s \in Stands(CodeOf(p)) : s.at = pc[p]
    BY Processes DEF PathInv, OnPath, Stand, CodeOf
  <1>2. InstrAt(CodeOf(p), pc[p]) = Instr(p)
    BY DEF InstrAt, Instr, Code, CodeOf
  <1>3. LeavesOpen(CodeOf(p))
    BY DEF SharesSafely, CodeOf
  <1> QED
    BY <1>1, <1>2, <1>3 DEF LeavesOpen

LEMMA ModuloIsLess == \A a \in Nat, b \in Nat \ {0} : (a % b) + 1 \in 1..b
  OBVIOUS

LEMMA AltsAreOnChannels ==
  ASSUME PathInv, SharesSafely(row), got \in Nat, NEW p \in Procs, AtChan(p)
  PROVE  /\ DOMAIN Alts(p) \subseteq Nat
         /\ \A k \in DOMAIN Alts(p) : Alts(p)[k][2] \in Chans
  <1> DEFINE i == Instr(p)
  <1>1. pc[p] # Off /\ i.op \in {"select", "sendnext"}
    BY DEF AtChan
  <1>2. CASE i.op = "select"
    <2>1. i.alts \in Seq({"send", "recv"} \X Chans) /\ Alts(p) = i.alts
      BY <1>1, <1>2, ChannelReads DEF Alts
    <2> HIDE DEF i
    <2> QED
      BY <2>1
  <1>3. CASE i.op = "sendnext"
    <2>1. i.cs \in Seq(Chans) /\ i.cs # <<>>
      BY <1>1, <1>3, ChannelReads
    <2>2. Alts(p) = << <<"send", i.cs[(got % Len(i.cs)) + 1]>> >>
      BY <1>3 DEF Alts
    <2> HIDE DEF i
    <2>3. Len(i.cs) \in Nat \ {0}
      BY <2>1
    <2>4. (got % Len(i.cs)) + 1 \in 1..Len(i.cs)
      BY <2>3, ModuloIsLess
    <2>5. i.cs[(got % Len(i.cs)) + 1] \in Chans
      BY <2>1, <2>4
    <2> QED
      BY <2>2, <2>5
  <1> QED
    BY <1>1, <1>2, <1>3

LEMMA OpenInit == Init => OpenInv
  BY DEF Init, OpenInv

LEMMA OpenInductive == PathInv /\ OpenInv /\ [Next]_vars => OpenInv'
  <1> SUFFICES ASSUME PathInv, OpenInv, [Next]_vars, SharesSafely(row')
               PROVE  got' \in Nat /\ closed' = [c \in Chans |-> FALSE]
    BY DEF OpenInv
  <1>1. row' = row
    <2>1. ASSUME NEW p \in Procs, Step(p) PROVE row' = row
      BY <2>1, StepSteps DEF Stepped, Stopped, harness
    <2> QED
      BY <2>1 DEF Next, run_measured, vars
  <1>2. SharesSafely(row) /\ got \in Nat /\ closed = [c \in Chans |-> FALSE]
    BY <1>1 DEF OpenInv
  <1>3. CASE UNCHANGED <<closed, got>>
    BY <1>2, <1>3
  <1>4. ASSUME NEW p \in Procs, Step(p), ~UNCHANGED <<closed, got>>
        PROVE  got' \in Nat /\ closed' = [c \in Chans |-> FALSE]
    <2>1. CASE Buffered(p) \/ Rendezvous(p)
      <3>1. closed' = closed
        BY <2>1 DEF Buffered, Rendezvous
      <3>2. \E q \in Procs : AtChan(q) /\ \E k \in DOMAIN Alts(q) : got' = GotArm(q, k)
        <4>1. CASE Buffered(p)
          BY <4>1 DEF Buffered, Ready
        <4>2. CASE Rendezvous(p)
          <5>1. PICK k \in Ready(p) : \E m \in Partners(p, Alts(p)[k]) :
                  got' = IF m[1] = "main" THEN GotArm("main", m[2]) ELSE GotArm(p, k)
            BY <4>2 DEF Rendezvous
          <5>2. PICK m \in Partners(p, Alts(p)[k]) :
                  got' = IF m[1] = "main" THEN GotArm("main", m[2]) ELSE GotArm(p, k)
            BY <5>1
          <5>3. m[1] \in Procs /\ m[1] \in parked /\ m[2] \in DOMAIN Alts(m[1])
            BY <5>2 DEF Partners
          <5>4. AtChan(p) /\ AtChan(m[1]) /\ k \in DOMAIN Alts(p)
            BY <4>2, <5>2, <5>3 DEF Rendezvous, PathInv, Sleepers, Ready
          <5> QED
            BY <5>2, <5>3, <5>4
        <4> QED
          BY <2>1, <4>1, <4>2
      <3>3. PICK q \in Procs : AtChan(q) /\ \E k \in DOMAIN Alts(q) : got' = GotArm(q, k)
        BY <3>2
      <3>4. DOMAIN Alts(q) \subseteq Nat
        BY <1>2, <3>3, AltsAreOnChannels
      <3>5. got' \in Nat
        BY <1>2, <3>3, <3>4 DEF GotArm
      <3> QED
        BY <1>2, <3>1, <3>5
    <2>2. CASE Allocate(p)
      <3>1. ~Abort
        BY <1>4 DEF Abort, chans
      <3>2. got' = got /\ \E made : Fresh(made)
        BY <2>2, <3>1 DEF Allocate
      <3> QED
        BY <1>2, <3>2 DEF Fresh
    <2>3. ~chan_close(p)
      <3>1. ASSUME chan_close(p) PROVE FALSE
        <4>1. pc[p] # Off /\ Instr(p).op = "close"
          BY <3>1 DEF chan_close, At
        <4> QED
          BY <1>2, <4>1, ChannelReads
      <3> QED
        BY <3>1
    <2>4. CASE GiveUp(p)
      BY <1>4, <2>4 DEF GiveUp, Abort, chans
    <2>5. CASE Boxes(p) \/ Word(p)
      BY <1>4, <2>5 DEF Boxes, Word, chans
    <2>6. CASE bench_pause(p) \/ bench_resume(p) \/ AllocateOnce(p) \/ arena_reset(p) \/ Release(p)
               \/ Call(p) \/ AwaitOthers(p) \/ NothingReady(p) \/ Start(p) \/ EndRuntime(p)
      BY <1>4, <2>6 DEF bench_pause, bench_resume, AllocateOnce, arena_reset, Release, Call,
                        AwaitOthers, NothingReady, Start, EndRuntime, chans
    <2> QED
      BY <1>4, <2>1, <2>2, <2>3, <2>4, <2>5, <2>6 DEF Step
  <1>5. CASE run_measured \/ UNCHANGED vars
    BY <1>3, <1>5 DEF run_measured, vars, chans
  <1> QED
    BY <1>3, <1>4, <1>5 DEF Next

\* Where all that is shared is live while somebody else may run, nobody uses
\* what has been freed or was never allocated, in any iteration of any call,
\* and nobody sends on a closed channel.  The body of a ping-pong row waits for
\* the word that its child leaves as the very last thing it does, and frees the
\* channels behind it.  Left out are the two rows that close a channel somebody
\* else works on, chan_prodcons and synctest_wait_parked.
THEOREM NothingFreedIsUsed == Spec => [](SharesSafely(row) => NoStaleUse)
  <1>1. PathInv /\ MemoryInv /\ PoolInv /\ OpenInv => (SharesSafely(row) => NoStaleUse)
    <2> SUFFICES ASSUME PathInv, MemoryInv, PoolInv, OpenInv, SharesSafely(row),
                        NEW p \in Procs, pc[p] # Off
                 PROVE  /\ \A r \in Instr(p).uses : live[r] > 0
                        /\ AtChan(p) => \A k \in DOMAIN Alts(p) :
                             Alts(p)[k][1] = "send" => ~closed[Alts(p)[k][2]]
      BY DEF NoStaleUse
    <2>1. ~aborted
      BY DEF MemoryInv
    <2>2. InstrAt(CodeOf(p), pc[p]) = Instr(p)
      BY DEF InstrAt, Instr, Code, CodeOf
    <2>3. ASSUME row.most # 0 PROVE \A r \in Instr(p).uses : live[r] > 0
      <3>1. PICK m \in Accounts(row) : Fits(m)
        BY <2>1, <2>3 DEF MemoryInv, Accounted, Fits
      <3>2. m.live = live /\ m.at = pc["main"] /\ (m.alone => \A q \in Range(Kids) : pc[q] = Off)
        BY <3>1 DEF Fits
      <3>3. ASSUME p = "main" PROVE \A r \in Instr(p).uses : live[r] > 0
        <4>1. \A x \in InstrAt(Body(row), m.at).uses : m.live[x] > 0
          BY <2>3, <3>2, <3>3, AccountsOfRow DEF MemoryReadsWell, UsesAndFrees
        <4>2. InstrAt(Body(row), m.at) = Instr(p)
          BY <2>2, <3>2, <3>3 DEF CodeOf
        <4> QED
          BY <3>2, <4>1, <4>2
      <3>4. ASSUME p # "main" PROVE \A r \in Instr(p).uses : live[r] > 0
        <4>1. PICK s \in Stands(Kid(row)) : s.at = pc[p]
          BY <3>4, Processes DEF PathInv, OnPath
        <4>2. ~m.alone
          BY <3>2, <3>4, Processes
        <4>3. InstrAt(Kid(row), s.at) = Instr(p)
          BY <2>2, <3>4, <4>1 DEF CodeOf
        <4>4. \A x \in InstrAt(Kid(row), s.at).uses : m.live[x] > 0
          BY <4>1, <4>2 DEF SharesSafely
        <4> QED
          BY <3>2, <4>3, <4>4
      <3> QED
        BY <3>3, <3>4
    <2>4. ASSUME row.most = 0 PROVE \A r \in Instr(p).uses : live[r] > 0
      <3>1. p = "main"
        BY <2>4, PoolReads, KidsRest, Processes
      <3>2. Instr("main").uses # {} => pc["main"] = <<Loop, 2>>
        BY <2>4, <3>1, PoolReads
      <3>3. Instr("main").uses \subseteq {"box"} /\ "box" \in Pointers
        BY <2>4, <3>1, PoolReads DEF Pointers
      <3>4. pc["main"] = <<Loop, 2>> => live["box"] > 0
        BY <2>4, <3>3 DEF PoolInv, InHand
      <3> QED
        BY <3>1, <3>2, <3>3, <3>4
    <2>5. ASSUME AtChan(p), NEW k \in DOMAIN Alts(p) PROVE ~closed[Alts(p)[k][2]]
      BY <2>5, AltsAreOnChannels DEF OpenInv
    <2> QED
      BY <2>3, <2>4, <2>5
  <1> QED
    BY <1>1, Paths, FarewellInit, FarewellInductive, MemoryInit, MemoryInductive, PoolInit, PoolInductive, OpenInit, OpenInductive,
       PTL DEF Spec

-----------------------------------------------------------------------------
\* What the words hold that the operation of the row is to meet.
Seen == [f \in Watched(Body(row)) |-> flag[f]]
SeenStay == \A f \in Watched(Body(row)) : flag'[f] = flag[f]

LEMMA WordsReads ==
  ASSUME PathInv, FindsItsState(row), NEW p \in Procs, pc[p] # Off,
         WordsInv, ~aborted
  PROVE  LET i == Instr(p)  W == Watched(Body(row)) IN
         /\ W \subseteq Flags
         /\ (p = "main" /\ i.op \in {"store", "shift"}) \/ \A f \in W : SparesWord(i, f)
         /\ p # "main" => /\ i.op \notin {"make", "shift", "cas"}
                          /\ i.op = "select" => i.expect = ""
  <1>1. InstrAt(CodeOf(p), pc[p]) = Instr(p)
    BY DEF InstrAt, Instr, Code, CodeOf
  <1>2. FindsItsWords(Body(row)) /\ KidSparesWords(Kid(row), Watched(Body(row)))
    BY DEF FindsItsState
  <1>3. CASE p = "main"
    <2>1. PICK v \in Sights(Body(row)) : v.at = pc["main"]
      BY DEF WordsInv
    <2> QED
      BY <1>1, <1>2, <1>3, <2>1 DEF FindsItsWords, CodeOf
  <1>4. CASE p # "main"
    <2>1. PICK s \in Stands(Kid(row)) : s.at = pc[p]
      BY <1>4, Processes DEF PathInv, OnPath
    <2> QED
      BY <1>1, <1>2, <1>4, <2>1 DEF FindsItsWords, KidSparesWords, CodeOf
  <1> QED
    BY <1>3, <1>4

\* Only a word's own instruction writes one of them, or a make of a note.
LEMMA WordsStayOrAreWritten ==
  ASSUME PathInv, FindsItsState(row), WordsInv, ~aborted, NEW p \in Procs, Step(p),
         p = "main" => Instr(p).op \notin {"store", "shift", "make"}
  PROVE  SeenStay
  <1>1. pc[p] # Off
    BY OnlyTheRunningStep
  <1>2. /\ Watched(Body(row)) \subseteq Flags /\ Instr(p).op # "make"
        /\ \A f \in Watched(Body(row)) : SparesWord(Instr(p), f)
    BY <1>1, WordsReads
  <1> QED
    BY <1>2, WordStays DEF SeenStay

LEMMA BodyWrites ==
  ASSUME PathInv, FindsItsState(row), WordsInv, ~aborted, Step("main"), ~Abort, row' = row,
         Instr("main").op \in {"store", "shift", "make"}
  PROVE  Seen' \in Writes(Instr("main"), Seen) /\ \E how : Went("main", how)
  <1> DEFINE W == Watched(Body(row))
             i == Instr("main")
  <1>1. pc["main"] # Off
    BY OnlyTheRunningStep, Processes
  <1>2. W \subseteq Flags /\ DOMAIN flag = Flags
    BY <1>1, WordsReads, Processes DEF PathInv, Shapes
  <1>3. Seen = [f \in W |-> flag[f]] /\ Seen' = [f \in W |-> flag'[f]]
    BY DEF Seen
  <1> HIDE DEF W
  <1>4. CASE i.op \in {"store", "shift"}
    <2>1. Word("main")
      BY <1>4, OnlyWordsAndMakes, Processes
    <2>2. i.op = "shift" => ~(i.f \in W) \/ flag[i.f] = i.from
      <3>1. PICK v \in Sights(Body(row)) : v.at = pc["main"] /\ v.words = Seen
        BY DEF WordsInv, Seen
      <3>2. InstrAt(Body(row), v.at) = i
        BY <3>1 DEF InstrAt, Instr, Code
      <3>3. i.op = "shift" => v.words[i.f] = i.from
        BY <1>1, <3>1, <3>2 DEF FindsItsState, FindsItsWords
      <3> QED
        BY <1>3, <3>1, <3>3
    <2>3. \A f \in W : flag'[f] = IF i.f = f THEN i.v ELSE flag[f]
      <3>1. CASE i.op = "store"
        <4>1. flag' = [flag EXCEPT ![i.f] = i.v]
          BY <2>1, <3>1 DEF Word
        <4> HIDE DEF i
        <4> QED
          BY <1>2, <4>1
      <3>2. CASE i.op = "shift"
        <4>1. flag' = [flag EXCEPT ![i.f] = IF @ = i.from THEN i.v ELSE @]
          BY <2>1, <3>2 DEF Word
        <4> HIDE DEF i
        <4> QED
          BY <1>2, <2>2, <3>2, <4>1
      <3> QED
        BY <1>4, <3>1, <3>2
    <2>4. Seen' = Written(i, {}, Seen)
      <3> HIDE DEF i
      <3> QED
        BY <1>3, <1>4, <2>3 DEF Written
    <2>5. Went("main", "next")
      <3>1. Leave("main", "next")
        BY <1>4, <2>1 DEF Word, Advance
      <3> QED
        BY <1>1, <3>1, LeaveMoves, NextIsAHow, Processes DEF Went
    <2> QED
      BY <1>4, <2>4, <2>5 DEF Writes
  <1>5. CASE i.op = "make"
    <2>1. PICK made \in SUBSET Range(i.rs) : Fresh(made)
      <3>1. Allocate("main")
        BY <1>5, OnlyWordsAndMakes, Processes
      <3>2. CASE Fresh(Range(i.rs))
        BY <3>2
      <3>3. CASE \E made \in SomeOf(i) : Fresh(made)
        <4>1. i.rs \in Seq(Pointers)
          BY <1>1, <1>5, InstrReads, Processes DEF SparesWords
        <4> HIDE DEF i
        <4>2. \A k \in 0..Len(i.rs) - 1 : Range(SubSeq(i.rs, 1, k)) \subseteq Range(i.rs)
          BY <4>1 DEF Range
        <4> QED
          BY <3>3, <4>2 DEF SomeOf
      <3> QED
        BY <3>1, <3>2, <3>3 DEF Allocate
    <2>2. \A f \in W : flag'[f] = IF f \in made THEN 0 ELSE flag[f]
      BY <1>2, <2>1 DEF Fresh
    <2>3. Seen' = Written(i, made, Seen)
      <3> HIDE DEF i
      <3> QED
        BY <1>3, <1>5, <2>2 DEF Written
    <2>4. \E how : Went("main", how)
      <3>1. \E how \in Hows(i) : Leave("main", how)
        <4>1. Allocate("main")
          BY <1>5, OnlyWordsAndMakes, Processes
        <4>2. i.onfail \notin {"never", "abort"} => i.onfail \in Hows(i)
          BY <1>5 DEF Hows
        <4> QED
          BY <4>1, <4>2, NextIsAHow DEF Allocate, Advance
      <3> QED
        BY <1>1, <3>1, LeaveMoves, Processes DEF Went
    <2> QED
      BY <1>5, <2>1, <2>3, <2>4 DEF Writes
  <1> QED
    BY <1>4, <1>5

LEMMA WordsInductive == PathInv /\ MemoryInv /\ WordsInv /\ [Next]_vars => WordsInv'
  <1> SUFFICES ASSUME PathInv, MemoryInv, WordsInv, [Next]_vars PROVE WordsInv'
    OBVIOUS
  <1> DEFINE code == Body(row)
             Fit(v)      == v.at = pc["main"] /\ v.words = Seen
             FitsNext(v) == v.at = pc'["main"] /\ v.words = Seen'
  <1>1. CASE UNCHANGED vars
    BY <1>1 DEF vars, WordsInv
  <1>2. CASE run_measured
    <2>1. row' = row /\ flag' = flag /\ ~aborted /\ pc["main"] = Off /\ pc'["main"] = FirstOf(code, Setup)
      BY <1>2, Processes DEF run_measured, From
    <2>2. SUFFICES ASSUME FindsItsState(row)
                   PROVE  \E v \in Sights(code) : FitsNext(v)
      BY <2>1 DEF WordsInv, Seen
    <2>3. PICK v \in Sights(code) : v.at = Off /\ v.words = Seen
      BY <2>1, <2>2 DEF WordsInv, Seen
    <2>4. View(FirstOf(code, Setup), v.words) \in Views(code, v)
      BY <2>3 DEF Views
    <2>5. View(FirstOf(code, Setup), v.words) \in Sights(code)
      BY <2>2, <2>4 DEF FindsItsState, FindsItsWords
    <2>6. Seen' = Seen
      BY <2>1 DEF Seen
    <2>7. FitsNext(View(FirstOf(code, Setup), v.words))
      BY <2>1, <2>3, <2>6 DEF View
    <2> QED
      BY <2>5, <2>7
  <1>3. ASSUME NEW p \in Procs, Step(p) PROVE WordsInv'
    <2>1. ~aborted
      BY <1>3, OnlyTheRunningStep DEF MemoryInv
    <2>2. CASE Abort
      BY <2>2 DEF Abort, WordsInv
    <2>3. CASE ~Abort /\ Stopped
      BY <2>3 DEF Stopped, WordsInv
    <2>4. CASE ~Abort /\ Stepped
      <3>1. row' = row
        BY <2>4 DEF Stepped, harness
      <3>2. SUFFICES ASSUME FindsItsState(row) PROVE \E v \in Sights(code) : FitsNext(v)
        BY <3>1 DEF WordsInv, Seen
      <3>3. PICK v \in Sights(code) : Fit(v)
        BY <2>1, <3>2 DEF WordsInv, Seen
      <3>4. CASE Rested("main") /\ SeenStay
        <4>1. Seen' = Seen
          BY <3>1, <3>4 DEF Seen, SeenStay
        <4> QED
          BY <3>3, <3>4, <4>1 DEF Rested
      <3>5. ASSUME NEW how, Went("main", how), Seen' \in Writes(Instr("main"), Seen)
            PROVE  \E t \in Sights(code) : FitsNext(t)
        <4>1. pc["main"] # Off /\ how \in Hows(Instr("main")) /\ pc'["main"] = Target("main", how)
          BY <3>5 DEF Went
        <4>2. pc'["main"] \in Goes(code, pc["main"])
          BY <4>1, InstrReads, TargetIsOnPath, Processes DEF CodeOf
        <4>3. InstrAt(code, v.at) = Instr("main")
          BY <3>3 DEF InstrAt, Instr, Code
        <4>4. View(pc'["main"], Seen') \in Views(code, v)
          BY <3>3, <3>5, <4>1, <4>2, <4>3 DEF Views
        <4>5. View(pc'["main"], Seen') \in Sights(code)
          BY <3>2, <4>4 DEF FindsItsState, FindsItsWords
        <4>6. FitsNext(View(pc'["main"], Seen'))
          BY DEF View
        <4> QED
          BY <4>5, <4>6
      <3>6. CASE p = "main" /\ Instr("main").op \in {"store", "shift", "make"}
        <4>1. Seen' \in Writes(Instr("main"), Seen) /\ \E how : Went("main", how)
          BY <1>3, <2>1, <2>4, <3>1, <3>2, <3>6, BodyWrites
        <4> QED
          BY <3>5, <4>1
      <3>7. CASE ~(p = "main" /\ Instr("main").op \in {"store", "shift", "make"})
        <4>1. SeenStay
          BY <1>3, <2>1, <2>4, <3>2, <3>7, WordsStayOrAreWritten
        <4>2. CASE Rested("main")
          BY <3>4, <4>1, <4>2
        <4>3. ASSUME NEW how, Went("main", how), ~Rested("main")
              PROVE  \E t \in Sights(code) : FitsNext(t)
          <5>1. Instr("main").op \notin {"store", "shift", "make"}
            BY <1>3, <2>4, <3>7, <4>3, OthersMoveMain
          <5>2. Seen' = Written(Instr("main"), {}, Seen)
            BY <3>1, <4>1, <5>1 DEF Seen, SeenStay, Written
          <5>3. Seen' \in Writes(Instr("main"), Seen)
            BY <5>1, <5>2 DEF Writes
          <5> QED
            BY <3>5, <4>3, <5>3
        <4> QED
          BY <2>4, <4>2, <4>3 DEF Stepped, MainStep
      <3> QED
        BY <3>6, <3>7
    <2> QED
      BY <1>3, <2>2, <2>3, <2>4, StepSteps
  <1> QED
    BY <1>1, <1>2, <1>3 DEF Next

\* The word of a compare-and-swap is the number of the iteration.
LEMMA PaceInductive == PathInv /\ MemoryInv /\ PaceInv /\ [Next]_vars => PaceInv'
  <1> SUFFICES ASSUME PathInv, MemoryInv, PaceInv, [Next]_vars,
                      NobodyElse(row'), NEW f \in Flags, Paced(Body(row'), f)
               PROVE  /\ pc'["main"] = <<Setup, 1>> => iter'["main"] = 0
                      /\ pc'["main"] = <<Loop, 1>>  => flag'[f] = iter'["main"]
    BY DEF PaceInv
  <1>1. row' = row
    <2>1. ASSUME NEW p \in Procs, Step(p) PROVE row' = row
      BY <2>1, StepSteps DEF Stepped, Stopped, harness
    <2> QED
      BY <2>1 DEF Next, run_measured, vars
  <1>2. NobodyElse(row) /\ Paced(Body(row), f)
    BY <1>1
  <1>3. /\ pc["main"] = <<Setup, 1>> => iter["main"] = 0
        /\ pc["main"] = <<Loop, 1>>  => flag[f] = iter["main"]
    BY <1>2 DEF PaceInv
  <1>4. CASE UNCHANGED vars
    BY <1>3, <1>4 DEF vars
  <1>5. CASE run_measured
    <2>1. pc'["main"] = FirstOf(Body(row), Setup) /\ iter'["main"] = 0
      BY <1>5, Processes DEF run_measured, From
    <2> QED
      BY <1>2, <2>1 DEF Paced
  <1>6. ASSUME NEW p \in Procs, Step(p), ~Stopped
        PROVE  /\ pc'["main"] = <<Setup, 1>> => iter'["main"] = 0
               /\ pc'["main"] = <<Loop, 1>>  => flag'[f] = iter'["main"]
    <2> DEFINE i == Instr("main")
    <2>1. p = "main" /\ pc["main"] # Off
      BY <1>2, <1>6, KidsRest, OnlyTheRunningStep, Processes
    <2>2. /\ i.f = f
          /\ \/ pc["main"] = <<Setup, 1>> /\ i.op = "store" /\ i.v = 0
             \/ pc["main"] = <<Loop, 1>> /\ i.op = "cas"
      <3>1. PICK s \in Stands(Body(row)) : s.at = pc["main"]
        BY <2>1 DEF PathInv, OnPath, Stand
      <3>2. InstrAt(Body(row), s.at) = i
        BY <3>1 DEF InstrAt, Instr, Code
      <3> QED
        BY <1>2, <2>1, <3>1, <3>2 DEF Paced
    <2>3. Word("main") /\ Leave("main", "next")
      <3>1. Word("main")
        BY <1>6, <2>1, <2>2, OnlyWordsAndMakes
      <3> QED
        BY <2>2, <3>1 DEF Word, Advance
    <2>4. iter'["main"] = Rounds("main", "next") /\ iter["main"] \in Nat /\ Went("main", "next")
      BY <2>1, <2>3, LeaveMoves, NextIsAHow, Processes DEF MemoryInv, Went
    <2>5. DOMAIN flag = Flags
      BY DEF PathInv, Shapes
    <2>6. Len(Code("main", Loop)) = 1
      BY <1>2 DEF Paced, Code
    <2>7. CASE pc["main"] = <<Setup, 1>> /\ i.op = "store" /\ i.v = 0
      <3>1. flag' = [flag EXCEPT ![i.f] = i.v]
        BY <2>3, <2>7 DEF Word
      <3> HIDE DEF i
      <3>2. flag'[f] = 0
        BY <2>2, <2>5, <2>7, <3>1
      <3>3. iter'["main"] = 0
        BY <1>3, <2>4, <2>6, <2>7 DEF Rounds
      <3> QED
        BY <3>2, <3>3
    <2>8. CASE pc["main"] = <<Loop, 1>> /\ i.op = "cas"
      <3>1. flag' = [flag EXCEPT ![i.f] = IF @ = iter["main"] THEN @ + 1 ELSE @]
        BY <2>3, <2>8 DEF Word
      <3> HIDE DEF i
      <3>2. flag'[f] = iter["main"] + 1
        BY <1>3, <2>2, <2>5, <2>8, <3>1
      <3>3. iter'["main"] = iter["main"] + 1
        BY <2>4, <2>6, <2>8 DEF Rounds
      <3>4. pc'["main"][1] \in 2..5
        BY <2>4, <2>8, MainGoesOn
      <3> QED
        BY <3>2, <3>3, <3>4
    <2> QED
      BY <2>2, <2>7, <2>8
  <1>7. CASE Stopped
    BY <1>7, Processes DEF Stopped
  <1> QED
    BY <1>4, <1>5, <1>6, <1>7 DEF Next

\* A receive finds nothing in a channel that is open and empty.
LEMMA NothingToReceive ==
  ASSUME PathInv, NeverSends(Body(row)), AtChan("main"),
         count = [c \in Chans |-> 0], closed = [c \in Chans |-> FALSE]
  PROVE  \A k \in DOMAIN Alts("main") : ~AltReady(Alts("main")[k])
  <1> DEFINE i == Instr("main")
  <1>1. pc["main"] # Off /\ i.op \in {"select", "sendnext"}
    BY DEF AtChan
  <1>2. PICK s \in Stands(Body(row)) : s.at = pc["main"]
    BY <1>1 DEF PathInv, OnPath, Stand
  <1>3. InstrAt(Body(row), s.at) = i
    BY <1>2 DEF InstrAt, Instr, Code
  <1>4. i.op = "select" /\ i.alts \in Seq({"recv"} \X Chans)
    BY <1>1, <1>2, <1>3 DEF NeverSends
  <1>5. Alts("main") = i.alts
    BY <1>4 DEF Alts
  <1> HIDE DEF i
  <1>6. \A k \in DOMAIN i.alts : i.alts[k] \in {"recv"} \X Chans
    BY <1>4
  <1>7. \A a \in {"recv"} \X Chans : ~AltReady(a)
    <2> TAKE a \in {"recv"} \X Chans
    <2>1. a[1] = "recv" /\ a[2] \in Chans
      OBVIOUS
    <2>2. ~closed[a[2]] /\ count[a[2]] = 0
      BY <2>1
    <2> QED
      BY <2>1, <2>2 DEF AltReady
  <1> QED
    BY <1>5, <1>6, <1>7

\* Nothing is in a channel on which nobody sends.
LEMMA EmptyInductive == PathInv /\ OpenInv /\ EmptyInv /\ [Next]_vars => EmptyInv'
  <1> SUFFICES ASSUME PathInv, OpenInv, EmptyInv, [Next]_vars,
                      NobodyElse(row'), NeverSends(Body(row')), SharesSafely(row')
               PROVE  count' = [c \in Chans |-> 0]
    BY DEF EmptyInv
  <1>1. row' = row
    <2>1. ASSUME NEW p \in Procs, Step(p) PROVE row' = row
      BY <2>1, StepSteps DEF Stepped, Stopped, harness
    <2> QED
      BY <2>1 DEF Next, run_measured, vars
  <1>2. /\ NobodyElse(row) /\ NeverSends(Body(row)) /\ SharesSafely(row)
        /\ count = [c \in Chans |-> 0] /\ got \in Nat /\ closed = [c \in Chans |-> FALSE]
    BY <1>1 DEF EmptyInv, OpenInv
  <1>3. ASSUME NEW p \in Procs, Buffered(p) PROVE FALSE
    <2>1. AtChan(p) /\ \E k \in DOMAIN Alts(p) : AltReady(Alts(p)[k])
      BY <1>3 DEF Buffered, Ready
    <2>2. p = "main"
      BY <1>2, <2>1, KidsRest, Processes DEF AtChan
    <2> QED
      BY <1>2, <2>1, <2>2, NothingToReceive
  <1>4. ASSUME NEW p \in Procs, Allocate(p) PROVE count' = [c \in Chans |-> 0]
    <2>1. (\E made : Fresh(made)) \/ UNCHANGED count
      BY <1>4 DEF Allocate, Abort, chans
    <2> QED
      BY <1>2, <2>1 DEF Fresh
  <1>5. ASSUME NEW p \in Procs, Step(p), ~Buffered(p), ~Allocate(p) PROVE UNCHANGED count
    <2>1. CASE GiveUp(p)
      BY <2>1 DEF GiveUp, Abort, chans
    <2>2. CASE Boxes(p) \/ Word(p)
      BY <2>2 DEF Boxes, Word, chans
    <2>3. CASE bench_pause(p) \/ bench_resume(p) \/ AllocateOnce(p) \/ arena_reset(p) \/ Release(p)
               \/ Call(p) \/ chan_close(p) \/ AwaitOthers(p) \/ NothingReady(p)
      BY <2>3 DEF bench_pause, bench_resume, AllocateOnce, arena_reset, Release, Call,
                  chan_close, AwaitOthers, NothingReady, chans
    <2>4. CASE Rendezvous(p) \/ Start(p) \/ EndRuntime(p)
      BY <2>4 DEF Rendezvous, Start, EndRuntime, chans
    <2> QED
      BY <1>5, <2>1, <2>2, <2>3, <2>4 DEF Step
  <1>6. ASSUME run_measured \/ UNCHANGED vars PROVE UNCHANGED count
    BY <1>6 DEF run_measured, vars, chans
  <1> QED
    BY <1>2, <1>3, <1>4, <1>5, <1>6 DEF Next

LEMMA MeasuredInit == Init => WordsInv /\ PaceInv /\ EmptyInv
  <1> SUFFICES ASSUME Init PROVE WordsInv /\ PaceInv /\ EmptyInv
    OBVIOUS
  <1>1. /\ pc["main"] = Off /\ flag = [f \in Flags |-> 0] /\ count = [c \in Chans |-> 0]
    BY Processes DEF Init
  <1>2. FindsItsState(row) => Watched(Body(row)) \subseteq Flags /\ Unwritten(Body(row)) \in Sights(Body(row))
    BY DEF FindsItsState, FindsItsWords
  <1>3. Unwritten(Body(row)).at = Off
        /\ Unwritten(Body(row)).words = [f \in Watched(Body(row)) |-> 0]
    BY DEF Unwritten, View
  <1>4. WordsInv
    BY <1>1, <1>2, <1>3 DEF WordsInv
  <1> QED
    BY <1>1, <1>4 DEF PaceInv, EmptyInv

\* What a loop measures is what the row is named after, in every iteration of
\* every call: a queue is as full, a lock as free and a word what the operation
\* expects, whatever an earlier call left behind.  Left out is the row whose
\* channel is to have somebody waiting, which the runs show.
THEOREM LoopsMeetTheirState == Spec => [](FindsItsState(row) => MeasuresWhatItSays)
  <1>1. PathInv /\ MemoryInv /\ OpenInv /\ WordsInv /\ PaceInv /\ EmptyInv =>
          (FindsItsState(row) => MeasuresWhatItSays)
    <2> SUFFICES ASSUME PathInv, MemoryInv, OpenInv, WordsInv, PaceInv, EmptyInv,
                        FindsItsState(row), NEW p \in Procs, pc[p] # Off
                 PROVE  LET i == Instr(p) IN
                        /\ i.op = "shift" => flag[i.f] = i.from
                        /\ i.op = "cas"   => flag[i.f] = iter[p]
                        /\ i.op = "select" /\ i.expect # "" => (Ready(p) # {}) = (i.expect = "ready")
      BY DEF MeasuresWhatItSays
    <2> DEFINE i == Instr(p)
    <2>1. ~aborted
      BY DEF MemoryInv
    <2>2. p # "main" => i.op \notin {"shift", "cas"} /\ (i.op = "select" => i.expect = "")
      BY <2>1, WordsReads
    <2>3. ASSUME p = "main"
          PROVE  \E s \in Stands(Body(row)) : s.at = pc["main"] /\ s.at # Off /\ InstrAt(Body(row), s.at) = i
      <3>1. PICK s \in Stands(Body(row)) : s.at = pc["main"]
        BY <2>3 DEF PathInv, OnPath, Stand
      <3>2. InstrAt(Body(row), s.at) = i
        BY <2>3, <3>1 DEF InstrAt, Instr, Code
      <3> QED
        BY <2>3, <3>1, <3>2
    <2>4. ASSUME i.op = "shift" PROVE flag[i.f] = i.from
      <3>1. p = "main"
        BY <2>2, <2>4
      <3>2. i.f \in Watched(Body(row))
        BY <2>3, <2>4, <3>1 DEF Watched
      <3>3. PICK v \in Sights(Body(row)) :
              v.at = pc["main"] /\ v.words = [f \in Watched(Body(row)) |-> flag[f]]
        BY <2>1 DEF WordsInv
      <3>4. InstrAt(Body(row), v.at) = i
        BY <3>1, <3>3 DEF InstrAt, Instr, Code
      <3>5. v.words[i.f] = i.from
        BY <2>4, <3>1, <3>3, <3>4 DEF FindsItsState, FindsItsWords
      <3> HIDE DEF i
      <3> QED
        BY <3>2, <3>3, <3>5
    <2>5. ASSUME i.op = "cas" PROVE flag[i.f] = iter[p]
      <3>1. p = "main"
        BY <2>2, <2>5
      <3>2. PICK s \in Stands(Body(row)) : s.at = pc["main"] /\ s.at # Off /\ InstrAt(Body(row), s.at) = i
        BY <2>3, <3>1
      <3>3. Expects(Body(row), "cas")
        BY <2>5, <3>2 DEF Expects
      <3>4. PICK f \in Flags : NobodyElse(row) /\ Paced(Body(row), f)
        BY <3>3 DEF FindsItsState
      <3>5. s.at = <<Loop, 1>> /\ i.f = f
        BY <2>5, <3>2, <3>4 DEF Paced
      <3>6. flag[f] = iter["main"]
        BY <3>2, <3>4, <3>5 DEF PaceInv
      <3> QED
        BY <3>1, <3>5, <3>6
    <2>6. ASSUME i.op = "select", i.expect # "" PROVE (Ready(p) # {}) = (i.expect = "ready")
      <3>1. p = "main"
        BY <2>2, <2>6
      <3>2. PICK s \in Stands(Body(row)) : s.at = pc["main"] /\ s.at # Off /\ InstrAt(Body(row), s.at) = i
        BY <2>3, <3>1
      <3>3. /\ NobodyElse(row) /\ NeverSends(Body(row)) /\ SharesSafely(row)
            /\ i.expect # "ready"
        BY <2>6, <3>2 DEF FindsItsState
      <3>4. count = [c \in Chans |-> 0] /\ closed = [c \in Chans |-> FALSE]
        BY <3>3 DEF OpenInv, EmptyInv
      <3>5. AtChan("main")
        BY <2>6, <3>1 DEF AtChan
      <3>6. \A k \in DOMAIN Alts(p) : ~AltReady(Alts(p)[k])
        BY <3>1, <3>3, <3>4, <3>5, NothingToReceive
      <3>7. \A a : Partners(p, a) = {}
        BY <3>1, <3>3, KidsRest DEF Partners
      <3>8. Ready(p) = {}
        BY <3>6, <3>7 DEF Ready
      <3> QED
        BY <3>3, <3>8
    <2> QED
      BY <2>4, <2>5, <2>6
  <1> QED
    BY <1>1, Paths, FarewellInit, FarewellInductive, MemoryInit, MemoryInductive, OpenInit, OpenInductive, MeasuredInit,
       WordsInductive, PaceInductive, EmptyInductive, PTL DEF Spec
=============================================================================
