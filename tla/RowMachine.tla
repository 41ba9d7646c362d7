---------------------------- MODULE RowMachine ----------------------------
(***************************************************************************)
(* Runs the rows of a table, one row per behaviour, the way the harness     *)
(* does: the body is called several times in one process (pick_n and the    *)
(* repetitions of bench_main), with different counts, so a static that one  *)
(* call leaves behind is what the next call finds.  The goroutines a row    *)
(* starts interleave freely with its body; whatever the code tests for      *)
(* failure may fail.                                                        *)
(*                                                                          *)
(* Calls into burrow are one step each and do what the rows rely on.        *)
(***************************************************************************)
EXTENDS RowCode, Naturals, FiniteSets, FiniteSetsExt, Functions

CONSTANTS Table,    \* the rows, a sequence
          Calls,    \* how often the harness calls a body
          Counts    \* the iteration counts it chooses from

ASSUME TableAssumption == Table # <<>>
ASSUME CountAssumption == Calls \in Nat \ {0} /\ Counts \subseteq Nat \ {0} /\ Counts # {}

VARIABLES row,      \* the code of the row under test
          call, n,  \* calls begun, and b->n of the current one
          pc, iter, \* per process: <<part, position>> and bench_i_
          parked,   \* the goroutines asleep on a channel
          live,     \* how many targets of each pointer are allocated
          count, closed, got,   \* channels, and the arm main's select took
          flag,     \* the shared words
          running,  \* b->running
          managed,  \* the body stopped the clock before its loop
          failed, aborted

vars == <<row, call, n, pc, iter, parked, live, count, closed, got, flag, running, managed,
          failed, aborted>>
chans == <<count, closed, got>>
clock == <<running, managed>>
outcome == <<failed, aborted>>
harness == <<row, call, n>>

Kids  == <<"k1", "k2", "k3">>
Procs == {"main"} \cup Range(Kids)
Chans == {"c1", "c2", "quit"}
Flags == {"stop", "done", "gone", "ran", "fired", "turn", "procs", "current", "note", "there",
          "back", "runq", "victim", "word", "keys", "pool", "retired"}

(* Pointers that live as long as the process, the arenas and what is in them. *)
Statics   == {"doc", "feed", "list", "items_tb", "hard", "huge", "long"}
InArena   == [m |-> "ar", p |-> "ar", q |-> "ar", t |-> "ar", t1 |-> "ar", t2 |-> "ar", kp |-> "keep"]
Pointers  == Statics \cup DOMAIN InArena \cup Chans \cup
             {"ar", "keep", "note", "there", "back", "stack", "ctx", "attach", "par",
              "kid1", "kid2", "box", "map", "h", "x", "y", "z", "w", "file", "buf", "ind",
              "items", "one", "track", "re", "num", "den", "source", "gen"}
Owned(ar) == {r \in DOMAIN InArena : InArena[r] = ar}

MaxN == Max(Counts)

----------------------------------------------------------------------------
(* Control.  The body runs setup, loop, after and finally; what it starts   *)
(* runs its own loop and, after a break, its last part.                     *)
Setup   == 1
Loop    == 2
After   == 3
Finally == 4
Off     == <<5, 0>>

Body(r) == <<r.setup, r.loop, r.after, r.finally>>
Kid(r)  == << <<>>, r.kid, r.last, <<>> >>

Code(p, part) == (IF p = "main" THEN Body(row) ELSE Kid(row))[part]

Instr(p) == Code(p, pc[p][1])[pc[p][2]]
At(p, op) == pc[p] # Off /\ Instr(p).op = op

(* The first instruction at or behind a part. *)
FirstOf(code, part) ==
  LET parts == {k \in part..Finally : code[k] # <<>>}
  IN IF parts = {} THEN Off ELSE <<Min(parts), 1>>

From(p, part) == FirstOf(IF p = "main" THEN Body(row) ELSE Kid(row), part)

(* Mutant: one iteration too many. *)
AgainOnceMore(p) == p # "main" \/ row.endless \/ iter[p] < n

(* for (bench_i_ = 0; bench_i_ < b->n; bench_i_++), around the body of a loop. *)
Again(p) == p # "main" \/ row.endless \/ iter[p] + 1 < n

Following(p) ==
  LET part == pc[p][1]  k == pc[p][2] IN
  CASE k < Len(Code(p, part))     -> <<part, k + 1>>
    [] k = Len(Code(p, part)) /\ part = Loop /\ Again(p) -> <<Loop, 1>>
    [] OTHER                      -> From(p, part + 1)

(* break leaves the loop, return goes to what the caller of the body does.  *)
(* Mutant: an early return leaves what the caller of the body does undone.   *)
ReturnsOut(p, how) ==
  CASE how = "next"   -> Following(p)
    [] how = "break"  -> From(p, After)
    [] how = "return" -> Off

Target(p, how) ==
  CASE how = "next"   -> Following(p)
    [] how = "break"  -> From(p, After)
    [] how = "return" -> From(p, Finally)

Rounds(p, how) ==
  IF how = "next" /\ pc[p] = <<Loop, Len(Code(p, Loop))>> THEN iter[p] + 1 ELSE iter[p]

(* Each process p of the domain of how goes on as how[p] says. *)
Move(how) ==
  /\ pc' = [p \in Procs |-> IF p \in DOMAIN how THEN Target(p, how[p]) ELSE pc[p]]
  /\ iter' = [p \in Procs |-> IF p \in DOMAIN how THEN Rounds(p, how[p]) ELSE iter[p]]
  /\ parked' = parked \ DOMAIN how

Leave(p, how) == Move([q \in {p} |-> how])
Advance(p)    == Leave(p, "next")

(* abort() and exit(1) end the process. *)
Abort ==
  /\ pc' = [p \in Procs |-> Off]
  /\ parked' = {}
  /\ aborted' = TRUE
  /\ UNCHANGED <<harness, iter, live, chans, flag, clock, failed>>

----------------------------------------------------------------------------
(* What a call finds of what earlier calls allocated. *)
Kept(l) == [r \in Pointers |-> IF r \in Statics THEN l[r] ELSE 0]

(* The harness.  run_measured clears b, starts the clock and calls the body; *)
(* a pointer left allocated by an earlier call is out of reach.              *)
run_measured ==
  /\ pc["main"] = Off /\ call < Calls /\ ~aborted
  /\ call' = call + 1
  /\ n' \in Counts
  /\ pc' = [p \in Procs |-> IF p = "main" THEN From(p, Setup) ELSE Off]
  /\ iter' = [p \in Procs |-> 0]
  /\ parked' = {}
  /\ live' = Kept(live)
  /\ running' = TRUE
  /\ managed' = FALSE
  /\ failed' = FALSE
  /\ UNCHANGED <<row, chans, flag, aborted>>

Returned == pc["main"] = Off /\ call > 0 /\ ~aborted
Done == pc["main"] = Off /\ (call = Calls \/ aborted)

bench_pause(p) ==
  /\ At(p, "pause")
  /\ running' = FALSE
  /\ managed' = (managed \/ pc[p][1] = Setup)
  /\ Advance(p)
  /\ UNCHANGED <<harness, live, chans, flag, outcome>>

(* Mutant: the clock is started again and still marked as stopped. *)
ResumeUnmarked(p) ==
  /\ At(p, "resume")
  /\ Advance(p)
  /\ UNCHANGED <<harness, live, chans, flag, clock, outcome>>

bench_resume(p) ==
  /\ At(p, "resume")
  /\ running' = TRUE
  /\ Advance(p)
  /\ UNCHANGED <<harness, live, chans, flag, managed, outcome>>

----------------------------------------------------------------------------
(* Memory. *)
Given(l, rs)    == [r \in Pointers |-> IF r \in rs THEN l[r] + 1 ELSE l[r]]
Released(l, rs) == [r \in Pointers |-> IF r \in rs /\ l[r] > 0 THEN l[r] - 1 ELSE l[r]]
Emptied(l, ars) == [r \in Pointers |-> IF r \in UNION {Owned(ar) : ar \in ars} THEN 0 ELSE l[r]]

(* What a refused "make" got before the refusal, and what is left of it.     *)
SomeOf(i) ==
  IF i.inOrder THEN {Range(SubSeq(i.rs, 1, k)) : k \in 0..Len(i.rs) - 1}
               ELSE SUBSET Range(i.rs) \ {Range(i.rs)}
Refused(l, i, made) ==
  [r \in Pointers |-> IF r \in i.drop /\ (r \in made \/ l[r] > 0) THEN 0 ELSE Given(l, made)[r]]

(* A channel is new when it is made, and a note cleared. *)
Fresh(made) ==
  /\ flag' = [f \in Flags |-> IF f \in made THEN 0 ELSE flag[f]]
  /\ count' = [c \in Chans |-> IF c \in made THEN 0 ELSE count[c]]
  /\ closed' = [c \in Chans |-> c \notin made /\ closed[c]]

Allocate(p) ==
  /\ At(p, "make")
  /\ LET i == Instr(p)  all == Range(i.rs) IN
     \/ /\ live' = Given(live, all)
        /\ Fresh(all)
        /\ Advance(p)
        /\ UNCHANGED <<harness, got, clock, outcome>>
     \/ /\ i.onfail \notin {"never", "abort"}
        /\ \E made \in SomeOf(i) : live' = Refused(live, i, made) /\ Fresh(made)
        /\ Leave(p, i.onfail)
        /\ failed' = TRUE
        /\ UNCHANGED <<harness, got, clock, aborted>>
     \/ i.onfail = "abort" /\ Abort

(* Mutant: what is kept is made again by every call. *)
AllocateAgain(p) ==
  /\ At(p, "once")
  /\ live' = [live EXCEPT ![Instr(p).r] = @ + 1]
  /\ Advance(p)
  /\ UNCHANGED <<harness, chans, flag, clock, outcome>>

AllocateOnce(p) ==
  /\ At(p, "once")
  /\ live' = [live EXCEPT ![Instr(p).r] = 1]
  /\ Advance(p)
  /\ UNCHANGED <<harness, chans, flag, clock, outcome>>

arena_reset(p) ==
  /\ At(p, "reset")
  /\ live' = IF iter[p] % Instr(p).every = 0 THEN Emptied(live, {Instr(p).r}) ELSE live
  /\ Advance(p)
  /\ UNCHANGED <<harness, chans, flag, clock, outcome>>

Release(p) ==
  /\ At(p, "free")
  /\ LET rs == Instr(p).rs IN live' = Emptied(Released(live, rs), rs)
  /\ Advance(p)
  /\ UNCHANGED <<harness, chans, flag, clock, outcome>>

(* Calls that leave nothing behind, or may find out that something is wrong. *)
Call(p) ==
  /\ \/ At(p, "work") /\ Advance(p) /\ UNCHANGED failed
     \/ At(p, "must") /\ Advance(p) /\ UNCHANGED failed
     \/ At(p, "try") /\ Advance(p) /\ failed' \in {failed, TRUE}
     \/ At(p, "verify") /\ ~failed /\ Advance(p) /\ UNCHANGED failed
  /\ UNCHANGED <<harness, live, chans, flag, clock, aborted>>

GiveUp(p) ==
  /\ \/ At(p, "must")
     \/ At(p, "verify") /\ failed
     \/ At(p, "once") /\ Instr(p).checked /\ live[Instr(p).r] = 0
  /\ Abort

(* box_get, burrow__retire, which may run box_free on what was retired, the  *)
(* drain and the loop that frees the pool (reclaim_bench.c 114-156).         *)
Boxes(p) ==
  /\ \/ /\ At(p, "boxget")
        /\ \/ flag["pool"] > 0 /\ flag' = [flag EXCEPT !["pool"] = @ - 1] /\ Advance(p)
              /\ UNCHANGED <<live, failed>>
           \/ flag["pool"] = 0 /\ live' = Given(live, {"box"}) /\ Advance(p) /\ UNCHANGED <<flag, failed>>
           \/ flag["pool"] = 0 /\ failed' = TRUE /\ Leave(p, "break") /\ UNCHANGED <<flag, live>>
     \/ /\ At(p, "retire")
        /\ \E freed \in {0, flag["retired"]} :
             flag' = [flag EXCEPT !["pool"] = @ + freed, !["retired"] = @ - freed + 1]
        /\ Advance(p) /\ UNCHANGED <<live, failed>>
     \/ /\ At(p, "drain")
        /\ flag' = [flag EXCEPT !["pool"] = @ + flag["retired"], !["retired"] = 0]
        /\ Advance(p) /\ UNCHANGED <<live, failed>>
     \/ /\ At(p, "freepool")
        /\ live' = [live EXCEPT !["box"] = @ - flag["pool"]]
        /\ flag' = [flag EXCEPT !["pool"] = 0]
        /\ Advance(p) /\ UNCHANGED failed
  /\ UNCHANGED <<harness, chans, clock, aborted>>

----------------------------------------------------------------------------
(* Channels.  A goroutine whose select can do nothing parks; the next one to *)
(* come by with the other half of an unbuffered exchange takes both along.   *)
Cap(c) == IF c \in DOMAIN row.cap THEN row.cap[c] ELSE 0

AltReady(a) ==
  IF a[1] = "send" THEN ~closed[a[2]] /\ count[a[2]] < Cap(a[2])
                   ELSE closed[a[2]] \/ count[a[2]] > 0

(* sendnext is a send on the channel after the one the last select chose. *)
Alts(p) ==
  LET i == Instr(p) IN
  IF i.op = "select" THEN i.alts ELSE << <<"send", i.cs[(got % Len(i.cs)) + 1]>> >>
AtChan(p) == pc[p] # Off /\ Instr(p).op \in {"select", "sendnext"}

Asleep(q) == q \in parked /\ \A k \in DOMAIN Alts(q) : ~AltReady(Alts(q)[k])

(* Who is asleep with the other half of a, and in which alternative. *)
Opposite(a) == <<IF a[1] = "send" THEN "recv" ELSE "send", a[2]>>
Partners(p, a) ==
  IF Cap(a[2]) > 0 \/ closed[a[2]] THEN {}
  ELSE {m \in (Procs \ {p}) \X (1..3) :
          /\ m[1] \in parked /\ Asleep(m[1])
          /\ m[2] \in DOMAIN Alts(m[1]) /\ Alts(m[1])[m[2]] = Opposite(a)}

Ready(p) == {k \in DOMAIN Alts(p) : AltReady(Alts(p)[k]) \/ Partners(p, Alts(p)[k]) # {}}

(* What follows when alternative k was taken, on a channel that may be closed. *)
Chosen(p, k) ==
  LET i == Instr(p)  c == Alts(p)[k][2] IN
  IF i.op = "select" /\ (k > 1 \/ (closed[c] /\ count[c] = 0)) THEN i.other ELSE "next"

GotArm(p, k) == IF p = "main" /\ At(p, "select") THEN k ELSE got

(* A receive from a channel that is closed and empty takes nothing. *)
Contents(kind, k) == IF kind = "send" THEN k + 1 ELSE IF k > 0 THEN k - 1 ELSE k

Buffered(p) ==
  /\ AtChan(p)
  /\ \E k \in Ready(p) :
       LET a == Alts(p)[k] IN
       /\ AltReady(a)
       /\ count' = [count EXCEPT ![a[2]] = Contents(a[1], @)]
       /\ got' = GotArm(p, k)
       /\ Leave(p, Chosen(p, k))
  /\ UNCHANGED <<harness, live, closed, flag, clock, outcome>>

Rendezvous(p) ==
  /\ AtChan(p)
  /\ \E k \in Ready(p) : \E m \in Partners(p, Alts(p)[k]) :
       /\ Move([q \in {p, m[1]} |-> Chosen(q, IF q = p THEN k ELSE m[2])])
       /\ got' = IF m[1] = "main" THEN GotArm("main", m[2]) ELSE GotArm(p, k)
  /\ UNCHANGED <<harness, live, count, closed, flag, clock, outcome>>

(* Nothing is ready: take the default, or park. *)
NothingReady(p) ==
  /\ AtChan(p) /\ Ready(p) = {}
  /\ IF At(p, "select") /\ Instr(p).default
     THEN Advance(p)
     ELSE p \notin parked /\ parked' = parked \cup {p} /\ UNCHANGED <<pc, iter>>
  /\ UNCHANGED <<harness, live, chans, flag, clock, outcome>>

chan_close(p) ==
  /\ At(p, "close")
  /\ closed' = [closed EXCEPT ![Instr(p).c] = TRUE]
  /\ Advance(p)
  /\ UNCHANGED <<harness, live, count, got, flag, clock, outcome>>

----------------------------------------------------------------------------
(* Goroutines, threads and callbacks. *)
Idle == {k \in DOMAIN Kids : pc[Kids[k]] = Off}

Start(p) ==
  /\ At(p, "go")
  /\ LET i == Instr(p) IN
     \/ /\ Idle # {}
        /\ LET k == Kids[Min(Idle)] IN
           /\ pc' = [pc EXCEPT ![k] = From(k, Loop), ![p] = Following(p)]
           /\ iter' = [iter EXCEPT ![k] = 0, ![p] = Rounds(p, "next")]
        /\ UNCHANGED <<parked, live, failed>>
     \/ /\ i.onfail # "never"
        /\ live' = Released(live, i.drop)
        /\ Leave(p, i.onfail)
        /\ failed' = TRUE
  /\ UNCHANGED <<harness, chans, flag, clock, aborted>>

(* Waiting for all the others, and runtime_main returning, which stops them. *)
AwaitOthers(p) ==
  /\ \/ At(p, "join") /\ \A q \in Procs \ {p} : pc[q] = Off
     \/ At(p, "swait") /\ \A q \in Procs \ {p} : pc[q] = Off \/ Asleep(q)
  /\ Advance(p)
  /\ UNCHANGED <<harness, live, chans, flag, clock, outcome>>

EndRuntime(p) ==
  /\ At(p, "shutdown")
  /\ pc' = [q \in Procs |-> IF q = p THEN Following(p) ELSE Off]
  /\ iter' = [iter EXCEPT ![p] = Rounds(p, "next")]
  /\ parked' = {}
  /\ UNCHANGED <<harness, live, chans, flag, clock, outcome>>

----------------------------------------------------------------------------
(* Shared words. *)
Word(p) ==
  /\ pc[p] # Off
  /\ LET i == Instr(p) IN
     \/ i.op = "store" /\ flag' = [flag EXCEPT ![i.f] = i.v] /\ Advance(p)
     \/ i.op = "load"  /\ flag' = [flag EXCEPT ![i.local] = flag[i.f]] /\ Advance(p)
     \/ i.op = "add"   /\ flag' = [flag EXCEPT ![i.f] = @ + 1] /\ Advance(p)
     \/ i.op = "shift" /\ flag' = [flag EXCEPT ![i.f] = IF @ = i.from THEN i.v ELSE @] /\ Advance(p)
     \/ i.op = "cas"   /\ flag' = [flag EXCEPT ![i.f] = IF @ = iter[p] THEN @ + 1 ELSE @] /\ Advance(p)
     \/ i.op = "await" /\ flag[i.f] = i.v /\ Advance(p) /\ UNCHANGED flag
     \/ i.op = "reach" /\ flag[i.f] >= i.v /\ Advance(p) /\ UNCHANGED flag
     \/ i.op = "breakif" /\ Leave(p, IF flag[i.f] # 0 THEN "break" ELSE "next") /\ UNCHANGED flag
     \/ i.op = "breakdone" /\ Leave(p, IF iter[p] = n THEN "break" ELSE "next") /\ UNCHANGED flag
  /\ UNCHANGED <<harness, live, chans, clock, outcome>>

----------------------------------------------------------------------------
Step(p) ==
  \/ bench_pause(p) \/ bench_resume(p)
  \/ Allocate(p) \/ AllocateOnce(p) \/ arena_reset(p) \/ Release(p) \/ Call(p) \/ GiveUp(p) \/ Boxes(p)
  \/ Buffered(p) \/ Rendezvous(p) \/ NothingReady(p) \/ chan_close(p)
  \/ Start(p) \/ AwaitOthers(p) \/ EndRuntime(p) \/ Word(p)

Init ==
  /\ \E k \in DOMAIN Table : row = Table[k]
  /\ call = 0 /\ n = 0
  /\ pc = [p \in Procs |-> Off] /\ iter = [p \in Procs |-> 0] /\ parked = {}
  /\ live = [r \in Pointers |-> 0]
  /\ count = [c \in Chans |-> 0] /\ closed = [c \in Chans |-> FALSE] /\ got = 0
  /\ flag = [f \in Flags |-> 0]
  /\ running = FALSE /\ managed = FALSE /\ failed = FALSE /\ aborted = FALSE

Next == run_measured \/ (\E p \in Procs : Step(p)) \/ (Done /\ UNCHANGED vars)

(* A goroutine that can go on does: spinning ones yield, sleeping ones are   *)
(* woken, and the operating system runs every thread.                        *)
Spec == Init /\ [][Next]_vars /\ WF_vars(run_measured) /\ \A p \in Procs : WF_vars(Step(p))

----------------------------------------------------------------------------
(* No channel holds more than it was made for, and who sleeps, sleeps on one. *)
ChannelsHold ==
  /\ \A c \in Chans : count[c] \in 0..Cap(c)
  /\ \A p \in parked : AtChan(p)

(* A BENCH_LOOP goes round no more often than b->n of its call.              *)
LoopIsCounted == ~row.endless => iter["main"] \in 0..n

(* The right types, for every b->n and however often a body is called.       *)
Typed ==
  /\ call \in 0..Calls /\ n \in Counts \cup {0}
  /\ DOMAIN pc = Procs /\ \A p \in Procs : pc[p] = Off \/ pc[p][2] \in DOMAIN Code(p, pc[p][1])
  /\ iter \in [Procs -> Nat] /\ parked \subseteq Procs
  /\ live \in [Pointers -> Nat] /\ flag \in [Flags -> Nat]
  /\ count \in [Chans -> Nat] /\ closed \in [Chans -> BOOLEAN] /\ got \in Nat
  /\ {running, managed, failed, aborted} \subseteq BOOLEAN

(* The right types; no channel holds more than it was made for, and nobody,  *)
(* the goroutines a body starts included, goes round more often than b->n    *)
(* says.                                                                     *)
TypeOK ==
  /\ Typed /\ LoopIsCounted /\ ChannelsHold
  /\ \A p \in Procs : iter[p] <= MaxN
  /\ \A f \in Flags : flag[f] <= 2 * Calls * MaxN

(* Nobody is about to touch what has been freed or was never allocated: not  *)
(* the body with what it freed in an earlier iteration, and not a goroutine  *)
(* that is slower than the one which frees the channels and notes they share.*)
(* Nobody sends on a channel that is closed.                                 *)
NoStaleUse ==
  \A p \in Procs : pc[p] # Off =>
    /\ \A r \in Instr(p).uses : live[r] > 0
    /\ AtChan(p) => \A k \in DOMAIN Alts(p) : Alts(p)[k][1] = "send" => ~closed[Alts(p)[k][2]]

(* A pointer is not overwritten while what it points to is still allocated:  *)
(* memory does not grow with the iterations, whatever b->n is.  Only the     *)
(* boxes of reclaim_retire may be as many as the iterations.                 *)
NothingLost ==
  \A r \in Pointers : live[r] <= (IF row.most = 0 THEN n ELSE row.most)

(* What the rows are known not to free: the copy of json_compact, the items  *)
(* of the two marshal rows, the constant of the primality row and the        *)
(* generators of the random number rows.                                     *)
KnownLeaks == {"ind", "items", "one", "source", "gen"}

(* A body that has returned, early or not, has put back GOMAXPROCS and the   *)
(* current stack.                                                            *)
WordsPutBack == Returned => flag["procs"] = 0 /\ flag["current"] = 0

(* A body that met no failure has freed what it allocated when it returns,   *)
(* apart from the known leaks, and any body, failed or not, has put back     *)
(* GOMAXPROCS and the current stack and left nobody running.                 *)
CleanReturn ==
  /\ WordsPutBack
  /\ Returned =>
       /\ \A p \in Procs : pc[p] = Off
       /\ ~failed => \A r \in Pointers \ (Statics \cup KnownLeaks) : live[r] = 0

(* "Anything it allocates it has to release" (include/bench.h), and a body   *)
(* that returns early allocated it all the same.                             *)
NothingLeaked == Returned => \A r \in Pointers \ Statics : live[r] = 0

(* What the clock counts in a row that stops it before its loop is the loop, *)
(* without what the loop does to prepare an iteration, and nothing else; in  *)
(* the other rows it counts at least the loop.                               *)
TimedExactly ==
  pc["main"] # Off /\ Instr("main").op \notin {"pause", "resume"} =>
    IF pc["main"][1] = Loop THEN running = ~Instr("main").prep ELSE managed => ~running

(* The operation in the loop meets the state that the row is named after: a  *)
(* queue that is full or empty, a lock that is free, a compare-and-swap that *)
(* wins, a channel with or without somebody waiting.  It has to do so in     *)
(* every iteration of every call, after whatever the one before left behind. *)
MeasuresWhatItSays ==
  \A p \in Procs : pc[p] # Off =>
    LET i == Instr(p) IN
    /\ i.op = "shift" => flag[i.f] = i.from
    /\ i.op = "cas"   => flag[i.f] = iter[p]
    /\ i.op = "select" /\ i.expect # "" => (Ready(p) # {}) = (i.expect = "ready")

(* Every call of every body comes back, whatever fails and however its       *)
(* goroutines are scheduled.                                                 *)
RowEnds == <>Done
=============================================================================
