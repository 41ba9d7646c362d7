------------------------------ MODULE RowCode ------------------------------
(***************************************************************************)
(* The vocabulary in which the tables Rows*.tla write down a benchmark row. *)
(* Every BENCH of bench/ has the same shape: a setup, the BENCH_LOOP, what  *)
(* comes after it, and what the caller of the body does once the body has   *)
(* returned, early or not.  A row is a record of four sequences of          *)
(* instructions for the goroutine that runs the body, and two for the       *)
(* goroutines, threads, coroutines or callbacks it starts.  RowMachine runs *)
(* them.                                                                    *)
(*                                                                          *)
(* An instruction names the resources it touches ("uses").  Data is left    *)
(* out: a channel is how many values it holds, a container how many keys.   *)
(***************************************************************************)
EXTENDS Sequences, TLC

Ins(op, uses, more) == [op |-> op, uses |-> uses, prep |-> FALSE] @@ more

----------------------------------------------------------------------------
(* The clock. *)
Pause  == Ins("pause", {}, <<>>)
Resume == Ins("resume", {}, <<>>)

(* Memory.  The result of Get is used as it is, so it is taken to succeed;   *)
(* what Make asks for may be refused, each part on its own, and MakeSeq      *)
(* stops at the first refusal.  On a refusal the code releases "drop" and    *)
(* goes on as onfail says: "return", "break", "next" or "abort".             *)
Get(r)                    == Ins("make", {}, [rs |-> <<r>>, onfail |-> "never"])
Make(rs, onfail, drop)    == Ins("make", {}, [rs |-> rs, onfail |-> onfail, drop |-> drop, inOrder |-> FALSE])
MakeSeq(rs, onfail, drop) == [Make(rs, onfail, drop) EXCEPT !.inOrder = TRUE]

(* A static that is filled by the first call that needs it and kept; checked  *)
(* when the filling itself may end in abort().                               *)
Once(r)        == Ins("once", {}, [r |-> r, checked |-> FALSE])
OnceChecked(r) == [Once(r) EXCEPT !.checked = TRUE]

(* Allocations in the arena ar.  Reset gives all of them back, Free the arena too. *)
In(r, ar)      == [Get(r) EXCEPT !.uses = {ar}]
Reset(ar)      == Ins("reset", {ar}, [r |-> ar, every |-> 1])
ResetEvery(ar) == [Reset(ar) EXCEPT !.every = 2]          \* RESET_EVERY, scaled down

Free(r)          == Ins("free", {r}, [rs |-> {r}])
FreeAfter(r, S)  == Ins("free", {r} \cup S, [rs |-> {r}]) \* r points into S
FreeMade(rs, S)  == Ins("free", S, [rs |-> rs])           \* of those, the ones that exist

(* Plain calls.  Must is a call whose result is checked with abort(); Try one  *)
(* whose result is summed up and checked by Verify after the loop.             *)
Work(S) == Ins("work", S, <<>>)
Must(S) == Ins("must", S, <<>>)
Try(S)  == Ins("try", S, <<>>)
Verify  == Ins("verify", {}, <<>>)

(* What the loop does with the clock stopped. *)
Prep(i)    == [i EXCEPT !.prep = TRUE]
Preps(seq) == [k \in DOMAIN seq |-> Prep(seq[k])]

----------------------------------------------------------------------------
(* Goroutines, threads and callbacks. *)
Go(onfail, drop) == Ins("go", {}, [onfail |-> onfail, drop |-> drop])
Arm(r)           == [Go("never", {}) EXCEPT !.uses = {r}]  \* a timer due at once
Join             == Ins("join", {}, <<>>)       \* until all of them have ended
SynctestWait     == Ins("swait", {}, <<>>)      \* until all of them are blocked
Shutdown         == Ins("shutdown", {}, <<>>)   \* runtime_main returns

(* Shared words: static flags, the words of notes, counts of containers. *)
Store(f, v)       == Ins("store", {}, [f |-> f, v |-> v])
Add(f)            == Ins("add", {}, [f |-> f])
Load(f, local)    == Ins("load", {}, [f |-> f, local |-> local])
Await(f, v)       == Ins("await", {}, [f |-> f, v |-> v])    \* spins or sleeps
AwaitCount(f, v)  == Ins("reach", {}, [f |-> f, v |-> v])    \* spins while less than v
BreakIf(f)        == Ins("breakif", {}, [f |-> f])
BreakWhenDone     == Ins("breakdone", {}, <<>>)               \* after b->n rounds
Shift(f, from, v) == Ins("shift", {}, [f |-> f, from |-> from, v |-> v])
Fill(f)           == <<Shift(f, 0, 1), Shift(f, 1, 2)>>
Drained(f)        == <<Shift(f, 2, 1), Shift(f, 1, 0)>>
Cycle(f)          == <<Shift(f, 0, 1), Shift(f, 1, 0)>>       \* taken and given back
Find(f, v)        == Shift(f, v, v)
Cas(f)            == Ins("cas", {}, [f |-> f])                \* i to i + 1

On(r, seq) == [k \in DOMAIN seq |-> [seq[k] EXCEPT !.uses = {r}]]

Clear(note) == [Store(note, 0) EXCEPT !.uses = {note}]
Wake(note)  == [Store(note, 1) EXCEPT !.uses = {note}]
Sleep(note) == [Await(note, 1) EXCEPT !.uses = {note}]
SleepTimeout(note, v) == [Find(note, v) EXCEPT !.uses = {note}]   \* meant to find v

(* Channels.  An alternative is <<"send" or "recv", channel>>.  "other" says   *)
(* what follows when an alternative but the first was taken, or the channel    *)
(* was closed; "expect" what the row means to measure, if it can be missed.    *)
SelectOf(alts, default, other, expect) ==
  Ins("select", {alts[k][2] : k \in DOMAIN alts},
      [alts |-> alts, default |-> default, other |-> other, expect |-> expect])

Send(c)      == SelectOf(<< <<"send", c>> >>, FALSE, "next", "")
Recv(c)      == SelectOf(<< <<"recv", c>> >>, FALSE, "next", "")
RecvOr(c)    == SelectOf(<< <<"recv", c>> >>, FALSE, "break", "")
Select(alts) == SelectOf(alts, FALSE, "next", "")
SelectOr(alts) == SelectOf(alts, FALSE, "break", "")
SendNext(cs) == Ins("sendnext", {cs[k] : k \in DOMAIN cs}, [cs |-> cs])
Close(c)     == Ins("close", {c}, [c |-> c])

(* The pool of reclaim_bench.c. *)
BoxGet   == Ins("boxget", {}, <<>>)
Retire   == Ins("retire", {"box"}, <<>>)
Drain    == Ins("drain", {}, <<>>)
FreePool == Ins("freepool", {}, <<>>)

----------------------------------------------------------------------------
(* A row with only some of its fields given. *)
Row(fields) ==
  fields @@ [setup |-> <<>>, loop |-> <<>>, after |-> <<>>, finally |-> <<>>,
             kid |-> <<>>, last |-> <<>>,
             cap |-> <<>>,          \* the capacity of each channel
             most |-> 1,            \* how often one pointer's target may be live, 0 for b->n
             endless |-> FALSE]     \* the loop ends by a break alone

Plain(body) == Row([loop |-> body])

(* An arena around a loop that resets it in every iteration. *)
ArenaRow(setup, body) ==
  Row([setup |-> <<Get("ar")>> \o setup, loop |-> body \o <<Reset("ar")>>,
       after |-> <<Free("ar")>>])

(* An arena that holds what the loop works on. *)
Held(setup, body) ==
  Row([setup |-> <<Get("ar")>> \o setup, loop |-> body, after |-> <<Free("ar")>>])

(* One allocation, used, in an arena that the loop resets. *)
OneResult == <<In("p", "ar"), Work({"p"})>>
ResultRow == ArenaRow(<<>>, OneResult)

(* The arena around a row is made after what outlives it and freed before. *)
KeptRow(kept, body, dropped) ==
  [ArenaRow(<<>>, body) EXCEPT !.setup = kept \o @, !.after = @ \o dropped]

(* A loop between a resume and a pause, in a body called with the clock stopped. *)
Timed(setup, body, after) ==
  Row([setup |-> setup \o <<Resume>>, loop |-> body, after |-> <<Pause>> \o after])

(* runtime_main around a body, started with the clock stopped (run() of  *)
(* context_bench.c, the wrappers of reclaim, sync_map and sync_pool).       *)
InRuntime(r) ==
  [r EXCEPT !.setup = <<Pause>> \o @, !.finally = <<Shutdown>> \o @]

(* Static words that the BENCH sets to zero before it starts anything. *)
Zeroed(fs, r) ==
  [r EXCEPT !.setup = [k \in DOMAIN fs |-> Store(fs[k], 0)] \o @]

(* The same on one P, put back afterwards (run_with_one_p). *)
OneP(r) ==
  [r EXCEPT !.setup   = <<Pause, Store("procs", 1)>> \o @,
            !.finally = @ \o <<Shutdown, Store("procs", 0)>>]
=============================================================================
