-------------------------- MODULE RowsConcurrent --------------------------
(***************************************************************************)
(* The rows that start goroutines, threads or coroutines, or that measure   *)
(* the pieces of the scheduler: bench/ chan, select, sync, synctest, sched, *)
(* mutex, waitgroup, cond, runtime, preempt, clock and reclaim.  The rows   *)
(* that Handoff, CondPingPong and FanOut model are not repeated.            *)
(*                                                                          *)
(* Arrays are scaled down: ARMS is 3, BURROW_RUNQ_SIZE and PRODCONS_CAP 2.  *)
(***************************************************************************)
EXTENDS RowCode

----------------------------------------------------------------------------
(* chan_bench.c *)
chan_uncontended ==
  OneP([Timed(<<Make(<<"c1">>, "return", {})>>, <<Send("c1"), Recv("c1")>>, <<Free("c1")>>)
        EXCEPT !.cap = [c1 |-> 1]])

chan_nonblocking ==
  OneP([Timed(<<Make(<<"c1">>, "return", {})>>,
              <<SelectOf(<< <<"recv", "c1">> >>, TRUE, "next", "default")>>, <<Free("c1")>>)
        EXCEPT !.cap = [c1 |-> 1]])

pingpong(cap) ==
  Row([setup |-> <<Make(<<"c1", "c2">>, "return", {}), Go("return", {}), Resume>>,
       loop  |-> <<Send("c1"), Recv("c2")>>,
       after |-> <<Pause, Store("stop", 1), Send("c1"), Await("gone", 1), Free("c1"), Free("c2")>>,
       kid   |-> <<RecvOr("c1"), BreakIf("stop"), Send("c2")>>,
       last  |-> <<Add("gone")>>,
       cap   |-> [c1 |-> cap, c2 |-> cap]])

chan_pingpong_unbuffered == Zeroed(<<"stop", "gone">>, OneP(pingpong(0)))
chan_pingpong_buffered   == Zeroed(<<"stop", "gone">>, OneP(pingpong(1)))

(* Mutant: the body counts what it receives, and frees the channel that the  *)
(* producer is still to close.                                               *)
ProdconsCounted ==
  OneP(Row([setup |-> <<Make(<<"c1">>, "return", {}), Go("return", {}), Resume>>,
            loop  |-> <<RecvOr("c1")>>,
            after |-> <<Pause, Free("c1")>>,
            kid   |-> <<BreakWhenDone, Send("c1")>>,
            last  |-> <<Close("c1")>>,
            cap   |-> [c1 |-> 2]]))

chan_prodcons ==
  OneP(Row([setup |-> <<Make(<<"c1">>, "return", {}), Go("return", {}), Resume>>,
            loop  |-> <<RecvOr("c1")>>, endless |-> TRUE,
            after |-> <<Pause, Free("c1")>>,
            kid   |-> <<BreakWhenDone, Send("c1")>>,
            last  |-> <<Close("c1")>>,
            cap   |-> [c1 |-> 2]]))

ChanRows == <<chan_uncontended, chan_nonblocking, chan_pingpong_unbuffered,
              chan_pingpong_buffered, chan_prodcons>>

----------------------------------------------------------------------------
(* select_bench.c *)
select_uncontended ==
  OneP([Timed(<<Make(<<"c1", "c2">>, "return", {}), Send("c1")>>,
              <<Select(<< <<"recv", "c1">>, <<"recv", "c2">> >>), SendNext(<<"c1", "c2">>)>>,
              <<Free("c1"), Free("c2")>>)
        EXCEPT !.cap = [c1 |-> 1, c2 |-> 1]])

select_default ==
  OneP([Timed(<<Make(<<"c1", "c2">>, "return", {})>>,
              <<SelectOf(<< <<"recv", "c1">>, <<"recv", "c2">> >>, TRUE, "next", "")>>,
              <<Free("c1"), Free("c2")>>)
        EXCEPT !.cap = [c1 |-> 1, c2 |-> 1]])

wide == <<"c1", "c2", "quit">>

select_eight_arms ==
  OneP([Timed(<<MakeSeq(wide, "return", {}), Send("c1")>>,
              <<Select([k \in DOMAIN wide |-> <<"recv", wide[k]>>]), SendNext(wide)>>,
              [k \in DOMAIN wide |-> Free(wide[k])])
        EXCEPT !.cap = [c1 |-> 1, c2 |-> 1, quit |-> 1]])

select_pingpong ==
  LET OrQuit(dir, c) == << <<dir, c>>, <<"recv", "quit">> >> IN
  Zeroed(<<"stop", "gone">>, OneP(
    Row([setup |-> <<Make(<<"c1", "c2", "quit">>, "return", {}), Go("return", {}), Resume>>,
         loop  |-> <<Select(OrQuit("send", "c1")), Select(OrQuit("recv", "c2"))>>,
         after |-> <<Pause, Store("stop", 1), Send("c1"), Await("gone", 1),
                     Free("c1"), Free("c2"), Free("quit")>>,
         kid   |-> <<SelectOr(OrQuit("recv", "c1")), BreakIf("stop"), SelectOr(OrQuit("send", "c2"))>>,
         last  |-> <<Add("gone")>>])))

SelectRows == <<select_uncontended, select_default, select_eight_arms, select_pingpong>>

----------------------------------------------------------------------------
(* sync_bench.c *)
atomic_add   == Plain(<<Add("word")>>)
atomic_load  == Plain(<<Work({})>>)
atomic_store == Plain(<<Store("word", 0)>>)
atomic_cas   == [Plain(<<Cas("word")>>) EXCEPT !.setup = <<Store("word", 0)>>]

note_cycle ==
  Row([setup |-> <<Make(<<"note">>, "return", {})>>,
       loop  |-> <<Clear("note"), Wake("note"), Sleep("note")>>,
       after |-> <<Free("note")>>])

(* Mutant: the stop word is read after the wake. *)
PongStopsLate == <<Sleep("there"), Clear("there"), Wake("back"), Load("stop", "done"), BreakIf("done")>>

(* sync_pong reads the stop word before it wakes the main thread. *)
sync_pong == <<Sleep("there"), Clear("there"), Load("stop", "done"), Wake("back"), BreakIf("done")>>

Ping == <<Clear("back"), Wake("there"), Sleep("back")>>

note_pingpong ==
  Row([setup |-> <<Make(<<"there">>, "return", {}), Make(<<"back">>, "return", {"there"}),
                   Store("stop", 0), Go("return", {"there", "back"})>>,
       loop  |-> Ping,
       after |-> <<Store("stop", 1)>> \o Ping \o <<Join, Free("back"), Free("there")>>,
       kid   |-> sync_pong])

thread_start_join ==
  Row([loop |-> <<Go("break", {}), Join>>, last |-> <<Add("ran")>>])

thread_yield_and_self == Plain(<<Work({})>>)

SyncRows == <<atomic_add, atomic_load, atomic_store, atomic_cas, note_cycle, note_pingpong,
              thread_start_join, thread_yield_and_self>>

----------------------------------------------------------------------------
(* synctest_bench.c.  synctest_run ends when all of the bubble has ended. *)
synctest_run_empty == OneP(Timed(<<>>, <<Join>>, <<>>))

synctest_run_one_goroutine ==
  Zeroed(<<"ran">>, OneP([Timed(<<>>, <<Go("next", {}), Join>>, <<>>) EXCEPT !.last = <<Add("ran")>>]))

synctest_wait_alone == OneP([Timed(<<>>, <<SynctestWait>>, <<>>) EXCEPT !.finally = <<Join>>])

(* Mutant: nobody makes sure that the child has got to the channel. *)
ParkedUnawaited ==
  Zeroed(<<"ran">>, OneP(
    Row([setup   |-> <<Make(<<"c1">>, "return", {}), Go("return", {}), Resume>>,
         loop    |-> <<SelectOf(<< <<"send", "c1">> >>, TRUE, "next", "ready")>>,
         after   |-> <<Pause, Close("c1"), SynctestWait>>,
         finally |-> <<Join, FreeMade({"c1"}, {})>>,
         kid     |-> <<RecvOr("c1"), Add("ran")>>])))

synctest_wait_parked ==
  Zeroed(<<"ran">>, OneP(
    Row([setup   |-> <<Make(<<"c1">>, "return", {}), Go("return", {}), Resume>>,
         loop    |-> <<SynctestWait, SelectOf(<< <<"send", "c1">> >>, TRUE, "next", "ready")>>,
         after   |-> <<Pause, Close("c1"), SynctestWait>>,
         finally |-> <<Join, FreeMade({"c1"}, {})>>,
         kid     |-> <<RecvOr("c1"), Add("ran")>>])))

synctest_chan_pingpong ==
  Zeroed(<<"stop", "gone">>, OneP(
    Row([setup   |-> <<Make(<<"c1", "c2">>, "return", {}), Go("return", {}), Resume>>,
         loop    |-> <<Send("c1"), Recv("c2")>>,
         after   |-> <<Pause, Store("stop", 1), Send("c1"), SynctestWait>>,
         finally |-> <<Join, FreeMade({"c1", "c2"}, {})>>,
         kid     |-> <<RecvOr("c1"), BreakIf("stop"), Send("c2")>>,
         last    |-> <<Add("gone")>>])))

synctest_go ==
  Zeroed(<<"ran">>, OneP([Timed(<<>>, <<Go("break", {}), Work({})>>, <<>>)
                          EXCEPT !.last = <<Add("ran")>>, !.finally = <<Join>>]))

synctest_sleep == OneP([Timed(<<>>, <<Work({})>>, <<>>) EXCEPT !.finally = <<Join>>])

SynctestRows == <<synctest_run_empty, synctest_run_one_goroutine, synctest_wait_alone,
                  synctest_wait_parked, synctest_chan_pingpong, synctest_go, synctest_sleep>>

----------------------------------------------------------------------------
(* sched_bench.c *)
goroutine_start ==
  Zeroed(<<"ran">>, OneP([Timed(<<>>, <<Go("break", {}), Work({})>>, <<>>) EXCEPT !.last = <<Add("ran")>>]))

goroutine_yield_alone == OneP(Timed(<<>>, <<Work({})>>, <<>>))

goroutine_yield_pair ==
  Zeroed(<<"stop", "gone">>, OneP(
    [Timed(<<Go("return", {}), Work({})>>, <<Work({})>>, <<Store("stop", 1), Await("gone", 1)>>)
     EXCEPT !.last = <<Await("stop", 1), Add("gone")>>]))

runtime_start_stop == Plain(<<Shutdown>>)

SchedRows == <<goroutine_start, goroutine_yield_alone, goroutine_yield_pair, runtime_start_stop>>

----------------------------------------------------------------------------
(* mutex_bench.c, waitgroup_bench.c and cond_bench.c without a second goroutine. *)
mutex_uncontended     == Plain(Cycle("word"))
wait_group_add_done   == Plain(Cycle("word"))
wait_group_wait_empty == Plain(<<Find("word", 0)>>)
once_fast_path        == [Plain(<<Find("word", 1)>>) EXCEPT !.setup = <<Store("word", 1)>>]
cond_empty            == [Plain(<<Find("word", 0)>>) EXCEPT !.setup = <<Store("word", 0)>>]

LockRows == <<mutex_uncontended, wait_group_add_done, wait_group_wait_empty, once_fast_path, cond_empty>>

----------------------------------------------------------------------------
(* runtime_bench.c.  A context switch hands the turn over and waits for it. *)
Switch == <<Store("turn", 1), Await("turn", 0)>>

rt_bounce == <<Await("turn", 1), BreakIf("stop"), Store("turn", 0)>>

mcontext_switch ==
  Row([setup |-> <<Pause, Make(<<"stack">>, "return", {}), Make(<<"attach">>, "return", {"stack"}),
                   Store("stop", 0), Make(<<"ctx">>, "return", {"attach", "stack"}),
                   Go("never", {}), Resume>>,
       loop  |-> Switch,
       after |-> <<Pause, Store("stop", 1)>> \o Switch \o
                 <<FreeAfter("ctx", {"stack"}), Free("attach"), Free("stack"), Resume>>,
       kid   |-> rt_bounce,
       last  |-> <<Store("turn", 0)>>])

mcontext_make ==
  Row([setup |-> <<Pause, Make(<<"stack">>, "return", {}), Resume>>,
       loop  |-> <<Make(<<"ctx">>, "break", {}), FreeAfter("ctx", {"stack"})>>,
       after |-> <<Pause, Free("stack"), Resume>>])

stack_alloc_free == Plain(<<Make(<<"stack">>, "break", {}), Work({"stack"}), Free("stack")>>)

stack_set_current ==
  [Plain(<<Store("current", 1)>>) EXCEPT !.after = <<Store("current", 0)>>]

stack_page_size == Plain(<<Work({})>>)

rq_reset(q) == Store(q, 0)

RunqRow(body) == Row([setup |-> <<Pause, rq_reset("runq"), Resume>>, loop |-> body])

runq_put_get    == RunqRow(Cycle("runq"))
runq_fill_drain == RunqRow(Fill("runq") \o Drained("runq"))

(* The victim is filled with the clock stopped, and half of it taken. *)
runq_steal_half ==
  Row([setup |-> <<Pause, rq_reset("runq"), rq_reset("victim"), Resume>>,
       loop  |-> <<Pause>> \o Preps(<<rq_reset("runq"), rq_reset("victim")>> \o Fill("victim")) \o
                 <<Resume, Shift("runq", 0, 1), Shift("victim", 2, 1)>>])

gqueue_push_pop == [Plain(Cycle("word")) EXCEPT !.setup = <<Store("word", 0)>>]

runq_put_slow ==
  RunqRow(<<Pause>> \o Preps(<<rq_reset("runq")>> \o Fill("runq")) \o <<Resume, Shift("runq", 2, 1)>>)

callers == Plain(<<Work({})>>)

RuntimeRows == <<mcontext_switch, mcontext_make, stack_alloc_free, stack_set_current,
                 stack_page_size, runq_put_get, runq_fill_drain, runq_steal_half,
                 runq_put_slow, gqueue_push_pop, callers>>

----------------------------------------------------------------------------
(* preempt_bench.c and clock_bench.c *)
preempt_point_idle          == OneP(Timed(<<>>, <<Work({})>>, <<>>))
preempt_point_off_goroutine == Plain(<<Work({})>>)
nanotime                    == Plain(<<Work({})>>)

note_timeout_hit ==
  Row([setup |-> <<Make(<<"note">>, "return", {})>>,
       loop  |-> <<Clear("note"), Wake("note"), SleepTimeout("note", 1)>>,
       after |-> <<Free("note")>>])

note_timeout_poll ==
  Row([setup |-> <<Make(<<"note">>, "return", {})>>,
       loop  |-> <<SleepTimeout("note", 0)>>,
       after |-> <<Free("note")>>])

ClockRows == <<preempt_point_idle, preempt_point_off_goroutine, nanotime, note_timeout_hit,
               note_timeout_poll>>

----------------------------------------------------------------------------
(* reclaim_bench.c *)
reclaim_pin_unpin  == InRuntime(Timed(<<>>, Cycle("word"), <<>>))
reclaim_pin_nested == InRuntime(Timed(<<>>, Fill("word") \o Drained("word"), <<>>))
reclaim_pin_foreign == Plain(Cycle("word"))

reclaim_retire ==
  InRuntime([Timed(<<>>, <<BoxGet, Retire>>, <<>>) EXCEPT !.finally = <<Drain, FreePool>>, !.most = 0])

ReclaimRows == <<reclaim_pin_unpin, reclaim_pin_nested, reclaim_pin_foreign, reclaim_retire>>

ConcurrentRows == ChanRows \o SelectRows \o SyncRows \o SynctestRows \o SchedRows \o LockRows \o
                  RuntimeRows \o ClockRows \o ReclaimRows
=============================================================================
