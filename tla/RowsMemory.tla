---------------------------- MODULE RowsMemory ----------------------------
(***************************************************************************)
(* The rows about timers, contexts, allocators, containers and the language *)
(* support of burrow: bench/ timer, context, sync_map, sync_pool,           *)
(* sync_atomic, mem, map, slice, error, sort, defer, panic, func.           *)
(*                                                                          *)
(* Scaled down to 2: DEEP, BURST, DEPTH, FANOUT, RESET_EVERY and the N keys *)
(* of a map, whose filling is counted by the word "keys".                   *)
(***************************************************************************)
EXTENDS RowCode

----------------------------------------------------------------------------
(* timer_bench.c: the arena is made before the runtime and freed behind it. *)
run_with_one_p(r) ==
  [r EXCEPT !.setup   = <<Pause, Get("ar"), Store("procs", 1)>> \o @,
            !.finally = <<Shutdown, Store("procs", 0), Free("ar")>>]

timer_arm_stop ==
  run_with_one_p(Timed(<<>>, <<Make(<<"t">>, "break", {}), Work({"t"}), FreeAfter("t", {"ar"})>>, <<>>))

timer_reset_stop ==
  run_with_one_p(Timed(<<Make(<<"t">>, "return", {}), Work({"t"})>>,
                       <<Work({"t"}), Work({"t"})>>, <<FreeAfter("t", {"ar"})>>))

timer_reset_stop_deep ==
  run_with_one_p(Timed(<<MakeSeq(<<"t1", "t2">>, "return", {}), Make(<<"t">>, "return", {}), Work({"t"})>>,
                       <<Work({"t"}), Work({"t"})>>,
                       <<FreeAfter("t", {"ar"}), FreeAfter("t1", {"ar"}), FreeAfter("t2", {"ar"})>>))

timer_sleep_1ms == run_with_one_p(Timed(<<>>, <<Work({})>>, <<>>))

(* on_fire runs on its own and counts; the loop waits for all of the burst. *)
on_fire == <<Add("fired")>>

timer_fire_burst ==
  run_with_one_p(Row([
    setup |-> <<MakeSeq(<<"t1", "t2">>, "return", {}), Work({"t1", "t2"})>>,
    loop  |-> <<Prep(Store("fired", 0)), Resume, Arm("t1"), Arm("t2"), AwaitCount("fired", 2), Pause>>,
    after |-> <<FreeAfter("t1", {"ar"}), FreeAfter("t2", {"ar"})>>,
    last  |-> on_fire]))

TimerRows == <<timer_arm_stop, timer_reset_stop, timer_reset_stop_deep, timer_sleep_1ms, timer_fire_burst>>

----------------------------------------------------------------------------
(* context_bench.c: x is a context made in the row, par the parent of others. *)
context_done_and_err == InRuntime(Timed(<<Get("x")>>, <<Work({"x"})>>, <<Work({"x"}), Free("x")>>))
context_value_shallow == InRuntime(Timed(<<Get("x")>>, <<Work({"x"})>>, <<Free("x")>>))

build   == MakeSeq(<<"kid1", "kid2">>, "return", {"kid1", "kid2"})
unbuild == <<FreeAfter("kid2", {"kid1"}), Free("kid1")>>

context_value_deep == InRuntime(Timed(<<build>>, <<Work({"kid1", "kid2"})>>, unbuild))
context_value_miss == InRuntime(Timed(<<build>>, <<Work({"kid1", "kid2"})>>, unbuild))

(* Made, cancelled and released in one iteration. *)
Cancelled == <<Get("x"), Work({"x"}), Work({"x"}), Free("x")>>

context_with_cancel          == InRuntime(Timed(<<>>, Cancelled, <<>>))
context_with_timeout         == InRuntime(Timed(<<>>, Cancelled, <<>>))
context_with_timeout_expired == InRuntime(Timed(<<>>, Cancelled, <<>>))
context_with_value           == InRuntime(Timed(<<>>, <<Get("x"), Work({"x"}), Free("x")>>, <<>>))

(* The same under a parent that the row holds, which outlives every child. *)
UnderParent(body) ==
  InRuntime(Timed(<<Make(<<"par">>, "return", {})>>, body, <<Work({"par"}), Free("par")>>))

context_with_cancel_nested ==
  UnderParent(<<Get("x"), Work({"x", "par"}), FreeAfter("x", {"par"})>>)

context_cause ==
  InRuntime(Timed(<<Make(<<"x">>, "return", {}), Work({"x"})>>, <<Work({"x"})>>, <<Free("x")>>))

context_with_cancel_cause == InRuntime(Timed(<<>>, Cancelled, <<>>))

context_without_cancel == UnderParent(<<Get("x"), Work({"x", "par"}), FreeAfter("x", {"par"})>>)
context_after_func     == UnderParent(<<Get("x"), Work({"x", "par"}), FreeAfter("x", {"par"})>>)

context_cancel_tree ==
  InRuntime(Timed(<<>>, <<Get("par"), MakeSeq(<<"kid1", "kid2">>, "next", {}), Work({"par"}),
                          FreeMade({"kid1", "kid2"}, {"par"}), Free("par")>>, <<>>))

ContextRows ==
  <<context_done_and_err, context_value_shallow, context_value_deep, context_value_miss,
    context_with_cancel, context_with_cancel_nested, context_with_timeout,
    context_with_timeout_expired, context_with_value, context_cause, context_with_cancel_cause,
    context_without_cancel, context_after_func, context_cancel_tree>>

----------------------------------------------------------------------------
(* sync_map_bench.c and sync_pool_bench.c *)
run_filled(body) ==
  Row([setup   |-> <<Get("map"), Store("keys", 0), Pause>> \o On("map", Fill("keys")) \o <<Resume>>,
       loop    |-> On("map", body),
       after   |-> <<Pause, Free("map")>>,
       finally |-> <<Shutdown>>])

sync_map_load              == run_filled(<<Find("keys", 2)>>)
sync_map_load_or_store_hit == run_filled(<<Find("keys", 2)>>)
sync_map_store_update      == run_filled(<<Find("keys", 2)>>)
sync_map_store_delete_pair == run_filled(<<Shift("keys", 2, 3), Shift("keys", 3, 2)>>)
sync_map_range             == run_filled(<<Find("keys", 2)>>)

run_pool(setup, body) ==
  Row([setup   |-> <<Get("h"), Store("word", 0), Pause>> \o On("h", setup) \o <<Resume>>,
       loop    |-> On("h", body),
       after   |-> <<Pause, Free("h")>>,
       finally |-> <<Shutdown>>])

(* The word counts what is out of the pool. *)
sync_pool_get_put      == run_pool(<<>>, Cycle("word"))
sync_pool_get_put_pair == run_pool(<<>>, Fill("word") \o Drained("word"))
sync_pool_get_new      == run_pool(<<>>, <<Add("word")>>)
sync_pool_sweep_idle   == run_pool(Cycle("word"), <<Find("word", 0)>>)

SyncTypeRows ==
  <<sync_map_load, sync_map_load_or_store_hit, sync_map_store_update, sync_map_store_delete_pair,
    sync_map_range, sync_pool_get_put, sync_pool_get_put_pair, sync_pool_get_new, sync_pool_sweep_idle>>

(* sync_atomic_bench.c: word is a counter, or whether the cell has been set. *)
sync_atomic_add  == Plain(<<Add("word")>>)
sync_atomic_load == Plain(<<Work({})>>)
sync_atomic_int64_add  == sync_atomic_add
sync_atomic_int64_load == sync_atomic_load
sync_atomic_cas  == [Plain(<<Cas("word")>>) EXCEPT !.setup = <<Store("word", 0)>>]
sync_atomic_load_stored == [Plain(<<Find("word", 1)>>) EXCEPT !.setup = <<Store("word", 1)>>]
sync_atomic_pointer_store == Plain(<<Store("word", 1)>>)
sync_atomic_value_load  == [Plain(<<Find("word", 1)>>) EXCEPT !.setup = <<Store("word", 1)>>]
sync_atomic_value_store == [Plain(<<Find("word", 1)>>) EXCEPT !.setup = <<Store("word", 1)>>]

AtomicRows == <<sync_atomic_add, sync_atomic_load, sync_atomic_int64_add, sync_atomic_int64_load,
                sync_atomic_cas, sync_atomic_load_stored, sync_atomic_pointer_store, sync_atomic_value_load,
                sync_atomic_value_store>>

----------------------------------------------------------------------------
(* mem_bench.c *)
arena_alloc ==
  [Held(<<>>, <<In("p", "ar"), Work({"p"}), ResetEvery("ar")>>) EXCEPT !.most = 2]

arena_alloc_large == ArenaRow(<<>>, <<In("p", "ar"), Work({"p"})>>)

arena_reset_row ==
  [Held(<<>>, <<Pause, Prep(In("p", "ar")), Prep(In("p", "ar")), Resume, Reset("ar")>>) EXCEPT !.most = 2]

arena_append_grow == ArenaRow(<<>>, <<In("p", "ar"), Work({"p"}), Work({"p"})>>)

heap_alloc == Plain(<<Get("x"), Work({"x"}), Free("x")>>)

track_arena_alloc ==
  Row([setup |-> <<Get("ar"), Get("track")>>,
       loop  |-> <<In("p", "ar"), Work({"p", "track"}), ResetEvery("ar")>>,
       after |-> <<FreeAfter("track", {"ar"}), Free("ar")>>,
       most  |-> 2])

track_heap_alloc ==
  Row([setup |-> <<Get("track")>>,
       loop  |-> <<Get("x"), Work({"x"}), FreeAfter("x", {"track"})>>,
       after |-> <<Free("track")>>])

track_heap_quarantine ==
  Row([setup |-> <<Get("track")>>,
       loop  |-> <<Get("x"), Work({"x"}), FreeAfter("x", {"track"})>>,
       after |-> <<Free("track")>>])

malloc_free == Plain(<<Get("x"), Work({"x"}), Free("x")>>)
realloc_grow == Plain(<<Get("x"), Work({"x"}), Work({"x"}), Free("x")>>)

MemRows == <<arena_alloc, arena_alloc_large, arena_reset_row, arena_append_grow, heap_alloc,
             track_arena_alloc, track_heap_alloc, track_heap_quarantine, malloc_free, realloc_grow>>

----------------------------------------------------------------------------
(* map_bench.c *)
filled_map == <<In("m", "ar"), Store("keys", 0)>> \o On("m", Fill("keys"))

OnFilled(body) == Held(filled_map, On("m", body))

map_get        == OnFilled(<<Find("keys", 2)>>)
map_set_update == OnFilled(<<Find("keys", 2)>>)
map_set_grow   == ArenaRow(<<>>, filled_map)
map_del_miss   == OnFilled(<<Find("keys", 2)>>)
map_set_del_pair == OnFilled(<<Shift("keys", 2, 1), Shift("keys", 1, 2)>>)
map_iter       == OnFilled(<<Find("keys", 2)>>)
map_churn ==
  Held(<<In("m", "ar"), Store("keys", 0)>>, On("m", Fill("keys") \o Drained("keys")))
map_clear_refill == OnFilled(<<Store("keys", 0)>> \o Fill("keys"))

MapRows == <<map_get, map_set_update, map_set_grow, map_del_miss, map_set_del_pair, map_iter,
             map_churn, map_clear_refill>>

----------------------------------------------------------------------------
(* slice_bench.c *)
slice_append_grow     == ArenaRow(<<>>, <<In("p", "ar"), Work({"p"})>>)
slice_append_prealloc == ArenaRow(<<>>, <<In("p", "ar"), Work({"p"})>>)
slice_append_bulk     == ArenaRow(<<Work({})>>, <<In("p", "ar"), Work({"p"})>>)
slice_append_call     == ArenaRow(<<>>, <<In("p", "ar"), Work({"p"})>>)
slice_make            == ArenaRow(<<>>, <<In("p", "ar"), Work({"p"})>>)
calloc_1k             == Plain(<<Get("x"), Work({"x"}), Free("x")>>)
slice_index           == Held(<<In("p", "ar"), Work({"p"})>>, <<Work({"p"})>>)
slice_sub             == Held(<<In("p", "ar")>>, <<Work({"p"})>>)
slice_copy            == Held(<<In("p", "ar"), In("q", "ar")>>, <<Work({"p", "q"})>>)
slice_from_str        == ArenaRow(<<>>, <<In("p", "ar"), Work({"p"})>>)

SliceRows == <<slice_append_grow, slice_append_prealloc, slice_append_bulk, slice_append_call,
               slice_make, calloc_1k, slice_index, slice_sub, slice_copy, slice_from_str>>

----------------------------------------------------------------------------
(* error_bench.c: the nodes of a chain are static, word says it is linked. *)
build_chain        == <<Store("word", 1)>>
error_is_sentinel  == Plain(<<Work({})>>)
error_chain        == [Plain(<<Find("word", 1)>>) EXCEPT !.setup = build_chain]
error_return_ok    == Plain(<<Work({})>>)
error_new          == ArenaRow(<<>>, <<In("p", "ar"), Work({"p"})>>)
error_sentinel_use == Plain(<<Work({})>>)
error_join_two     == ArenaRow(<<>>, <<In("p", "ar"), Work({"p"})>>)
error_is_tree      == Held(<<In("p", "ar"), In("q", "ar")>>, <<Work({"p", "q"})>>)

ErrorRows == <<error_is_sentinel, error_chain, error_return_ok, error_new, error_sentinel_use,
               error_join_two, error_is_tree>>

----------------------------------------------------------------------------
(* sort_bench.c: word says whether the static array is sorted.  Every       *)
(* iteration starts from a fresh copy, made with the clock stopped.         *)
SortRow(init) ==
  Row([setup |-> init \o <<Pause>>,
       loop  |-> <<Prep(Store("word", 0)), Resume, Shift("word", 0, 1), Pause>>,
       after |-> <<Resume>>])

run_ints          == SortRow(<<>>)
sort_string1k     == SortRow(<<Work({})>>)
sort_ints         == run_ints
sort_stable_int1k == SortRow(<<Work({})>>)
sort_int64k       == run_ints

SortRows == <<sort_string1k, sort_ints, sort_stable_int1k, sort_int64k>>

----------------------------------------------------------------------------
(* defer_bench.c and panic_bench.c: word is how many frames are pending; a  *)
(* scope or a catch leaves none behind.                                     *)
defer_one         == Plain(Cycle("word") \o <<Add("ran")>>)
defer_direct      == Plain(<<Add("ran")>>)
defer_several     == Plain(Fill("word") \o <<Shift("word", 2, 1), Add("ran"), Shift("word", 1, 0), Add("ran")>>)
defer_scope_empty == Plain(<<Find("word", 0)>>)
defer_loop_ten    == Plain(Cycle("word") \o <<Add("ran")>> \o Cycle("word") \o <<Add("ran")>>)

panic_try_empty     == Plain(Cycle("word"))
panic_caught        == Plain(Cycle("word") \o <<Add("ran")>>)
panic_caught_scopes == Plain(Fill("word") \o <<Shift("word", 2, 1), Add("ran"), Shift("word", 1, 0), Add("ran")>>)
panic_runtime_error == Plain(Cycle("word") \o <<Add("ran")>>)

PanicRows == <<defer_one, defer_direct, defer_several, defer_scope_empty, defer_loop_ten,
               panic_try_empty, panic_caught, panic_caught_scopes, panic_runtime_error>>

(* func_bench.c: calls through a pair of pointers, with nothing allocated. *)
func_call         == Plain(<<Work({})>>)
func_higher_order == [Plain(<<Work({})>>) EXCEPT !.setup = <<Work({})>>]

FuncRows == <<func_call, func_higher_order>>

MemoryRows == TimerRows \o ContextRows \o SyncTypeRows \o AtomicRows \o MemRows \o MapRows \o SliceRows \o
              ErrorRows \o SortRows \o PanicRows \o FuncRows
=============================================================================
