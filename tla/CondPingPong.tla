---------------------------- MODULE CondPingPong ----------------------------
(***************************************************************************)
(* The benchmark cond_ping_pong of bench/cond_bench.c: two goroutines on   *)
(* two Ps take turns through one SyncMutex and one SyncCond.  The main     *)
(* goroutine (pp_body) waits for turn 0, the partner (pp_partner) for turn *)
(* 1, and each of them signals after it has dropped the lock.              *)
(*                                                                         *)
(* The mutex and the condition variable are burrow's.  sync_cond_wait puts *)
(* the goroutine on the list of the condition, then drops the lock, sleeps *)
(* until it is off the list, and takes the lock again.  sync_cond_signal   *)
(* takes one goroutine off the list, holding the lock or not.              *)
(***************************************************************************)
EXTENDS Naturals, FiniteSets

CONSTANT N                     \* b->n
ASSUME NAssumption == N \in Nat

Main  == "main"
Child == "child"
Procs == {Main, Child}
None  == "none"

Total   == N + 1               \* the turns of the loop, and the one that ends it
Mine(p) == IF p = Main THEN 0 ELSE 1   \* the pp_turn that p waits for

VARIABLES pc,       \* where each goroutine is
          holder,   \* who holds pp_mu
          waiters,  \* the list of pp_cond
          turn,     \* pp_turn
          stop,     \* pp_stop
          seen,     \* the partner's local stop
          running,  \* is the clock of the benchmark running
          served, answered, gone   \* turns given and taken; pp_done

sync  == <<holder, waiters>>
flags == <<turn, stop, seen, running>>
count == <<served, answered, gone>>
vars  == <<pc, sync, flags, count>>

Points == {"launch", "none", "serve", "serving", "signal", "lock", "check",
           "enqueue", "unlocking", "asleep", "branch", "leave", "broadcast", "spin", "done"}

TypeOK ==
  /\ pc \in [Procs -> Points]
  /\ holder \in Procs \cup {None}
  /\ waiters \subseteq Procs
  /\ turn \in {0, 1}
  /\ stop \in {0, 1}
  /\ seen \in {0, 1}
  /\ running \in {0, 1}
  /\ served \in 0..Total
  /\ answered \in 0..Total
  /\ gone \in {0, 1}

\* BENCH(cond_ping_pong) stops the clock; pp_body clears the rest.
Init ==
  /\ pc = [p \in Procs |-> IF p = Main THEN "launch" ELSE "none"]
  /\ holder = None /\ waiters = {}
  /\ turn = 0 /\ stop = 0 /\ seen = 0
  /\ running = 0
  /\ served = 0 /\ answered = 0 /\ gone = 0

Goto(p, l) == pc' = [pc EXCEPT ![p] = l]
-----------------------------------------------------------------------------
\* sync_mutex_lock: at the head of a turn, in front of the test of pp_turn, and
\* on the way out of sync_cond_wait.
Lock(p) ==
  /\ pc[p] \in {"serve", "lock"}
  /\ holder = None
  /\ holder' = p
  /\ Goto(p, IF pc[p] = "serve" THEN "serving" ELSE "check")
  /\ UNCHANGED <<waiters, flags, count>>

\* Mutant: the lock is dropped before the goroutine is on the list.
WaitUnlocksFirst(p) ==
  /\ pc[p] = "check"
  /\ turn # Mine(p)
  /\ holder' = None
  /\ Goto(p, "enqueue")
  /\ UNCHANGED <<waiters, flags, count>>

\* pp_turn is not mine: the call of sync_cond_wait, with the lock held.
Wait(p) ==
  /\ pc[p] = "check"
  /\ turn # Mine(p)
  /\ Goto(p, "enqueue")
  /\ UNCHANGED <<sync, flags, count>>

Enqueue(p) ==
  /\ pc[p] = "enqueue"
  /\ waiters' = waiters \cup {p}
  /\ Goto(p, "unlocking")
  /\ UNCHANGED <<holder, flags, count>>

\* sync_cond_wait drops the lock and sleeps.
Sleep(p) ==
  /\ pc[p] = "unlocking"
  /\ holder' = None
  /\ Goto(p, "asleep")
  /\ UNCHANGED <<waiters, flags, count>>

\* Somebody took the goroutine off the list.  It takes the lock again and, the
\* wait being in a while, looks at pp_turn again.
Wake(p) ==
  /\ pc[p] = "asleep"
  /\ p \notin waiters
  /\ Goto(p, "lock")
  /\ UNCHANGED <<sync, flags, count>>

\* Mutant: the call of sync_cond_signal is missing.
SignalNobody(p) ==
  /\ pc[p] = "signal"
  /\ Goto(p, IF p = Main THEN "lock" ELSE "branch")
  /\ UNCHANGED <<sync, flags, count>>

\* sync_cond_signal: one goroutine of the list, if there is one.
Signal(p) ==
  /\ pc[p] = "signal"
  /\ \/ waiters = {} /\ UNCHANGED waiters
     \/ \E w \in waiters : waiters' = waiters \ {w}
  /\ Goto(p, IF p = Main THEN "lock" ELSE "branch")
  /\ UNCHANGED <<holder, flags, count>>
-----------------------------------------------------------------------------
\* pp_body: go() starts the partner and the clock starts, or the body returns.
\* With no iterations the clock stops again at once.
Launch ==
  /\ pc[Main] = "launch"
  /\ \/ /\ pc' = [pc EXCEPT ![Main] = "serve", ![Child] = "lock"]
        /\ running' = IF N = 0 THEN 0 ELSE 1
     \/ Goto(Main, "done") /\ UNCHANGED running
  /\ UNCHANGED <<sync, turn, stop, seen, count>>

\* Mutant: one iteration too many.
ServeOnceMore ==
  /\ pc[Main] = "serving"
  /\ turn' = 1
  /\ stop' = IF served > N THEN 1 ELSE stop
  /\ holder' = None
  /\ Goto(Main, IF served > N THEN "broadcast" ELSE "signal")
  /\ served' = served + 1
  /\ UNCHANGED <<waiters, seen, running, answered, gone>>

\* pp_body under the lock: the turn goes to the partner, the last one with the
\* order to stop.
Serve ==
  /\ pc[Main] = "serving"
  /\ turn' = 1
  /\ stop' = IF served = N THEN 1 ELSE stop
  /\ holder' = None
  /\ Goto(Main, IF served = N THEN "broadcast" ELSE "signal")
  /\ served' = served + 1
  /\ UNCHANGED <<waiters, seen, running, answered, gone>>

\* pp_body finds its turn back and drops the lock.  Behind the last iteration
\* the clock stops.
Back ==
  /\ pc[Main] = "check"
  /\ turn = Mine(Main)
  /\ holder' = None
  /\ running' = IF served = N THEN 0 ELSE running
  /\ Goto(Main, "serve")
  /\ UNCHANGED <<waiters, turn, stop, seen, count>>

\* sync_cond_broadcast behind the last turn.
Broadcast ==
  /\ pc[Main] = "broadcast"
  /\ waiters' = {}
  /\ Goto(Main, "spin")
  /\ UNCHANGED <<holder, flags, count>>

\* The spin on pp_done, with a gosched between two looks at it.
Spin ==
  /\ pc[Main] = "spin"
  /\ IF gone = 1 THEN Goto(Main, "done") ELSE UNCHANGED pc
  /\ UNCHANGED <<sync, flags, count>>

\* Mutant: the partner takes the turn and does not give it back.
AnswerKeepsTurn ==
  /\ pc[Child] = "check"
  /\ turn = Mine(Child)
  /\ seen' = stop
  /\ holder' = None
  /\ Goto(Child, "signal")
  /\ answered' = answered + 1
  /\ UNCHANGED <<waiters, turn, stop, running, served, gone>>

\* pp_partner under the lock: it reads pp_stop and gives the turn back.
Answer ==
  /\ pc[Child] = "check"
  /\ turn = Mine(Child)
  /\ seen' = stop
  /\ turn' = 0
  /\ holder' = None
  /\ Goto(Child, "signal")
  /\ answered' = answered + 1
  /\ UNCHANGED <<waiters, stop, running, served, gone>>

\* if (stop) break;
Branch ==
  /\ pc[Child] = "branch"
  /\ Goto(Child, IF seen = 1 THEN "leave" ELSE "lock")
  /\ UNCHANGED <<sync, flags, count>>

\* Mutant: the partner leaves without a word.
LeaveSilently ==
  /\ pc[Child] = "leave"
  /\ Goto(Child, "done")
  /\ UNCHANGED <<sync, flags, count>>

\* The partner's last word.
Leave ==
  /\ pc[Child] = "leave"
  /\ gone' = 1
  /\ Goto(Child, "done")
  /\ UNCHANGED <<sync, flags, served, answered>>

\* The body has returned and runtime_main with it.
Finished ==
  /\ pc[Main] = "done"
  /\ UNCHANGED vars

SyncStep(p) == Lock(p) \/ Wait(p) \/ Enqueue(p) \/ Sleep(p) \/ Wake(p) \/ Signal(p)

MainStep  == SyncStep(Main) \/ Launch \/ Serve \/ Back \/ Broadcast \/ Spin
ChildStep == SyncStep(Child) \/ Answer \/ Branch \/ Leave

Next == MainStep \/ ChildStep \/ Finished

\* The scheduler runs every goroutine that stays runnable.
Spec == Init /\ [][Next]_vars /\ WF_vars(MainStep) /\ WF_vars(ChildStep)
-----------------------------------------------------------------------------
\* One goroutine at a time is on the list, so the signal always goes to the one
\* that waits for the new turn and sync_cond_signal is enough.
OneSleeper == Cardinality(waiters) <= 1

\* A goroutine asleep on the list waits for a turn that is not there yet, or for
\* a signal that is on its way: a signal made without the lock is never missed.
NoMissedSignal ==
  \A p, q \in Procs :
    p # q /\ p \in waiters /\ turn = Mine(p) => pc[q] \in {"signal", "broadcast"}

\* The condition variable is a volley: the turn alternates, also when a late
\* signal wakes a goroutine whose turn it is not.
TheVolley == INSTANCE Volley WITH gone <- gone = 1
VolleyInTurn == TheVolley!Spec

\* Once the partner runs, the benchmark ends and leaves no goroutine behind.
PingPongEnds == (pc[Child] # "none") ~> (pc[Main] = "done" /\ pc[Child] = "done")
-----------------------------------------------------------------------------
\* The parts of the inductive invariant: where each goroutine can be, with the
\* lock held between its taking and its dropping and nowhere else,
Places ==
  /\ pc[Main] \in {"launch", "serve", "serving", "signal", "lock", "check", "enqueue",
                   "unlocking", "asleep", "broadcast", "spin", "done"}
  /\ pc[Child] \in {"none", "lock", "check", "enqueue", "unlocking", "asleep", "signal",
                    "branch", "leave", "done"}
  /\ pc[Main] = "launch" => pc[Child] = "none"
  /\ \A p \in Procs : holder = p <=> pc[p] \in {"serving", "check", "enqueue", "unlocking"}

\* who is on the list, and that one puts itself there for a turn that cannot
\* come while it holds the lock,
Listed ==
  \A p \in Procs : /\ p \in waiters => pc[p] \in {"unlocking", "asleep"}
                   /\ pc[p] = "enqueue" => turn # Mine(p)

\* whose turn it is, by the counters,
Turns ==
  /\ served = answered + turn
  /\ pc[Main] \in {"launch", "serve", "serving"} => turn = 0

\* and how the order to stop travels: with the last serve to the partner, and
\* with the last answer out of its loop.
Stopping ==
  /\ stop = 1 <=> served = Total
  /\ seen = 1 <=> answered = Total
  /\ pc[Main] \notin {"broadcast", "spin", "done"} => stop = 0
  /\ pc[Child] \in {"none", "lock", "check", "enqueue", "unlocking", "asleep"} => seen = 0
  /\ pc[Child] \in {"leave", "done"} => seen = 1
  /\ gone = 1 <=> pc[Child] = "done"

IInv == TypeOK /\ Places /\ Listed /\ NoMissedSignal /\ Turns /\ Stopping
=============================================================================
