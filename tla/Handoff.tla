------------------------------ MODULE Handoff ------------------------------
(***************************************************************************)
(* The benchmark goroutine_handoff of bench/sched_bench.c: two goroutines  *)
(* pass a turn through two one-waiter gates built on sched_park and        *)
(* sched_ready.  The main goroutine (hand_body) signals there and waits on *)
(* back, the child (hand_child) waits on there and signals back.           *)
(*                                                                         *)
(* Steps of the two goroutines interleave freely; a lock, an atomic and a  *)
(* call into the scheduler are one step each.  The scheduler is burrow's:  *)
(* sched_park runs its commit function, gate_unlock, once the goroutine is *)
(* off its stack, and sched_ready makes a parked goroutine runnable.       *)
(***************************************************************************)
EXTENDS Naturals

CONSTANT N                     \* b->n
ASSUME NAssumption == N \in Nat

Main  == "main"
Child == "child"
Procs == {Main, Child}
There == "there"
Back  == "back"
Gates == {There, Back}

None  == "none"                \* NULL, and the holder of a free lock
Total == N + 2                 \* the volley before the clock and the last one

Other(p)    == IF p = Main THEN Child ELSE Main
SigGate(p)  == IF p = Main THEN There ELSE Back
WaitGate(p) == IF p = Main THEN Back ELSE There

VARIABLES pc,         \* where each goroutine is
          lock,       \* per gate: who holds gt->lock
          waiter,     \* per gate: gt->waiter
          signalled,  \* per gate: gt->signalled
          volleys,    \* the volleys hand_body has finished
          running,    \* is the clock of the benchmark running
          stop,       \* hand_stop
          seen,       \* the child's local stop
          served, answered, gone   \* signals made there and back; hand_gone

gate  == <<lock, waiter, signalled>>
turn  == <<volleys, running, stop, seen>>
count == <<served, answered, gone>>
vars  == <<pc, gate, turn, count>>

Points == {"launch", "none", "signal", "signal_locked", "ready",
           "wait", "wait_locked", "parking", "parked", "woken",
           "load", "branch", "leave", "spin", "done"}

TypeOK ==
  /\ pc \in [Procs -> Points]
  /\ lock \in [Gates -> Procs \cup {None}]
  /\ waiter \in [Gates -> Procs \cup {None}]
  /\ signalled \in [Gates -> {0, 1}]
  /\ volleys \in 0..Total
  /\ running \in {0, 1}
  /\ stop \in {0, 1}
  /\ seen \in {0, 1}
  /\ served \in 0..Total
  /\ answered \in 0..Total
  /\ gone \in {0, 1}

\* BENCH(goroutine_handoff): both gates zeroed, the flags cleared, and the
\* clock stopped by run_with_one_p.
Init ==
  /\ pc = [p \in Procs |-> IF p = Main THEN "launch" ELSE "none"]
  /\ lock = [g \in Gates |-> None]
  /\ waiter = [g \in Gates |-> None]
  /\ signalled = [g \in Gates |-> 0]
  /\ volleys = 0
  /\ running = 0
  /\ stop = 0 /\ seen = 0
  /\ served = 0 /\ answered = 0
  /\ gone = 0

Goto(p, l) == pc' = [pc EXCEPT ![p] = l]
-----------------------------------------------------------------------------
\* burrow__lock at the head of gate_wait and of gate_signal.
Lock(p, from, g, to) ==
  /\ pc[p] = from
  /\ lock[g] = None
  /\ lock' = [lock EXCEPT ![g] = p]
  /\ Goto(p, to)
  /\ UNCHANGED <<waiter, signalled, turn, count>>

WaitLock(p)   == Lock(p, "wait", WaitGate(p), "wait_locked")
SignalLock(p) == Lock(p, "signal", SigGate(p), "signal_locked")

\* Mutant: the lock is dropped before the goroutine is parked.
WaitUnlocksEarly(p) ==
  LET g == WaitGate(p) IN
  /\ pc[p] = "wait_locked"
  /\ lock' = [lock EXCEPT ![g] = None]
  /\ \/ /\ signalled[g] # 0
        /\ signalled' = [signalled EXCEPT ![g] = 0]
        /\ Goto(p, "woken")
        /\ UNCHANGED waiter
     \/ /\ signalled[g] = 0
        /\ waiter' = [waiter EXCEPT ![g] = p]
        /\ Goto(p, "parking")
        /\ UNCHANGED signalled
  /\ UNCHANGED <<turn, count>>

\* gate_wait under the lock: take a signal that is already there, or become
\* the waiter and go to park with the lock still held.
WaitLocked(p) ==
  LET g == WaitGate(p) IN
  /\ pc[p] = "wait_locked"
  /\ \/ /\ signalled[g] # 0
        /\ signalled' = [signalled EXCEPT ![g] = 0]
        /\ lock' = [lock EXCEPT ![g] = None]
        /\ Goto(p, "woken")
        /\ UNCHANGED waiter
     \/ /\ signalled[g] = 0
        /\ waiter' = [waiter EXCEPT ![g] = p]
        /\ Goto(p, "parking")
        /\ UNCHANGED <<lock, signalled>>
  /\ UNCHANGED <<turn, count>>

\* sched_park: the goroutine is off its stack, then gate_unlock commits.
gate_unlock(p) ==
  /\ pc[p] = "parking"
  /\ lock' = [lock EXCEPT ![WaitGate(p)] = None]
  /\ Goto(p, "parked")
  /\ UNCHANGED <<waiter, signalled, turn, count>>

\* Where gate_signal returns to.
AfterSignal(p) == IF p = Main THEN "wait" ELSE "branch"

\* Mutant: a signal is always left in the gate, waiter or not.
SignalLeavesFlag(p) ==
  LET g == SigGate(p) IN
  /\ pc[p] = "signal_locked"
  /\ lock' = [lock EXCEPT ![g] = None]
  /\ signalled' = [signalled EXCEPT ![g] = 1]
  /\ waiter' = [waiter EXCEPT ![g] = None]
  /\ Goto(p, IF waiter[g] = None THEN AfterSignal(p) ELSE "ready")
  /\ served' = IF p = Main THEN served + 1 ELSE served
  /\ answered' = IF p = Child THEN answered + 1 ELSE answered
  /\ UNCHANGED <<turn, gone>>

\* gate_signal under the lock: leave the signal in the gate, or take the
\* waiter out of it and make it ready once the lock is dropped.
SignalLocked(p) ==
  LET g == SigGate(p) IN
  /\ pc[p] = "signal_locked"
  /\ lock' = [lock EXCEPT ![g] = None]
  /\ \/ /\ waiter[g] = None
        /\ signalled' = [signalled EXCEPT ![g] = 1]
        /\ Goto(p, AfterSignal(p))
        /\ UNCHANGED waiter
     \/ /\ waiter[g] # None
        /\ waiter' = [waiter EXCEPT ![g] = None]
        /\ Goto(p, "ready")
        /\ UNCHANGED signalled
  /\ served' = IF p = Main THEN served + 1 ELSE served
  /\ answered' = IF p = Child THEN answered + 1 ELSE answered
  /\ UNCHANGED <<turn, gone>>

\* sched_ready(w).  The waiter of a gate is always the other goroutine.  One
\* that is not parked yet is not woken by it.
Ready(p) ==
  LET w == Other(p) IN
  /\ pc[p] = "ready"
  /\ pc' = [pc EXCEPT ![p] = AfterSignal(p),
                      ![w] = IF pc[w] = "parked" THEN "woken" ELSE pc[w]]
  /\ UNCHANGED <<gate, turn, count>>
-----------------------------------------------------------------------------
\* Mutant: the clock is started before the volley that pays for the launch.
LaunchTimed ==
  /\ pc[Main] = "launch"
  /\ running' = 1
  /\ \/ pc' = [pc EXCEPT ![Main] = "signal", ![Child] = "wait"]
     \/ Goto(Main, "done")
  /\ UNCHANGED <<gate, volleys, stop, seen, count>>

\* hand_body: go() starts the child, or fails and the body returns.
Launch ==
  /\ pc[Main] = "launch"
  /\ \/ pc' = [pc EXCEPT ![Main] = "signal", ![Child] = "wait"]
     \/ Goto(Main, "done")
  /\ UNCHANGED <<gate, turn, count>>

\* Mutant: hand_stop is only set behind the last volley.
StopTooLate ==
  /\ pc[Main] = "woken"
  /\ volleys' = volleys + 1
  /\ running' = IF volleys' <= N THEN 1 ELSE 0
  /\ stop' = IF volleys' = Total THEN 1 ELSE stop
  /\ Goto(Main, IF volleys' < Total THEN "signal" ELSE "spin")
  /\ UNCHANGED <<gate, seen, count>>

\* Mutant: one volley more behind the one the child leaves on.
VolleyOnceMore ==
  /\ pc[Main] = "woken"
  /\ volleys' = volleys + 1
  /\ running' = IF volleys' <= N THEN 1 ELSE 0
  /\ stop' = IF volleys' = N + 1 THEN 1 ELSE stop
  /\ Goto(Main, IF volleys' <= Total THEN "signal" ELSE "spin")
  /\ UNCHANGED <<gate, seen, count>>

\* hand_body returns from gate_wait(&hand_back).  The first volley is followed
\* by bench_resume, the last of the N in the loop by bench_pause and the store
\* of hand_stop, and the one behind that by the wait for hand_gone.
Volleyed ==
  /\ pc[Main] = "woken"
  /\ volleys' = volleys + 1
  /\ running' = IF volleys' <= N THEN 1 ELSE 0
  /\ stop' = IF volleys' = N + 1 THEN 1 ELSE stop
  /\ Goto(Main, IF volleys' < Total THEN "signal" ELSE "spin")
  /\ UNCHANGED <<gate, seen, count>>

\* The spin on hand_gone, with a gosched between two looks at it.
Spin ==
  /\ pc[Main] = "spin"
  /\ gone # 0
  /\ Goto(Main, "done")
  /\ UNCHANGED <<gate, turn, count>>

\* hand_child returns from gate_wait(&hand_there).
Woken ==
  /\ pc[Child] = "woken"
  /\ Goto(Child, "load")
  /\ UNCHANGED <<gate, turn, count>>

\* hand_stop is read before the signal.
Load ==
  /\ pc[Child] = "load"
  /\ seen' = stop
  /\ Goto(Child, "signal")
  /\ UNCHANGED <<gate, volleys, running, stop, count>>

\* Mutant: hand_stop is read again after the signal.
BranchOnStop ==
  /\ pc[Child] = "branch"
  /\ Goto(Child, IF stop # 0 THEN "leave" ELSE "wait")
  /\ UNCHANGED <<gate, turn, count>>

\* if (stop) break;
Branch ==
  /\ pc[Child] = "branch"
  /\ Goto(Child, IF seen # 0 THEN "leave" ELSE "wait")
  /\ UNCHANGED <<gate, turn, count>>

Leave ==
  /\ pc[Child] = "leave"
  /\ gone' = 1
  /\ Goto(Child, "done")
  /\ UNCHANGED <<gate, turn, served, answered>>

\* The body has returned and runtime_main with it.
Finished ==
  /\ pc[Main] = "done"
  /\ UNCHANGED vars

GateStep(p) ==
  \/ WaitLock(p) \/ WaitLocked(p) \/ gate_unlock(p)
  \/ SignalLock(p) \/ SignalLocked(p) \/ Ready(p)

MainStep  == GateStep(Main) \/ Launch \/ Volleyed \/ Spin
ChildStep == GateStep(Child) \/ Woken \/ Load \/ Branch \/ Leave

Next == MainStep \/ ChildStep \/ Finished

\* The scheduler runs every goroutine that stays runnable.
Spec == Init /\ [][Next]_vars /\ WF_vars(MainStep) /\ WF_vars(ChildStep)
-----------------------------------------------------------------------------
\* sched_ready is only ever called on a goroutine that has finished parking:
\* gate_unlock runs behind the park, so nobody sees a waiter before that.
ReadyFindsParked == \A p \in Procs : pc[p] = "ready" => pc[Other(p)] = "parked"

\* A gate holds one signal.  Nobody signals a gate whose last signal was not
\* taken, so none is swallowed.
NoSignalLost ==
  \A p \in Procs : pc[p] = "signal_locked" => signalled[SigGate(p)] = 0

\* The clock only runs between the first volley, which pays for the launch of
\* the child, and the volley that ends it.
TimedInside == running = 1 => volleys \in 1..N /\ stop = 0 /\ pc[Child] # "none"

\* The gates are a volley: strictly in turn, the first and the last one
\* included, and the child leaves behind the last.  A launch that failed is
\* the volley that never happens.
TheVolley == INSTANCE Volley WITH gone <- gone = 1
VolleyInTurn == TheVolley!Spec

\* Once the child runs, the benchmark ends with the child gone: nobody waits
\* for a signal that is not coming.
HandoffEnds == (pc[Child] # "none") ~> (pc[Main] = "done" /\ gone = 1)
-----------------------------------------------------------------------------
(***************************************************************************)
(* The inductive invariant behind the three properties above.              *)
(***************************************************************************)
\* A lock is held exactly at the points of its holder's critical section.
LockHolders ==
  \A p \in Procs :
    /\ lock[WaitGate(p)] = p <=> pc[p] \in {"wait_locked", "parking"}
    /\ lock[SigGate(p)] = p <=> pc[p] = "signal_locked"

\* A gate names its waiter from before the park until somebody signals it.
Waiters ==
  \A p \in Procs :
    /\ waiter[WaitGate(p)] \in {p, None}
    /\ waiter[WaitGate(p)] = p
         <=> pc[p] \in {"parking", "parked"} /\ pc[Other(p)] # "ready"

\* Between the answer to a serve and the next serve the turn is with the main
\* goroutine, on its way there, or in the back gate.
TurnWithMain ==
  served = answered =>
    /\ signalled[There] = 0
    /\ pc[Main] \in {"launch", "signal", "signal_locked", "wait", "wait_locked",
                     "parked", "woken", "spin", "done"}
    /\ pc[Child] \in {"none", "wait", "wait_locked", "parking", "parked", "ready",
                      "branch", "leave", "done"}
    /\ signalled[Back] = 1 <=> pc[Main] \in {"wait", "wait_locked"}
    /\ pc[Main] = "parked" <=> pc[Child] = "ready"
    /\ pc[Main] = "launch" => pc[Child] = "none"
    /\ pc[Child] = "none" => pc[Main] \in {"launch", "done"}

\* And between a serve and its answer it is with the child.
TurnWithChild ==
  served # answered =>
    /\ served = answered + 1
    /\ signalled[Back] = 0
    /\ pc[Main] \in {"ready", "wait", "wait_locked", "parking", "parked"}
    /\ pc[Child] \in {"branch", "wait", "wait_locked", "parked", "woken", "load",
                      "signal", "signal_locked"}
    /\ signalled[There] = 1 <=> pc[Child] \in {"branch", "wait", "wait_locked"}
    /\ pc[Child] = "parked" <=> pc[Main] = "ready"

\* The counts behind the order: how far hand_body is, and that the child leaves
\* behind the last volley and no other.
Counts ==
  /\ pc[Main] \in {"ready", "wait", "wait_locked", "parking", "parked", "woken"}
       => served = volleys + 1 /\ volleys < Total
  /\ pc[Main] \in {"launch", "signal", "signal_locked"}
       => served = volleys /\ volleys < Total
  /\ pc[Main] \in {"spin", "done"} => served = volleys
  /\ stop = 1 <=> volleys > N
  /\ pc[Child] \in {"signal", "signal_locked"} => seen = stop
  /\ pc[Child] \in {"ready", "branch"} => (seen = 1 <=> answered = Total)
  /\ pc[Child] \in {"leave", "done"} => answered = Total

IInv ==
  TypeOK /\ LockHolders /\ Waiters /\ TurnWithMain /\ TurnWithChild /\ Counts
=============================================================================
