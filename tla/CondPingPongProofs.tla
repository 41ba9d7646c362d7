-------------------------- MODULE CondPingPongProofs --------------------------
(***************************************************************************)
(* Proofs about CondPingPong for every number of iterations: a signal made *)
(* without the lock is never missed, one goroutine at a time sleeps, and   *)
(* the two of them volley strictly in turn.                                *)
(***************************************************************************)
EXTENDS CondPingPong, TLAPS, FiniteSetTheorems

\* Every step of either goroutine preserves the invariant.
LEMMA Inductive == IInv /\ [Next]_vars => IInv'
  <1> SUFFICES ASSUME IInv, [Next]_vars PROVE IInv'
    OBVIOUS
  <1> USE NAssumption
  <1> USE DEF Main, Child, Procs, None, Total, Mine, Goto, sync, flags, count
  <1>0. TypeOK /\ Places /\ Listed /\ NoMissedSignal /\ Turns /\ Stopping
    BY DEF IInv
  <1>1. ASSUME NEW p \in Procs, Lock(p) PROVE IInv'
    <2>1. TypeOK'
      BY <1>0, <1>1 DEF Lock, TypeOK, Points
    <2>2. Places'
      BY <1>0, <1>1 DEF Lock, TypeOK, Places
    <2>3. Listed'
      BY <1>0, <1>1 DEF Lock, TypeOK, Places, Listed
    <2>4. NoMissedSignal'
      BY <1>0, <1>1 DEF Lock, TypeOK, Places, Listed, NoMissedSignal
    <2>5. Turns'
      BY <1>0, <1>1 DEF Lock, TypeOK, Places, Turns
    <2>6. Stopping'
      BY <1>0, <1>1 DEF Lock, TypeOK, Places, Turns, Stopping
    <2> QED
      BY <2>1, <2>2, <2>3, <2>4, <2>5, <2>6 DEF IInv
  <1>2. ASSUME NEW p \in Procs, Wait(p) PROVE IInv'
    <2>1. TypeOK'
      BY <1>0, <1>2 DEF Wait, TypeOK, Points
    <2>2. Places'
      BY <1>0, <1>2 DEF Wait, TypeOK, Places
    <2>3. Listed'
      BY <1>0, <1>2 DEF Wait, TypeOK, Places, Listed
    <2>4. NoMissedSignal'
      BY <1>0, <1>2 DEF Wait, TypeOK, Places, Listed, NoMissedSignal
    <2>5. Turns'
      BY <1>0, <1>2 DEF Wait, TypeOK, Places, Turns
    <2>6. Stopping'
      BY <1>0, <1>2 DEF Wait, TypeOK, Places, Turns, Stopping
    <2> QED
      BY <2>1, <2>2, <2>3, <2>4, <2>5, <2>6 DEF IInv
  <1>3. ASSUME NEW p \in Procs, Enqueue(p) PROVE IInv'
    <2>1. TypeOK'
      BY <1>0, <1>3 DEF Enqueue, TypeOK, Points
    <2>2. Places'
      BY <1>0, <1>3 DEF Enqueue, TypeOK, Places
    <2>3. Listed'
      BY <1>0, <1>3 DEF Enqueue, TypeOK, Places, Listed
    <2>4. NoMissedSignal'
      BY <1>0, <1>3 DEF Enqueue, TypeOK, Places, Listed, NoMissedSignal
    <2>5. Turns'
      BY <1>0, <1>3 DEF Enqueue, TypeOK, Places, Turns
    <2>6. Stopping'
      BY <1>0, <1>3 DEF Enqueue, TypeOK, Places, Turns, Stopping
    <2> QED
      BY <2>1, <2>2, <2>3, <2>4, <2>5, <2>6 DEF IInv
  <1>4. ASSUME NEW p \in Procs, Sleep(p) PROVE IInv'
    <2>1. TypeOK'
      BY <1>0, <1>4 DEF Sleep, TypeOK, Points
    <2>2. Places'
      BY <1>0, <1>4 DEF Sleep, TypeOK, Places
    <2>3. Listed'
      BY <1>0, <1>4 DEF Sleep, TypeOK, Places, Listed
    <2>4. NoMissedSignal'
      BY <1>0, <1>4 DEF Sleep, TypeOK, Places, Listed, NoMissedSignal
    <2>5. Turns'
      BY <1>0, <1>4 DEF Sleep, TypeOK, Places, Turns
    <2>6. Stopping'
      BY <1>0, <1>4 DEF Sleep, TypeOK, Places, Turns, Stopping
    <2> QED
      BY <2>1, <2>2, <2>3, <2>4, <2>5, <2>6 DEF IInv
  <1>5. ASSUME NEW p \in Procs, Wake(p) PROVE IInv'
    <2>1. TypeOK'
      BY <1>0, <1>5 DEF Wake, TypeOK, Points
    <2>2. Places'
      BY <1>0, <1>5 DEF Wake, TypeOK, Places
    <2>3. Listed'
      BY <1>0, <1>5 DEF Wake, TypeOK, Places, Listed
    <2>4. NoMissedSignal'
      BY <1>0, <1>5 DEF Wake, TypeOK, Places, Listed, NoMissedSignal
    <2>5. Turns'
      BY <1>0, <1>5 DEF Wake, TypeOK, Places, Turns
    <2>6. Stopping'
      BY <1>0, <1>5 DEF Wake, TypeOK, Places, Turns, Stopping
    <2> QED
      BY <2>1, <2>2, <2>3, <2>4, <2>5, <2>6 DEF IInv
  <1>6. ASSUME NEW p \in Procs, Signal(p) PROVE IInv'
    <2>1. TypeOK'
      BY <1>0, <1>6 DEF Signal, TypeOK, Points
    <2>2. Places'
      BY <1>0, <1>6 DEF Signal, TypeOK, Places
    <2>3. Listed'
      BY <1>0, <1>6 DEF Signal, TypeOK, Places, Listed
    <2>4. NoMissedSignal'
      BY <1>0, <1>6 DEF Signal, TypeOK, Places, Listed, NoMissedSignal
    <2>5. Turns'
      BY <1>0, <1>6 DEF Signal, TypeOK, Places, Turns
    <2>6. Stopping'
      BY <1>0, <1>6 DEF Signal, TypeOK, Places, Turns, Stopping
    <2> QED
      BY <2>1, <2>2, <2>3, <2>4, <2>5, <2>6 DEF IInv
  <1>7. CASE Launch
    <2>1. TypeOK'
      BY <1>0, <1>7 DEF Launch, TypeOK, Points
    <2>2. Places'
      BY <1>0, <1>7 DEF Launch, TypeOK, Places
    <2>3. Listed'
      BY <1>0, <1>7 DEF Launch, TypeOK, Places, Listed
    <2>4. NoMissedSignal'
      BY <1>0, <1>7 DEF Launch, TypeOK, Places, Listed, NoMissedSignal
    <2>5. Turns'
      BY <1>0, <1>7 DEF Launch, TypeOK, Places, Turns, Stopping
    <2>6. Stopping'
      BY <1>0, <1>7 DEF Launch, TypeOK, Places, Turns, Stopping
    <2> QED
      BY <2>1, <2>2, <2>3, <2>4, <2>5, <2>6 DEF IInv
  <1>8. CASE Serve
    <2>1. TypeOK'
      BY <1>0, <1>8 DEF Serve, TypeOK, Points, Turns, Stopping
    <2>2. Places'
      BY <1>0, <1>8 DEF Serve, TypeOK, Places
    <2>3. Listed'
      BY <1>0, <1>8 DEF Serve, TypeOK, Places, Listed
    <2>4. NoMissedSignal'
      BY <1>0, <1>8 DEF Serve, TypeOK, Places, Listed, NoMissedSignal
    <2>5. Turns'
      BY <1>0, <1>8 DEF Serve, TypeOK, Places, Turns, Stopping
    <2>6. Stopping'
      BY <1>0, <1>8 DEF Serve, TypeOK, Places, Turns, Stopping
    <2> QED
      BY <2>1, <2>2, <2>3, <2>4, <2>5, <2>6 DEF IInv
  <1>9. CASE Back
    <2>1. TypeOK'
      BY <1>0, <1>9 DEF Back, TypeOK, Points
    <2>2. Places'
      BY <1>0, <1>9 DEF Back, TypeOK, Places
    <2>3. Listed'
      BY <1>0, <1>9 DEF Back, TypeOK, Places, Listed
    <2>4. NoMissedSignal'
      BY <1>0, <1>9 DEF Back, TypeOK, Places, Listed, NoMissedSignal
    <2>5. Turns'
      BY <1>0, <1>9 DEF Back, TypeOK, Places, Turns
    <2>6. Stopping'
      BY <1>0, <1>9 DEF Back, TypeOK, Places, Turns, Stopping
    <2> QED
      BY <2>1, <2>2, <2>3, <2>4, <2>5, <2>6 DEF IInv
  <1>10. CASE Broadcast
    <2>1. TypeOK'
      BY <1>0, <1>10 DEF Broadcast, TypeOK, Points
    <2>2. Places'
      BY <1>0, <1>10 DEF Broadcast, TypeOK, Places
    <2>3. Listed'
      BY <1>0, <1>10 DEF Broadcast, TypeOK, Places, Listed
    <2>4. NoMissedSignal'
      BY <1>0, <1>10 DEF Broadcast, TypeOK, Places, Listed, NoMissedSignal
    <2>5. Turns'
      BY <1>0, <1>10 DEF Broadcast, TypeOK, Places, Turns
    <2>6. Stopping'
      BY <1>0, <1>10 DEF Broadcast, TypeOK, Places, Turns, Stopping
    <2> QED
      BY <2>1, <2>2, <2>3, <2>4, <2>5, <2>6 DEF IInv
  <1>11. CASE Spin
    <2>1. TypeOK'
      BY <1>0, <1>11 DEF Spin, TypeOK, Points
    <2>2. Places'
      BY <1>0, <1>11 DEF Spin, TypeOK, Places
    <2>3. Listed'
      BY <1>0, <1>11 DEF Spin, TypeOK, Places, Listed
    <2>4. NoMissedSignal'
      BY <1>0, <1>11 DEF Spin, TypeOK, Places, Listed, NoMissedSignal
    <2>5. Turns'
      BY <1>0, <1>11 DEF Spin, TypeOK, Places, Turns
    <2>6. Stopping'
      BY <1>0, <1>11 DEF Spin, TypeOK, Places, Turns, Stopping
    <2> QED
      BY <2>1, <2>2, <2>3, <2>4, <2>5, <2>6 DEF IInv
  <1>12. CASE Answer
    <2>1. TypeOK'
      BY <1>0, <1>12 DEF Answer, TypeOK, Points, Turns, Stopping
    <2>2. Places'
      BY <1>0, <1>12 DEF Answer, TypeOK, Places
    <2>3. Listed'
      BY <1>0, <1>12 DEF Answer, TypeOK, Places, Listed
    <2>4. NoMissedSignal'
      BY <1>0, <1>12 DEF Answer, TypeOK, Places, Listed, NoMissedSignal
    <2>5. Turns'
      BY <1>0, <1>12 DEF Answer, TypeOK, Places, Turns, Stopping
    <2>6. Stopping'
      BY <1>0, <1>12 DEF Answer, TypeOK, Places, Turns, Stopping
    <2> QED
      BY <2>1, <2>2, <2>3, <2>4, <2>5, <2>6 DEF IInv
  <1>13. CASE Branch
    <2>1. TypeOK'
      BY <1>0, <1>13 DEF Branch, TypeOK, Points
    <2>2. Places'
      BY <1>0, <1>13 DEF Branch, TypeOK, Places
    <2>3. Listed'
      BY <1>0, <1>13 DEF Branch, TypeOK, Places, Listed
    <2>4. NoMissedSignal'
      BY <1>0, <1>13 DEF Branch, TypeOK, Places, Listed, NoMissedSignal
    <2>5. Turns'
      BY <1>0, <1>13 DEF Branch, TypeOK, Places, Turns
    <2>6. Stopping'
      BY <1>0, <1>13 DEF Branch, TypeOK, Places, Turns, Stopping
    <2> QED
      BY <2>1, <2>2, <2>3, <2>4, <2>5, <2>6 DEF IInv
  <1>14. CASE Leave
    <2>1. TypeOK'
      BY <1>0, <1>14 DEF Leave, TypeOK, Points
    <2>2. Places'
      BY <1>0, <1>14 DEF Leave, TypeOK, Places
    <2>3. Listed'
      BY <1>0, <1>14 DEF Leave, TypeOK, Places, Listed
    <2>4. NoMissedSignal'
      BY <1>0, <1>14 DEF Leave, TypeOK, Places, Listed, NoMissedSignal
    <2>5. Turns'
      BY <1>0, <1>14 DEF Leave, TypeOK, Places, Turns
    <2>6. Stopping'
      BY <1>0, <1>14 DEF Leave, TypeOK, Places, Turns, Stopping
    <2> QED
      BY <2>1, <2>2, <2>3, <2>4, <2>5, <2>6 DEF IInv
  <1>15. CASE UNCHANGED vars
    BY <1>0, <1>15 DEF vars, IInv, TypeOK, Places, Listed, NoMissedSignal, Turns, Stopping
  <1> QED
    BY <1>1, <1>2, <1>3, <1>4, <1>5, <1>6, <1>7, <1>8, <1>9, <1>10, <1>11, <1>12, <1>13, <1>14, <1>15
       DEF Next, MainStep, ChildStep, SyncStep, Finished

\* The invariant holds in every reachable state.
LEMMA Invariance == Spec => []IInv
  <1>1. Init => IInv
    BY NAssumption
       DEF Init, IInv, TypeOK, Places, Listed, NoMissedSignal, Turns, Stopping,
           Points, Main, Child, Procs, None, Total, Mine
  <1> QED
    BY <1>1, Inductive, PTL DEF Spec

\* The lock, the list, the flags and the counters keep their types.
THEOREM TypeCorrect == Spec => []TypeOK
  <1>1. IInv => TypeOK
    BY DEF IInv
  <1> QED
    BY <1>1, Invariance, PTL

\* A goroutine on the list whose turn it is has a signal on its way, though
\* sync_cond_signal is called without the lock.
THEOREM SignalsFindSleeper == Spec => []NoMissedSignal
  <1>1. IInv => NoMissedSignal
    BY DEF IInv
  <1> QED
    BY <1>1, Invariance, PTL

\* The two goroutines are never on the list together, so sync_cond_signal cannot
\* wake the wrong one.
THEOREM NeverTwoSleepers == Spec => []OneSleeper
  <1>1. IInv => OneSleeper
    <2> SUFFICES ASSUME IInv PROVE OneSleeper
      OBVIOUS
    <2>1. TypeOK /\ Listed /\ NoMissedSignal
      BY DEF IInv
    <2>2. ~(Main \in waiters /\ Child \in waiters)
      BY <2>1 DEF TypeOK, Listed, NoMissedSignal, Procs, Main, Child, Mine
    <2>3. waiters = {} \/ waiters = {Main} \/ waiters = {Child}
      BY <2>1, <2>2 DEF TypeOK, Procs, Main, Child
    <2>4. Cardinality({}) = 0 /\ Cardinality({Main}) = 1 /\ Cardinality({Child}) = 1
      BY FS_EmptySet, FS_Singleton
    <2> QED
      BY <2>3, <2>4 DEF OneSleeper
  <1> QED
    BY <1>1, Invariance, PTL

\* A step of the two goroutines is a serve, an answer, the leaving of the partner
\* or none of the three.
LEMMA StepRefines == IInv /\ [Next]_vars => [TheVolley!Next]_(TheVolley!volley)
  <1> SUFFICES ASSUME IInv, [Next]_vars PROVE [TheVolley!Next]_(TheVolley!volley)
    OBVIOUS
  <1> USE NAssumption DEF TheVolley!volley, TheVolley!Next, Main, Child, Total
  <1>0. /\ served \in Nat /\ answered \in Nat /\ gone \in {0, 1} /\ stop \in {0, 1}
        /\ served <= Total /\ Turns /\ Stopping
    BY DEF IInv, TypeOK
  <1>1. CASE Serve
    <2>1. served = answered /\ served < Total
      BY <1>0, <1>1 DEF Serve, Turns, Stopping
    <2>2. served' = served + 1 /\ answered' = answered /\ gone' = gone
      BY <1>1 DEF Serve
    <2> QED
      BY <2>1, <2>2 DEF TheVolley!Serve
  <1>2. CASE Answer
    <2>1. answered < served
      BY <1>0, <1>2 DEF Answer, Turns, Mine
    <2>2. served' = served /\ answered' = answered + 1 /\ gone' = gone
      BY <1>2 DEF Answer
    <2> QED
      BY <2>1, <2>2 DEF TheVolley!Answer
  <1>3. CASE Leave
    <2>1. answered = Total
      BY <1>0, <1>3 DEF Leave, Stopping
    <2>2. served' = served /\ answered' = answered /\ gone' = 1
      BY <1>3 DEF Leave
    <2> QED
      BY <2>1, <2>2 DEF TheVolley!Leave
  <1>4. ASSUME NEW p \in Procs, SyncStep(p)
        PROVE  UNCHANGED TheVolley!volley
    BY <1>4 DEF SyncStep, Lock, Wait, Enqueue, Sleep, Wake, Signal, count
  <1>5. CASE Launch \/ Back \/ Broadcast \/ Spin \/ Branch \/ Finished
    BY <1>5 DEF Launch, Back, Broadcast, Spin, Branch, Finished, vars, count
  <1>6. CASE UNCHANGED vars
    BY <1>6 DEF vars, count
  <1> QED
    BY <1>1, <1>2, <1>3, <1>4, <1>5, <1>6 DEF Next, MainStep, ChildStep, Procs

\* The condition variable implements the volley, for every number of iterations:
\* a signal that wakes a goroutine too early costs a turn of the loop and no
\* more.
THEOREM ImplementsVolley == Spec => VolleyInTurn
  <1>1. Init => TheVolley!Init
    BY DEF Init, TheVolley!Init
  <1> QED
    BY <1>1, StepRefines, Invariance, PTL DEF Spec, VolleyInTurn, TheVolley!Spec
=============================================================================
