--------------------------- MODULE HandoffProofs ---------------------------
(***************************************************************************)
(* Proofs about Handoff for every number of iterations: the inductive      *)
(* invariant IInv, and from it that no wakeup and no signal is lost and    *)
(* that the two goroutines volley strictly in turn.                        *)
(***************************************************************************)
EXTENDS Handoff, TLAPS

\* Every step of either goroutine preserves the invariant.
LEMMA Inductive == IInv /\ [Next]_vars => IInv'
  <1> SUFFICES ASSUME IInv, [Next]_vars PROVE IInv'
    OBVIOUS
  <1> USE NAssumption
  <1> USE DEF Main, Child, Procs, There, Back, Gates, None, Other, SigGate, WaitGate,
              Total, Goto, gate, turn, count
  <1>0. TypeOK /\ LockHolders /\ Waiters /\ TurnWithMain /\ TurnWithChild /\ Counts
    BY DEF IInv
  <1>1. CASE WaitLock(Main)
    <2>1. TypeOK'
      BY <1>0, <1>1 DEF WaitLock, Lock, TypeOK, Points, Counts
    <2>2. LockHolders'
      BY <1>0, <1>1 DEF WaitLock, Lock, TypeOK, LockHolders
    <2>3. Waiters'
      BY <1>0, <1>1 DEF WaitLock, Lock, TypeOK, LockHolders, Waiters, TurnWithMain, TurnWithChild
    <2>4. TurnWithMain'
      BY <1>0, <1>1 DEF WaitLock, Lock, TypeOK, LockHolders, Waiters, TurnWithMain, TurnWithChild
    <2>5. TurnWithChild'
      BY <1>0, <1>1 DEF WaitLock, Lock, TypeOK, LockHolders, Waiters, TurnWithMain, TurnWithChild
    <2>6. Counts'
      BY <1>0, <1>1 DEF WaitLock, Lock, TypeOK, TurnWithMain, TurnWithChild, Counts
    <2> QED
      BY <2>1, <2>2, <2>3, <2>4, <2>5, <2>6 DEF IInv
  <1>2. CASE WaitLock(Child)
    <2>1. TypeOK'
      BY <1>0, <1>2 DEF WaitLock, Lock, TypeOK, Points, Counts
    <2>2. LockHolders'
      BY <1>0, <1>2 DEF WaitLock, Lock, TypeOK, LockHolders
    <2>3. Waiters'
      BY <1>0, <1>2 DEF WaitLock, Lock, TypeOK, LockHolders, Waiters, TurnWithMain, TurnWithChild
    <2>4. TurnWithMain'
      BY <1>0, <1>2 DEF WaitLock, Lock, TypeOK, LockHolders, Waiters, TurnWithMain, TurnWithChild
    <2>5. TurnWithChild'
      BY <1>0, <1>2 DEF WaitLock, Lock, TypeOK, LockHolders, Waiters, TurnWithMain, TurnWithChild
    <2>6. Counts'
      BY <1>0, <1>2 DEF WaitLock, Lock, TypeOK, TurnWithMain, TurnWithChild, Counts
    <2> QED
      BY <2>1, <2>2, <2>3, <2>4, <2>5, <2>6 DEF IInv
  <1>3. CASE WaitLocked(Main)
    <2>1. TypeOK'
      BY <1>0, <1>3 DEF WaitLocked, TypeOK, Points, Counts
    <2>2. LockHolders'
      BY <1>0, <1>3 DEF WaitLocked, TypeOK, LockHolders
    <2>3. Waiters'
      BY <1>0, <1>3 DEF WaitLocked, TypeOK, LockHolders, Waiters, TurnWithMain, TurnWithChild
    <2>4. TurnWithMain'
      BY <1>0, <1>3 DEF WaitLocked, TypeOK, LockHolders, Waiters, TurnWithMain, TurnWithChild
    <2>5. TurnWithChild'
      BY <1>0, <1>3 DEF WaitLocked, TypeOK, LockHolders, Waiters, TurnWithMain, TurnWithChild
    <2>6. Counts'
      BY <1>0, <1>3 DEF WaitLocked, TypeOK, TurnWithMain, TurnWithChild, Counts
    <2> QED
      BY <2>1, <2>2, <2>3, <2>4, <2>5, <2>6 DEF IInv
  <1>4. CASE WaitLocked(Child)
    <2>1. TypeOK'
      BY <1>0, <1>4 DEF WaitLocked, TypeOK, Points, Counts
    <2>2. LockHolders'
      BY <1>0, <1>4 DEF WaitLocked, TypeOK, LockHolders
    <2>3. Waiters'
      BY <1>0, <1>4 DEF WaitLocked, TypeOK, LockHolders, Waiters, TurnWithMain, TurnWithChild
    <2>4. TurnWithMain'
      BY <1>0, <1>4 DEF WaitLocked, TypeOK, LockHolders, Waiters, TurnWithMain, TurnWithChild
    <2>5. TurnWithChild'
      BY <1>0, <1>4 DEF WaitLocked, TypeOK, LockHolders, Waiters, TurnWithMain, TurnWithChild
    <2>6. Counts'
      BY <1>0, <1>4 DEF WaitLocked, TypeOK, TurnWithMain, TurnWithChild, Counts
    <2> QED
      BY <2>1, <2>2, <2>3, <2>4, <2>5, <2>6 DEF IInv
  <1>5. CASE gate_unlock(Main)
    <2>1. TypeOK'
      BY <1>0, <1>5 DEF gate_unlock, TypeOK, Points, Counts
    <2>2. LockHolders'
      BY <1>0, <1>5 DEF gate_unlock, TypeOK, LockHolders
    <2>3. Waiters'
      BY <1>0, <1>5 DEF gate_unlock, TypeOK, LockHolders, Waiters, TurnWithMain, TurnWithChild
    <2>4. TurnWithMain'
      BY <1>0, <1>5 DEF gate_unlock, TypeOK, LockHolders, Waiters, TurnWithMain, TurnWithChild
    <2>5. TurnWithChild'
      BY <1>0, <1>5 DEF gate_unlock, TypeOK, LockHolders, Waiters, TurnWithMain, TurnWithChild
    <2>6. Counts'
      BY <1>0, <1>5 DEF gate_unlock, TypeOK, TurnWithMain, TurnWithChild, Counts
    <2> QED
      BY <2>1, <2>2, <2>3, <2>4, <2>5, <2>6 DEF IInv
  <1>6. CASE gate_unlock(Child)
    <2>1. TypeOK'
      BY <1>0, <1>6 DEF gate_unlock, TypeOK, Points, Counts
    <2>2. LockHolders'
      BY <1>0, <1>6 DEF gate_unlock, TypeOK, LockHolders
    <2>3. Waiters'
      BY <1>0, <1>6 DEF gate_unlock, TypeOK, LockHolders, Waiters, TurnWithMain, TurnWithChild
    <2>4. TurnWithMain'
      BY <1>0, <1>6 DEF gate_unlock, TypeOK, LockHolders, Waiters, TurnWithMain, TurnWithChild
    <2>5. TurnWithChild'
      BY <1>0, <1>6 DEF gate_unlock, TypeOK, LockHolders, Waiters, TurnWithMain, TurnWithChild
    <2>6. Counts'
      BY <1>0, <1>6 DEF gate_unlock, TypeOK, TurnWithMain, TurnWithChild, Counts
    <2> QED
      BY <2>1, <2>2, <2>3, <2>4, <2>5, <2>6 DEF IInv
  <1>7. CASE SignalLock(Main)
    <2>1. TypeOK'
      BY <1>0, <1>7 DEF SignalLock, Lock, TypeOK, Points, Counts
    <2>2. LockHolders'
      BY <1>0, <1>7 DEF SignalLock, Lock, TypeOK, LockHolders
    <2>3. Waiters'
      BY <1>0, <1>7 DEF SignalLock, Lock, TypeOK, LockHolders, Waiters, TurnWithMain, TurnWithChild
    <2>4. TurnWithMain'
      BY <1>0, <1>7 DEF SignalLock, Lock, TypeOK, LockHolders, Waiters, TurnWithMain, TurnWithChild
    <2>5. TurnWithChild'
      BY <1>0, <1>7 DEF SignalLock, Lock, TypeOK, LockHolders, Waiters, TurnWithMain, TurnWithChild
    <2>6. Counts'
      BY <1>0, <1>7 DEF SignalLock, Lock, TypeOK, TurnWithMain, TurnWithChild, Counts
    <2> QED
      BY <2>1, <2>2, <2>3, <2>4, <2>5, <2>6 DEF IInv
  <1>8. CASE SignalLock(Child)
    <2>1. TypeOK'
      BY <1>0, <1>8 DEF SignalLock, Lock, TypeOK, Points, Counts
    <2>2. LockHolders'
      BY <1>0, <1>8 DEF SignalLock, Lock, TypeOK, LockHolders
    <2>3. Waiters'
      BY <1>0, <1>8 DEF SignalLock, Lock, TypeOK, LockHolders, Waiters, TurnWithMain, TurnWithChild
    <2>4. TurnWithMain'
      BY <1>0, <1>8 DEF SignalLock, Lock, TypeOK, LockHolders, Waiters, TurnWithMain, TurnWithChild
    <2>5. TurnWithChild'
      BY <1>0, <1>8 DEF SignalLock, Lock, TypeOK, LockHolders, Waiters, TurnWithMain, TurnWithChild
    <2>6. Counts'
      BY <1>0, <1>8 DEF SignalLock, Lock, TypeOK, TurnWithMain, TurnWithChild, Counts
    <2> QED
      BY <2>1, <2>2, <2>3, <2>4, <2>5, <2>6 DEF IInv
  <1>9. CASE SignalLocked(Main)
    <2>1. TypeOK'
      BY <1>0, <1>9 DEF SignalLocked, AfterSignal, TypeOK, Points, Counts
    <2>2. LockHolders'
      BY <1>0, <1>9 DEF SignalLocked, AfterSignal, TypeOK, LockHolders
    <2>3. Waiters'
      BY <1>0, <1>9 DEF SignalLocked, AfterSignal, TypeOK, LockHolders, Waiters, TurnWithMain, TurnWithChild
    <2>4. TurnWithMain'
      BY <1>0, <1>9 DEF SignalLocked, AfterSignal, TypeOK, LockHolders, Waiters, TurnWithMain, TurnWithChild
    <2>5. TurnWithChild'
      BY <1>0, <1>9 DEF SignalLocked, AfterSignal, TypeOK, LockHolders, Waiters, TurnWithMain, TurnWithChild, Counts
    <2>6. Counts'
      BY <1>0, <1>9 DEF SignalLocked, AfterSignal, TypeOK, TurnWithMain, TurnWithChild, Counts
    <2> QED
      BY <2>1, <2>2, <2>3, <2>4, <2>5, <2>6 DEF IInv
  <1>10. CASE SignalLocked(Child)
    <2>1. TypeOK'
      BY <1>0, <1>10 DEF SignalLocked, AfterSignal, TypeOK, Points, Counts, TurnWithMain, TurnWithChild
    <2>2. LockHolders'
      BY <1>0, <1>10 DEF SignalLocked, AfterSignal, TypeOK, LockHolders
    <2>3. Waiters'
      BY <1>0, <1>10 DEF SignalLocked, AfterSignal, TypeOK, LockHolders, Waiters, TurnWithMain, TurnWithChild
    <2>4. TurnWithMain'
      BY <1>0, <1>10 DEF SignalLocked, AfterSignal, TypeOK, LockHolders, Waiters, TurnWithMain, TurnWithChild
    <2>5. TurnWithChild'
      BY <1>0, <1>10 DEF SignalLocked, AfterSignal, TypeOK, LockHolders, Waiters, TurnWithMain, TurnWithChild
    <2>6. Counts'
      BY <1>0, <1>10 DEF SignalLocked, AfterSignal, TypeOK, TurnWithMain, TurnWithChild, Counts
    <2> QED
      BY <2>1, <2>2, <2>3, <2>4, <2>5, <2>6 DEF IInv
  <1>11. CASE Ready(Main)
    <2>1. TypeOK'
      BY <1>0, <1>11 DEF Ready, AfterSignal, TypeOK, Points, Counts
    <2>2. LockHolders'
      BY <1>0, <1>11 DEF Ready, AfterSignal, TypeOK, LockHolders
    <2>3. Waiters'
      BY <1>0, <1>11 DEF Ready, AfterSignal, TypeOK, LockHolders, Waiters, TurnWithMain, TurnWithChild
    <2>4. TurnWithMain'
      BY <1>0, <1>11 DEF Ready, AfterSignal, TypeOK, LockHolders, Waiters, TurnWithMain, TurnWithChild
    <2>5. TurnWithChild'
      BY <1>0, <1>11 DEF Ready, AfterSignal, TypeOK, LockHolders, Waiters, TurnWithMain, TurnWithChild
    <2>6. Counts'
      BY <1>0, <1>11 DEF Ready, AfterSignal, TypeOK, TurnWithMain, TurnWithChild, Counts
    <2> QED
      BY <2>1, <2>2, <2>3, <2>4, <2>5, <2>6 DEF IInv
  <1>12. CASE Ready(Child)
    <2>1. TypeOK'
      BY <1>0, <1>12 DEF Ready, AfterSignal, TypeOK, Points, Counts
    <2>2. LockHolders'
      BY <1>0, <1>12 DEF Ready, AfterSignal, TypeOK, LockHolders
    <2>3. Waiters'
      BY <1>0, <1>12 DEF Ready, AfterSignal, TypeOK, LockHolders, Waiters, TurnWithMain, TurnWithChild
    <2>4. TurnWithMain'
      BY <1>0, <1>12 DEF Ready, AfterSignal, TypeOK, LockHolders, Waiters, TurnWithMain, TurnWithChild
    <2>5. TurnWithChild'
      BY <1>0, <1>12 DEF Ready, AfterSignal, TypeOK, LockHolders, Waiters, TurnWithMain, TurnWithChild
    <2>6. Counts'
      BY <1>0, <1>12 DEF Ready, AfterSignal, TypeOK, TurnWithMain, TurnWithChild, Counts
    <2> QED
      BY <2>1, <2>2, <2>3, <2>4, <2>5, <2>6 DEF IInv
  <1>13. CASE Launch
    <2>1. TypeOK'
      BY <1>0, <1>13 DEF Launch, TypeOK, Points, Counts
    <2>2. LockHolders'
      BY <1>0, <1>13 DEF Launch, TypeOK, LockHolders, TurnWithMain, TurnWithChild
    <2>3. Waiters'
      BY <1>0, <1>13 DEF Launch, TypeOK, Waiters, TurnWithMain, TurnWithChild
    <2>4. TurnWithMain'
      BY <1>0, <1>13 DEF Launch, TypeOK, TurnWithMain, TurnWithChild, Counts
    <2>5. TurnWithChild'
      BY <1>0, <1>13 DEF Launch, TypeOK, TurnWithMain, TurnWithChild, Counts
    <2>6. Counts'
      BY <1>0, <1>13 DEF Launch, TypeOK, TurnWithMain, TurnWithChild, Counts
    <2> QED
      BY <2>1, <2>2, <2>3, <2>4, <2>5, <2>6 DEF IInv
  <1>14. CASE Volleyed
    <2>1. TypeOK'
      BY <1>0, <1>14 DEF Volleyed, TypeOK, Points, Counts
    <2>2. LockHolders'
      BY <1>0, <1>14 DEF Volleyed, TypeOK, LockHolders
    <2>3. Waiters'
      BY <1>0, <1>14 DEF Volleyed, TypeOK, Waiters
    <2>4. TurnWithMain'
      BY <1>0, <1>14 DEF Volleyed, TypeOK, TurnWithMain, TurnWithChild, Counts
    <2>5. TurnWithChild'
      BY <1>0, <1>14 DEF Volleyed, TypeOK, TurnWithMain, TurnWithChild, Counts
    <2>6. Counts'
      BY <1>0, <1>14 DEF Volleyed, TypeOK, TurnWithMain, TurnWithChild, Counts
    <2> QED
      BY <2>1, <2>2, <2>3, <2>4, <2>5, <2>6 DEF IInv
  <1>15. CASE Spin
    <2>1. TypeOK'
      BY <1>0, <1>15 DEF Spin, TypeOK, Points, Counts
    <2>2. LockHolders'
      BY <1>0, <1>15 DEF Spin, TypeOK, LockHolders
    <2>3. Waiters'
      BY <1>0, <1>15 DEF Spin, TypeOK, Waiters
    <2>4. TurnWithMain'
      BY <1>0, <1>15 DEF Spin, TypeOK, TurnWithMain, TurnWithChild, Counts
    <2>5. TurnWithChild'
      BY <1>0, <1>15 DEF Spin, TypeOK, TurnWithMain, TurnWithChild, Counts
    <2>6. Counts'
      BY <1>0, <1>15 DEF Spin, TypeOK, TurnWithMain, TurnWithChild, Counts
    <2> QED
      BY <2>1, <2>2, <2>3, <2>4, <2>5, <2>6 DEF IInv
  <1>16. CASE Woken
    <2>1. TypeOK'
      BY <1>0, <1>16 DEF Woken, TypeOK, Points, Counts
    <2>2. LockHolders'
      BY <1>0, <1>16 DEF Woken, TypeOK, LockHolders
    <2>3. Waiters'
      BY <1>0, <1>16 DEF Woken, TypeOK, Waiters
    <2>4. TurnWithMain'
      BY <1>0, <1>16 DEF Woken, TypeOK, TurnWithMain, TurnWithChild, Counts
    <2>5. TurnWithChild'
      BY <1>0, <1>16 DEF Woken, TypeOK, TurnWithMain, TurnWithChild, Counts
    <2>6. Counts'
      BY <1>0, <1>16 DEF Woken, TypeOK, TurnWithMain, TurnWithChild, Counts
    <2> QED
      BY <2>1, <2>2, <2>3, <2>4, <2>5, <2>6 DEF IInv
  <1>17. CASE Load
    <2>1. TypeOK'
      BY <1>0, <1>17 DEF Load, TypeOK, Points, Counts
    <2>2. LockHolders'
      BY <1>0, <1>17 DEF Load, TypeOK, LockHolders
    <2>3. Waiters'
      BY <1>0, <1>17 DEF Load, TypeOK, Waiters
    <2>4. TurnWithMain'
      BY <1>0, <1>17 DEF Load, TypeOK, TurnWithMain, TurnWithChild, Counts
    <2>5. TurnWithChild'
      BY <1>0, <1>17 DEF Load, TypeOK, TurnWithMain, TurnWithChild, Counts
    <2>6. Counts'
      BY <1>0, <1>17 DEF Load, TypeOK, TurnWithMain, TurnWithChild, Counts
    <2> QED
      BY <2>1, <2>2, <2>3, <2>4, <2>5, <2>6 DEF IInv
  <1>18. CASE Branch
    <2>1. TypeOK'
      BY <1>0, <1>18 DEF Branch, TypeOK, Points, Counts
    <2>2. LockHolders'
      BY <1>0, <1>18 DEF Branch, TypeOK, LockHolders
    <2>3. Waiters'
      BY <1>0, <1>18 DEF Branch, TypeOK, Waiters
    <2>4. TurnWithMain'
      BY <1>0, <1>18 DEF Branch, TypeOK, TurnWithMain, TurnWithChild, Counts
    <2>5. TurnWithChild'
      BY <1>0, <1>18 DEF Branch, TypeOK, TurnWithMain, TurnWithChild, Counts
    <2>6. Counts'
      BY <1>0, <1>18 DEF Branch, TypeOK, TurnWithMain, TurnWithChild, Counts
    <2> QED
      BY <2>1, <2>2, <2>3, <2>4, <2>5, <2>6 DEF IInv
  <1>19. CASE Leave
    <2>1. TypeOK'
      BY <1>0, <1>19 DEF Leave, TypeOK, Points, Counts
    <2>2. LockHolders'
      BY <1>0, <1>19 DEF Leave, TypeOK, LockHolders
    <2>3. Waiters'
      BY <1>0, <1>19 DEF Leave, TypeOK, Waiters
    <2>4. TurnWithMain'
      BY <1>0, <1>19 DEF Leave, TypeOK, TurnWithMain, TurnWithChild, Counts
    <2>5. TurnWithChild'
      BY <1>0, <1>19 DEF Leave, TypeOK, TurnWithMain, TurnWithChild, Counts
    <2>6. Counts'
      BY <1>0, <1>19 DEF Leave, TypeOK, TurnWithMain, TurnWithChild, Counts
    <2> QED
      BY <2>1, <2>2, <2>3, <2>4, <2>5, <2>6 DEF IInv
  <1>20. CASE UNCHANGED vars
    BY <1>0, <1>20 DEF vars, IInv, TypeOK, LockHolders, Waiters, TurnWithMain, TurnWithChild,
                     Counts
  <1> QED
    BY <1>1, <1>2, <1>3, <1>4, <1>5, <1>6, <1>7, <1>8, <1>9, <1>10, <1>11, <1>12, <1>13, <1>14, <1>15, <1>16, <1>17, <1>18, <1>19, <1>20
       DEF Next, MainStep, ChildStep, GateStep, Finished

\* The invariant holds in every reachable state.
LEMMA Invariance == Spec => []IInv
  <1>1. Init => IInv
    BY NAssumption
       DEF Init, IInv, TypeOK, LockHolders, Waiters, TurnWithMain, TurnWithChild, Counts,
           Points, Main, Child, Procs, There, Back, Gates, None, Other, SigGate, WaitGate,
           Total
  <1> QED
    BY <1>1, Inductive, PTL DEF Spec

\* The gates, the flags and the counters keep their types.
THEOREM TypeCorrect == Spec => []TypeOK
  <1>1. IInv => TypeOK
    BY DEF IInv
  <1> QED
    BY <1>1, Invariance, PTL

\* No sched_ready comes before the park it is meant to end.
THEOREM NoEarlyReady == Spec => []ReadyFindsParked
  <1>1. IInv => ReadyFindsParked
    BY DEF IInv, ReadyFindsParked, TypeOK, TurnWithMain, TurnWithChild, Procs, Main, Child, Other
  <1> QED
    BY <1>1, Invariance, PTL

\* No gate_signal overwrites a signal that was not taken.
THEOREM SignalsKept == Spec => []NoSignalLost
  <1>1. IInv => NoSignalLost
    BY DEF IInv, NoSignalLost, TypeOK, TurnWithMain, TurnWithChild, Procs, Main, Child,
           SigGate, Gates, There, Back
  <1> QED
    BY <1>1, Invariance, PTL

\* No step starts the clock outside the timed volleys or leaves them while it
\* runs.
LEMMA TimedStep == IInv /\ TimedInside /\ [Next]_vars => TimedInside'
  <1> SUFFICES ASSUME IInv, TimedInside, [Next]_vars PROVE TimedInside'
    OBVIOUS
  <1> USE NAssumption DEF Main, Child, Procs, Total, Goto, turn
  <1>0. TypeOK /\ TurnWithMain /\ TurnWithChild /\ Counts
    BY DEF IInv
  <1>1. CASE Volleyed
    <2>1. volleys \in Nat /\ stop \in {0, 1} /\ pc[Child] # "none"
      BY <1>0, <1>1 DEF Volleyed, TypeOK, TurnWithMain, TurnWithChild
    <2> QED
      BY <1>0, <1>1, <2>1 DEF Volleyed, TypeOK, TimedInside, Counts
  <1>2. CASE Launch
    BY <1>0, <1>2 DEF Launch, TypeOK, TimedInside
  <1>3. ASSUME NEW p \in Procs,
               WaitLock(p) \/ WaitLocked(p) \/ gate_unlock(p) \/ SignalLock(p)
                 \/ SignalLocked(p) \/ Ready(p)
        PROVE  TimedInside'
    <2>1. UNCHANGED turn /\ (pc'[Child] = "none" => pc[Child] = "none")
      BY <1>0, <1>3
         DEF WaitLock, WaitLocked, gate_unlock, SignalLock, SignalLocked, Ready, Lock,
             AfterSignal, Other, TypeOK
    <2> QED
      BY <2>1 DEF TimedInside
  <1>4. CASE Spin \/ Woken \/ Load \/ Branch \/ Leave
    BY <1>0, <1>4 DEF Spin, Woken, Load, Branch, Leave, TypeOK, TimedInside
  <1>5. CASE UNCHANGED vars
    BY <1>5 DEF vars, TimedInside
  <1> QED
    BY <1>1, <1>2, <1>3, <1>4, <1>5 DEF Next, MainStep, ChildStep, GateStep, Finished

\* The clock covers the N volleys of the loop, never the launch of the child nor
\* the volley that sends it away, for every N.
THEOREM ClockInside == Spec => []TimedInside
  <1>1. Init => TimedInside
    BY DEF Init, TimedInside
  <1> QED
    BY <1>1, TimedStep, Invariance, PTL DEF Spec

\* A step of the two goroutines is a serve, an answer, the leaving of the child
\* or none of the three.
LEMMA StepRefines == IInv /\ [Next]_vars => [TheVolley!Next]_(TheVolley!volley)
  <1> SUFFICES ASSUME IInv, [Next]_vars PROVE [TheVolley!Next]_(TheVolley!volley)
    OBVIOUS
  <1> USE NAssumption DEF TheVolley!volley, TheVolley!Next, Main, Child, Total
  <1>0. /\ served \in Nat /\ answered \in Nat /\ gone \in {0, 1}
        /\ TurnWithMain /\ TurnWithChild /\ Counts
    BY DEF IInv, TypeOK
  <1>1. CASE SignalLocked(Main)
    <2>1. served = answered /\ served < Total
      BY <1>0, <1>1 DEF SignalLocked, TurnWithChild, Counts
    <2>2. served' = served + 1 /\ answered' = answered /\ gone' = gone
      BY <1>1 DEF SignalLocked
    <2> QED
      BY <2>1, <2>2 DEF TheVolley!Serve
  <1>2. CASE SignalLocked(Child)
    <2>1. answered < served
      BY <1>0, <1>2 DEF SignalLocked, TurnWithMain, TurnWithChild
    <2>2. served' = served /\ answered' = answered + 1 /\ gone' = gone
      BY <1>2 DEF SignalLocked
    <2> QED
      BY <2>1, <2>2 DEF TheVolley!Answer
  <1>3. CASE Leave
    <2>1. answered = Total
      BY <1>0, <1>3 DEF Leave, Counts
    <2>2. served' = served /\ answered' = answered /\ gone' = 1
      BY <1>3 DEF Leave
    <2> QED
      BY <2>1, <2>2 DEF TheVolley!Leave
  <1>4. ASSUME NEW p \in Procs,
               WaitLock(p) \/ WaitLocked(p) \/ gate_unlock(p) \/ SignalLock(p) \/ Ready(p)
        PROVE  UNCHANGED TheVolley!volley
    BY <1>4 DEF WaitLock, WaitLocked, gate_unlock, SignalLock, Ready, Lock, count
  <1>5. CASE Launch \/ Volleyed \/ Spin \/ Woken \/ Load \/ Branch \/ Finished
    BY <1>5 DEF Launch, Volleyed, Spin, Woken, Load, Branch, Finished, vars, count
  <1>6. CASE UNCHANGED vars
    BY <1>6 DEF vars, count
  <1> QED
    BY <1>1, <1>2, <1>3, <1>4, <1>5, <1>6
       DEF Next, MainStep, ChildStep, GateStep, Procs

\* The two gates implement the volley: no serve is lost, answered twice or
\* overtaken, for every number of iterations.
THEOREM ImplementsVolley == Spec => VolleyInTurn
  <1>1. Init => TheVolley!Init
    BY DEF Init, TheVolley!Init
  <1> QED
    BY <1>1, StepRefines, Invariance, PTL DEF Spec, VolleyInTurn, TheVolley!Spec
=============================================================================
