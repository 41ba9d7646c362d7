---------------------------- MODULE FanOutProofs ----------------------------
(***************************************************************************)
(* Proofs about FanOut for every crowd, every number of iterations and     *)
(* every pattern of failing go() calls: the counter of a round is exact,   *)
(* and no goroutine is left over when a round ends or the clock stops.     *)
(***************************************************************************)
EXTENDS FanOut, TLAPS, FiniteSetTheorems

\* MUTEX_WORKERS and its kin are positive.
LEMMA CrowdPositive == Crowd \in Nat \ {0}
  BY FanOutAssumption, FS_EmptySet, FS_CardinalityType DEF Crowd

\* No worker of a contended row has more than b->n locks to take: each is a
\* quotient of it, or one.
LEMMA OperationsBounded == ASSUME NEW r PROVE Operations(r) \in 0..N
  <1>1. N \div Crowd \in 0..N
    <2>1. /\ N \in Nat /\ Crowd \in Nat /\ Crowd > 0
      BY CrowdPositive, FanOutAssumption
    <2>2. \A q \in Int : q > N => Crowd * q > N
      BY <2>1
    <2>3. \A q \in Int : q < 0 => Crowd * (q + 1) <= 0
      BY <2>1
    <2> QED
      BY <2>1, <2>2, <2>3
  <1> QED
    BY <1>1, FanOutAssumption DEF Operations, Each

\* The goroutines to be launched and the ones on their way are two separate
\* parts of the crowd, both finite.
LEMMA Sizes ==
  ASSUME TypeOK
  PROVE  /\ IsFiniteSet(todo) /\ Cardinality(todo) \in 0..Crowd
         /\ IsFiniteSet(Alive) /\ Cardinality(Alive) \in 0..Crowd
         /\ Cardinality(todo) + Cardinality(Alive) <= Crowd
  <1>1. todo \subseteq Workers /\ Alive \subseteq Workers /\ todo \cap Alive = {}
    BY DEF TypeOK
  <1>2. IsFiniteSet(todo) /\ IsFiniteSet(Alive)
    BY <1>1, FanOutAssumption, FS_Subset
  <1>3. Cardinality(todo) \in Nat /\ Cardinality(Alive) \in Nat
    BY <1>2, FS_CardinalityType
  <1>4. Cardinality(todo \cup Alive) = Cardinality(todo) + Cardinality(Alive)
    <2>1. Cardinality(todo \cup Alive)
            = Cardinality(todo) + Cardinality(Alive) - Cardinality(todo \cap Alive)
      BY <1>2, FS_Union
    <2>2. Cardinality(todo \cap Alive) = 0
      BY <1>1, FS_EmptySet
    <2> QED
      BY <1>3, <2>1, <2>2
  <1>5. Cardinality(todo \cup Alive) <= Crowd
    BY <1>1, FanOutAssumption, FS_Subset DEF Crowd
  <1> QED
    BY <1>2, <1>3, <1>4, <1>5, CrowdPositive

\* A part of the crowd of size 0 is empty, and one that is not has a size.
LEMMA EmptyBySize ==
  ASSUME NEW S, IsFiniteSet(S)
  PROVE  /\ Cardinality(S) = 0 <=> S = {}
         /\ Cardinality(S) \in Nat
  BY FS_EmptySet, FS_CardinalityType

\* Every step of the body and of the crowd preserves the invariant.
LEMMA Inductive == IInv /\ [Next]_vars => IInv'
  <1> SUFFICES ASSUME IInv, [Next]_vars PROVE IInv'
    OBVIOUS
  <1>0. TypeOK /\ Phases /\ CounterExact /\ ShortBatch
    BY DEF IInv
  <1>crowd. Crowd \in Nat \ {0}
    BY CrowdPositive
  <1>size. /\ Cardinality(todo) \in 0..Crowd /\ Cardinality(Alive) \in 0..Crowd
           /\ Cardinality(todo) + Cardinality(Alive) <= Crowd
           /\ IsFiniteSet(todo) /\ IsFiniteSet(Alive)
    BY <1>0, Sizes
  <1>rows. row \in {"batch", "contended", "group"}
    BY <1>0, FanOutAssumption DEF TypeOK
  <1> USE <1>0, <1>crowd
  <1>1. CASE NextRound
    <2>1. Alive = {} /\ Alive' = {} /\ todo' = Workers /\ count' = 0
      BY <1>1 DEF NextRound, Phases, Alive
    <2>2. TypeOK'
      BY <1>1, <2>1, FanOutAssumption DEF NextRound, TypeOK, Iterations
    <2>3. Phases'
      BY <1>1, <2>1 DEF NextRound, Phases
    <2>4. CounterExact'
      <3>1. Cardinality(Alive') = 0 /\ Cardinality(todo') = Crowd
        BY <2>1, FS_EmptySet DEF Crowd
      <3> QED
        BY <1>1, <1>rows, <2>1, <3>1 DEF NextRound, CounterExact
    <2>5. ShortBatch'
      BY <1>1 DEF NextRound, ShortBatch
    <2> QED
      BY <2>2, <2>3, <2>4, <2>5 DEF IInv
  <1>2. ASSUME NEW w \in Workers, Launch(w) PROVE IInv'
    <2>1. w \notin Alive /\ Alive' = Alive \cup {w} /\ w \in todo /\ todo' = todo \ {w}
      BY <1>2 DEF Launch, Alive, TypeOK
    <2>2. /\ Cardinality(Alive') = Cardinality(Alive) + 1
          /\ Cardinality(todo') = Cardinality(todo) - 1
      BY <1>size, <2>1, FS_AddElement, FS_RemoveElement
    <2>3. Cardinality(todo) > 0
      BY <1>size, <2>1, EmptyBySize
    <2>4. count' \in 0..Crowd
      BY <1>2, <1>size, <2>3 DEF Launch, TypeOK, CounterExact
    <2>5. TypeOK'
      <3>1. \A x \in Alive' : live'[x] \in 0..N
        BY <1>2, <2>1, OperationsBounded DEF Launch, TypeOK
      <3> QED
        BY <1>2, <2>1, <2>4, <3>1 DEF Launch, TypeOK
    <2>6. Phases'
      BY <1>2 DEF Launch, Phases
    <2>7. CounterExact'
      BY <1>2, <1>size, <1>rows, <2>2 DEF Launch, TypeOK, CounterExact
    <2>8. ShortBatch'
      BY <1>2 DEF Launch, ShortBatch
    <2> QED
      BY <2>5, <2>6, <2>7, <2>8 DEF IInv
  <1>3. ASSUME NEW w \in Workers, LaunchFails(w) PROVE IInv'
    <2>1. w \in todo /\ Alive' = Alive /\ (todo' = todo \ {w} \/ todo' = {})
      BY <1>3 DEF LaunchFails, Alive
    <2>2. Cardinality(todo) > 0
      BY <1>size, <2>1, EmptyBySize
    <2>3. Cardinality(todo \ {w}) = Cardinality(todo) - 1 /\ Cardinality({}) = 0
      BY <1>size, <2>1, FS_RemoveElement, FS_EmptySet
    <2>4. TypeOK'
      <3>1. count' \in 0..Crowd
        BY <1>3, <1>size, <2>2 DEF LaunchFails, TypeOK, CounterExact
      <3> QED
        BY <1>3, <2>1, <3>1 DEF LaunchFails, TypeOK
    <2>5. Phases'
      BY <1>3, <2>1 DEF LaunchFails, Phases, TypeOK
    <2>6. CounterExact'
      <3>1. CASE row = "contended"
        <4>1. Cardinality(todo') = Cardinality(todo) - 1 /\ count' = count + 1
          BY <1>3, <2>3, <3>1 DEF LaunchFails
        <4> QED
          BY <1>3, <1>size, <2>1, <3>1, <4>1 DEF LaunchFails, TypeOK, CounterExact
      <3>2. CASE row \in {"batch", "group"}
        BY <1>3, <2>1, <3>2 DEF LaunchFails, CounterExact
      <3> QED
        BY <1>rows, <3>1, <3>2
    <2>7. ShortBatch'
      BY <1>3, <1>size, <2>1, <2>2 DEF LaunchFails, TypeOK, CounterExact, ShortBatch
    <2> QED
      BY <2>4, <2>5, <2>6, <2>7 DEF IInv
  <1>4. ASSUME NEW w \in Workers, Work(w) PROVE IInv'
    <2>1. Alive' = Alive
      BY <1>4 DEF Work, Alive
    <2>2. \A x \in Alive : live'[x] \in 0..N
      BY <1>4, FanOutAssumption DEF Work, TypeOK, Alive
    <2> QED
      BY <1>4, <2>1, <2>2 DEF Work, IInv, TypeOK, Phases, CounterExact, ShortBatch
  <1>5. ASSUME NEW w \in Workers, WorkerDone(w) PROVE IInv'
    <2>1. w \in Alive /\ Alive' = Alive \ {w} /\ todo' = todo
      BY <1>5 DEF WorkerDone, Alive
    <2>2. Cardinality(Alive') = Cardinality(Alive) - 1 /\ Cardinality(Alive) > 0
      BY <1>size, <2>1, FS_RemoveElement, EmptyBySize
    <2>3. pc \in {"launch", "wait"}
      BY <2>1 DEF Phases, TypeOK
    <2>4. count' \in 0..Crowd
      BY <1>5, <1>size, <1>rows, <2>2, <2>3 DEF WorkerDone, TypeOK, CounterExact, ShortBatch
    <2>5. TypeOK'
      BY <1>5, <2>1, <2>4 DEF WorkerDone, TypeOK
    <2>6. Phases'
      BY <1>5, <2>1 DEF WorkerDone, Phases
    <2>7. CounterExact'
      BY <1>5, <1>size, <1>rows, <2>1, <2>2, <2>3 DEF WorkerDone, TypeOK, CounterExact
    <2>8. ShortBatch'
      BY <1>5, <1>size, <2>2 DEF WorkerDone, TypeOK, ShortBatch
    <2> QED
      BY <2>5, <2>6, <2>7, <2>8 DEF IInv
  <1>6. CASE Launched
    BY <1>6 DEF Launched, IInv, TypeOK, Phases, CounterExact, ShortBatch, Alive
  <1>7. CASE Waited
    <2>1. Cardinality(todo) = 0
      BY <1>7, FS_EmptySet DEF Waited, Phases
    <2>2. ~(row = "batch" /\ failed)
      BY <1>7, <1>size DEF Waited, CrowdBack, ShortBatch, TypeOK
    <2>3. Cardinality(Alive) = 0
      BY <1>7, <1>size, <1>rows, <2>1, <2>2 DEF Waited, CrowdBack, CounterExact, TypeOK
    <2>4. Alive = {}
      BY <1>size, <2>3, EmptyBySize
    <2> QED
      BY <1>7, <2>2, <2>4 DEF Waited, IInv, TypeOK, Phases, CounterExact, ShortBatch, Alive
  <1>8. CASE Return
    BY <1>8 DEF Return, IInv, TypeOK, Phases, CounterExact, ShortBatch, Alive
  <1>9. CASE UNCHANGED vars
    BY <1>9 DEF vars, IInv, TypeOK, Phases, CounterExact, ShortBatch, Alive
  <1> QED
    BY <1>1, <1>2, <1>3, <1>4, <1>5, <1>6, <1>7, <1>8, <1>9 DEF Next, Finished, SpinForever

\* The invariant holds in every reachable state.
LEMMA Invariance == Spec => []IInv
  <1>1. Init => IInv
    <2> SUFFICES ASSUME Init PROVE IInv
      OBVIOUS
    <2>1. Alive = {}
      BY DEF Init, Alive, NoWorker
    <2>2. TypeOK
      <3>1. iter \in 0..N /\ count \in 0..Crowd
        BY FanOutAssumption, CrowdPositive DEF Init
      <3>2. Alive \subseteq Workers \ todo /\ \A w \in Alive : live[w] \in 0..N
        BY <2>1
      <3> QED
        BY <3>1, <3>2 DEF Init, TypeOK
    <2>3. Phases /\ CounterExact /\ ShortBatch
      BY <2>1 DEF Init, Phases, CounterExact, ShortBatch
    <2> QED
      BY <2>2, <2>3 DEF IInv
  <1> QED
    BY <1>1, Inductive, PTL DEF Spec

\* The body, the crowd and the counter keep their types: the counter never
\* passes the size of the crowd and never falls below zero.
THEOREM TypeCorrect == Spec => []TypeOK
  <1>1. IInv => TypeOK
    BY DEF IInv
  <1> QED
    BY <1>1, Invariance, PTL

\* The counter of a round is exact, for every crowd and whichever go() fails.
THEOREM CountsEveryWorker == Spec => []CounterExact
  <1>1. IInv => CounterExact
    BY DEF IInv
  <1> QED
    BY <1>1, Invariance, PTL

\* A batch whose go() failed once waits for a goroutine that does not exist, and
\* goes on waiting: goroutine_start_batch does not return.
THEOREM BatchStaysShort == Spec => []ShortBatch
  <1>1. IInv => ShortBatch
    BY DEF IInv
  <1> QED
    BY <1>1, Invariance, PTL

\* When a round ends and when the clock stops, nobody of the crowd is still on
\* its way.
THEOREM RoundsDoNotOverlap == Spec => []NoStraggler
  <1>1. IInv => NoStraggler
    BY DEF IInv, TypeOK, Phases, NoStraggler
  <1> QED
    BY <1>1, Invariance, PTL
=============================================================================
