------------------------------ MODULE MCPickN ------------------------------
(***************************************************************************)
(* Small benchmarks for PickN.  A steady one is a record: every per        *)
(* iterations cost timed units of time under the timer and untimed ones    *)
(* outside it, read from a clock that rounds down.  "noisy" stands for a   *)
(* machine on which a run may take anything.                               *)
(***************************************************************************)
EXTENDS PickN

SteadyEntries ==
  [timed : {0, 1, 7, 90}, untimed : {0, 1, 40}, per : {1, 50, 3000}]

Noisy == [timed |-> -1, untimed |-> -1, per |-> 1]

MCEntries == SteadyEntries \cup {Noisy}

NoisyTimes == {0, 1, 30, 99, 1500}

MCMeasures(e, k) ==
  IF e = Noisy
  THEN {m \in NoisyTimes \X NoisyTimes : m[1] <= m[2]}
  ELSE {<<(k * e.timed) \div e.per, (k * (e.timed + e.untimed)) \div e.per>>}

MCCost(e) == <<e.timed + e.untimed, e.per>>

MCLadder == <<1, 100, 10000, 1000000>>
=============================================================================
