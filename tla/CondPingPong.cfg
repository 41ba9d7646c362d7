SPECIFICATION Spec
CONSTANTS
  N = 4
INVARIANTS
  TypeOK
  OneSleeper
  NoMissedSignal
PROPERTIES
  VolleyInTurn
  PingPongEnds
