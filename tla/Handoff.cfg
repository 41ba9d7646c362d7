SPECIFICATION Spec
CONSTANTS
  N = 5
INVARIANTS
  TypeOK
  ReadyFindsParked
  NoSignalLost
  TimedInside
PROPERTIES
  VolleyInTurn
  HandoffEnds
