SPECIFICATION Spec
CONSTANTS
  Entries <- MCEntries
  Measures <- MCMeasures
  Steady <- SteadyEntries
  Cost <- MCCost
  Ladder <- MCLadder
  Asked = {0, 2000}
  MinTarget = 100
  NMax = 100000
  Jump = 100
  Rounds = 6
  IntMax = 67108863
INVARIANTS
  TypeOK
  SteadySettles
PROPERTIES
  BoundedGrowth
  NoOvershoot
CHECK_DEADLOCK FALSE
