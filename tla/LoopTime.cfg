SPECIFICATION LTSpec
CONSTANTS
  MaxClock = 4
  N = 1
INVARIANTS
  OnlyLoopCounted
