SPECIFICATION Spec
CONSTANTS
  MaxClock = 6
  N = 2
INVARIANTS
  TypeOK
  Counted
  NsWithinWall

  
