SPECIFICATION Spec
CONSTANTS
  Workers = {w1, w2, w3}
  Rows = {"batch", "contended", "group"}
  N = 6
INVARIANTS
  TypeOK
  NoStraggler
  CounterExact
PROPERTIES
  CrowdEnds
