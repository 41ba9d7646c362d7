SPECIFICATION Spec
CONSTANTS
  Workers = {w1, w2}
  Rows = {"batch"}
  N = 2
PROPERTIES
  BatchEnds
