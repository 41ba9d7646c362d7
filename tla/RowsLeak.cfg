SPECIFICATION Spec
CONSTANTS
  Table <- AllRows
  Calls = 2
  Counts = {1, 3}
INVARIANT
  NothingLeaked
