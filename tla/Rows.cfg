SPECIFICATION Spec
CONSTANTS
  Table <- AllRows
  Calls = 2
  Counts = {1, 3}
INVARIANTS
  TypeOK
  NoStaleUse
  NothingLost
  CleanReturn
  TimedExactly
  MeasuresWhatItSays
PROPERTY
  RowEnds
