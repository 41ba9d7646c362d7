SPECIFICATION Spec
CONSTANTS
  NameLists <- MCNameLists
  BenchMax = 4
  CountMax = 3
  Argvs <- MCArgvs
  Picks = {1, 3}
  Times = {0, 2, 5}
  Allocs = {0, 4}
  Endings <- MCEndings
INVARIANTS
  TypeOK
  RowsAreTheMatches
  ExactFilterIsExact
  RepetitionsComparable
  MedianSplitsRuns
  StatusTellsTable
