SPECIFICATION Spec
CONSTANTS
  Trees = {"main", "mine", "gone"}
  Default = "main"
  Absent = {"gone"}
  Sans = {"none", "address"}
  Plain = "none"
  MaxVersion = 1
INVARIANTS
  HeaderNamesLibrary
