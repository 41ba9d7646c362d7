SPECIFICATION Spec
CONSTANTS
  Trees = {"main", "mine", "gone"}
  Default = "main"
  Absent = {"gone"}
  Sans = {"none", "address", "memory"}
  Plain = "none"
  MaxVersion = 1
INVARIANTS
  TypeOK
  OneDefinition
  SanitisedTogether
  HeaderRightForOneTree
