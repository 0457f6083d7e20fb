CONSTANTS
  Item <- MCItem
  Base = "device"
  Parent <- MCParent
  Above <- MCAbove
  Level <- MCLevel
  MaxId = 1
SPECIFICATION Spec
INVARIANTS TypeOK NeverGivenTwice KeepsId
