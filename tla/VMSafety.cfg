CONSTANTS
  Programs <- Family
  Modules <- Generated
SPECIFICATION FairSpec
INVARIANTS
  PrintsMeaning
  OperandsKept
PROPERTIES
  ReturnsValue
  RunEnds
CHECK_DEADLOCK FALSE
