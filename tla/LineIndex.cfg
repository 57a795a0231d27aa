SPECIFICATION IndexFairSpec
CONSTANTS
  Images <- MCImages
  NumLines = 5
  RstCount = 4
  Start = 10
  Slots = 6
  OldEntry <- MCOldEntry
INVARIANTS IndexTypeOK IndexRight OnlyWholeLines
PROPERTY ScanEnds
CHECK_DEADLOCK FALSE
