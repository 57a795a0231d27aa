SPECIFICATION Spec
CONSTANTS
  W = 2
  Pow2 <- MCPow2
  Words <- MCWords
  BUFFSIZE = 4
  Rst <- MCRst
  Eoi = 2
  RstCount = 2
  Start = 3
  DevSize = 30
  HighAddr = 200
  Old = 99
  MaxWords = 3
  MaxLines = 2
INVARIANTS TypeOK FlashHoldsStream Unambiguous LineIndependent EndMarkerWritten BitsRecovered
CHECK_DEADLOCK FALSE
