SPECIFICATION FairSpec
CONSTANTS
  Base = 8
  Letters <- MCLetters
  Lines = 4
  Lengths = {0, 1, 2, 3, 5, 9}
  Filler = 3
  MaxLines = 5
  MaxFaults = 1
INVARIANTS OutputIsLines LineNumberRight WaitsForReply
PROPERTIES EveryLineArrives
CHECK_DEADLOCK FALSE
