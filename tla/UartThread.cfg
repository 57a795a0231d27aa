SPECIFICATION FairSpec
CONSTANTS
  InCap = 8
  OutCap = 12
  Byte <- MCByte
  Cmds = {"R", "T"}
  LineLens = {0, 3, 8}
  LenField = 8
  PayloadMax = 12
  MaxCmds = 2
  MaxErrors = 1
  IhuEarly = TRUE
INVARIANTS TypeOK WakeupKept FramingKept RepliesWhole
PROPERTIES StatusMonotone EveryCommandAnswered
CHECK_DEADLOCK FALSE
