SPECIFICATION Spec
CONSTANTS
  DcData <- MCDcData
  AcData <- MCAcData
  NumBlocks = 2
  Pow2 <- MCPow2
INVARIANTS DecoderFollows CoefficientsNear
