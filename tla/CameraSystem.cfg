SPECIFICATION SystemSpec
CONSTANTS
  NUM_READS = 3
  PromptWEN = TRUE
  W = 2
  AddrW <- MCAddrW
  AddrR <- MCAddrR
  NoCall = NoCall
  Calls <- MCCalls
  Reset <- MCReset
INVARIANTS TypeOK ImageLinesRight DoneMeansImage BusTypeOK BusFree
PROPERTIES ImplementsFlags Terminates ImplementsRegisters
