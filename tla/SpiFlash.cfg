SPECIFICATION FairSpec
CONSTANTS
  Threads = {camera, uart}
  NoThread = NoThread
  MemSize = 3
  HighAddr = 24
  Byte = {0, 1, 2}
  Requests <- MCRequests
INVARIANTS TypeOK QuietWhenFree
PROPERTIES ImplementsMemory EveryCallReturns
