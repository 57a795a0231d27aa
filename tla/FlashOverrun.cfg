SPECIFICATION Spec
CONSTANTS
  Threads = {camera, uart}
  NoThread = NoThread
  MemSize = 3
  HighAddr = 24
  Byte = {0, 1, 2}
  Requests <- MCRequests
PROPERTY OverrunRefused
