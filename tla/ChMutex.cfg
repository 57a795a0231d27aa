SPECIFICATION Spec
CONSTANTS
  idle = idle
  uart = uart
  main = main
  timer = timer
  camera = camera
  NoThread = NoThread
  Threads <- MCThreads
  Idle = idle
  Mutexes = {m1, m2, m3}
  RealPrio <- MCRealPrio
  MaxOwned = 2
INVARIANTS TypeOK InheritanceExact NoInversion
PROPERTIES HighestWaiterNext ImplementsLock
CHECK_DEADLOCK FALSE
