SPECIFICATION Spec
VIEW MCView
CONSTANTS
  PageTotal = 13
  PageCount = 9
  MaxFreeRuns = 1
  L2Entries = 2
  TableCapacity = 6
  Modules <- MCModules
  CodeBase = 0
  Heap <- MCHeap
  Stack <- MCStack
  TlsIo <- MCTlsIo
  GuardPages = 1
  MainStackSize = 1
  Granule = 1
  MaxLoans = 1
  BlocksPerPage = 1
  MaxTlsPages = 2
  PageArgs <- MCPageArgs
  TrackedFrames = {5, 6}
INVARIANTS
  AssertsOnlyOnFullFreelist
PROPERTIES
  FreshHeapIsZero
CHECK_DEADLOCK FALSE
