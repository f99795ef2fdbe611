SPECIFICATION Spec
CONSTANTS
  PageTotal = 14
  PageCount = 11
  MaxFreeRuns = 3
  L2Entries = 2
  TableCapacity = 7
  Modules <- MCModules
  CodeBase = 0
  Heap <- MCHeap
  Stack <- MCStack
  TlsIo <- FragTlsIo
  GuardPages = 1
  MainStackSize = 1
  Granule = 1
  MaxLoans = 0
  BlocksPerPage = 1
  MaxTlsPages = 3
  PageArgs <- MCPageArgs
  TrackedFrames = {}
INVARIANTS
  ShrinkPushesOneRun
