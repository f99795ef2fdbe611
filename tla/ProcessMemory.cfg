SPECIFICATION Spec
VIEW MCView
CONSTANTS
  PageTotal = 13
  PageCount = 9
  MaxFreeRuns = 3
  L2Entries = 2
  TableCapacity = 6
  Modules <- MCModules
  CodeBase = 0
  Heap <- MCHeap
  Stack <- MCStack
  TlsIo <- MCTlsIo
  GuardPages = 1
  MainStackSize = 1
  Granule = 1
  MaxLoans = 2
  BlocksPerPage = 2
  MaxTlsPages = 2
  PageArgs <- MCPageArgs
  TrackedFrames = {}
INVARIANTS
  OneAccessibleView
  FramesAccounted
  LoanTableExact
  UnloadedIsClean
  QueryTypeMatchesMap
PROPERTIES
  ImplementsGuestMemory
