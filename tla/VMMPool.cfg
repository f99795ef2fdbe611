SPECIFICATION Spec
CONSTANTS
  L1Entries = 3
  L2Entries = 2
  TableCapacity = 2
  RamPages = 2
  GuestRamBase = 5
  MaxBorrows = 0
  PageBytes = 1
  PermArgs <- PoolPermArgs
INVARIANTS
  PoolSound
PROPERTIES
  ImplementsPageMap
CHECK_DEADLOCK FALSE
