SPECIFICATION Spec
CONSTANTS
  L1Entries = 3
  L2Entries = 2
  TableCapacity = 1
  RamPages = 2
  GuestRamBase = 5
  MaxBorrows = 2
  PageBytes = 3
  PermArgs <- BorrowPermArgs
INVARIANTS
  BorrowsStayValid
  WalksAgreeWithMap
CHECK_DEADLOCK FALSE
