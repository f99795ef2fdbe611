SPECIFICATION ProgramSpec
SYMMETRY MCSymmetry
CONSTANTS
  native = native
  global = global
  t1 = t1
  t2 = t2
  t3 = t3
  f1 = f1
  f2 = f2
  f3 = f3
  Emulators <- MCEmulators
  Global = global
  Values <- MCValues
  MaxReserved = 4
  Slots <- MCSlots
  Frames <- MCFrames
  BlocksPerPage = 2
  MaxPages = 2
  RegionPages = 3
INVARIANTS
  NothingLeftBehind
  WalksItsOwnTables
  EachThreadItsOwnBlock
PROPERTIES
  FreshProgramStartsClean
  FreshBlockIsZero
