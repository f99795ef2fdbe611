SPECIFICATION NativeSpec
CONSTANTS
  native = native
  second = second
  global = global
  Emulators <- Two
  Global = global
  Values <- TwoWords
  MaxReserved = 8
INVARIANTS
  WalksItsOwnTables
