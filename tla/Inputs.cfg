SPECIFICATION InputsSpec
CONSTANTS
  Word = 32
  Page = 2
  SpaceStart = 4
  SpaceEnd = 30
  AliasSize = 4
  HeapSize = 2
  StackSize = 2
  TlsIoSize = 4
  Granule = 4
  Types <- SpaceTypes
  Bits39 = "39 bits"
  Packages <- MCPackages
  Limit = 256
  SizeLimit = 128
  NcaHeader = 4
  Unit = 4
  MaxLayers = 5
  MaxLevels = 6
  ProbeBytes = 5
  ExefsHeader = 5
  ExefsEntry = 2
  EntryBytes = 4
  EntryAlign = 4
  MaxFiles = 3
  MaxStrings = 30
  MaxNpdm = 8
  NsoHeader = 6
  NsoPage = 8
  MaxSegment = 160
  Lz4Max = 63
  MaxName = 3
  ArenaBytes = 48
  ModuleNames <- MCModuleNames
  DescriptorFiles <- MCDescriptorFiles
  MaxCapabilities = 256
  Dirs <- MCDirs
  Files <- MCFiles
  Paths <- MCPaths
  Damage <- MCDamage
  Hash <- MCHash
  Buckets = 2
  MaxNameBytes = 768
  MaxTableBytes = 200
  Tables <- MCTables
  Commands = {0, 1, 2, 5}
  PayloadWords = {0, 52, 54}
  Headers <- MCHeaders
  HandleCounts = {0, 1}
INVARIANTS
  ReadsStayInEveryWindow
  PayloadsInsideSections
  ImagesHoldTheirSegments
  ScratchInsideArena
  GrantsAreTheDeclared
  BlobsInsideFile
  HandedOutInside
  LookupAgreesWithTree
  DataInsideBuffer
  ClientGetsItsAnswer
  RegionsTileTheSpace
  ContainmentExact
PROPERTIES
  LookupEnds
CHECK_DEADLOCK FALSE
