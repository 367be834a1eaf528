CONSTANTS
  Pages = 4
  Step = 2
  PoolPages = 3
  EngineAlign = 2
  StackPages = 1
  StackLimit = 1
  r1 = r1
  r2 = r2
  main = main
  unity = unity
  il2cpp = il2cpp
  malloc = malloc
  start = start
  absent = absent
  None = None
  Modules <- MCModules
  Shims = {malloc}
  Stubs = {}
  Defines <- MCDefines
  Imports <- MCImports
  ModuleSizes = {1, 2}
  Zone = 5
  Bits = 2
  Tables <- MCTables
  Addrs = {2, 6}
  HeapSizes <- MCHeapSizes
  SmallPage = 2
  Align = 4
  SoRegion = 28
  Floor = 48
  Extra = 32
  MapReserve = 112
  Want = 8
  Pool = 48
  Top = 12
  StackFirst = 2
  StackEnd = 12
  Mappings <- MCMappings
  Cap = 3
  Period = 1
  Stall = 1
  Users = {t1, t2, t3}
  MaxSlots = 2
  Ring = 2
  Retry = 2
  MaxFrames = 3
  MaxWipes = 1
  Regions <- MCRegions
  Entries = {"get_Instance", "buyMystery"}
  Hooks <- MCHooks
  Games <- MCGames
  MaxFails = 1
  Configured <- MCConfigured
  AutoSize <- MCAutoSize
  Asked <- MCAsked
  Reasserts = 2
  Settles = 1
  ShownFrames = 3
  MaxSurfaces = 2
  Ids = {r1, r2}
  Blocks = {2, 4}
SPECIFICATION MCSpec
INVARIANTS
  TypeOK
  ReservationsDisjoint
  BackingExact
  KeptBlockInside
  BootSound
  LoopSound
PROPERTIES
  ImplementsAllocator
  ScanEnds
  LoopProceeds
CHECK_DEADLOCK FALSE
