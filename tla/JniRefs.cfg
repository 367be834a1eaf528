CONSTANTS
  t1 = t1
  t2 = t2
  o1 = o1
  o2 = o2
  o3 = o3
  o4 = o4
  a1 = a1
  a2 = a2
  Users = {t1, t2}
  Names <- MCNames
  Cut <- MCCut
  Limit <- MCLimit
  Sizes <- MCSizes
  Handles = {h1, h2, h3}
  Fds = {3, 4}
  Chunks = {0, 1, 2}
  Skips <- MCSkips
  Attempts = 2
  FakeKeys = 2
  Passes = 4
  Iterations = 4
  MaxGen = 2
  Rearms = 1
  PrefKeys = {"", "a", "b"}
  Widths = {0, 1440}
  Heights = {0}
  UnitBytes <- MCUnitBytes
  MaxUnits = 2
  MaxArray = 2
  Starts <- MCStarts
  Lens <- MCLens
  Elements = {"set"}
  None = None
  Threads = {t1}
  Objects = {o1, o2, o3, o4}
  NoObject = NoObject
  MaxLocals = 3
  MaxFrames = 3
  MaxDepth = 3
  AnyUse = FALSE
SPECIFICATION MCSpec
SYMMETRY Symmetry
INVARIANTS
  TableSound
  RefsValid
  JavaAnswers
  ValuesSound
PROPERTIES
  LeaksOnlyWhenFull
