CONSTANTS
  s1 = s1
  s2 = s2
  t1 = t1
  t2 = t2
  None = None
  Savers = {s1}
  Fds = {3, 4}
  MaxSaves = 3
  MaxSets = 2
  MaxCrashes = 1
  Threads = {t1, t2}
  Devices = {"sdmc:"}
  Home <- MCHome
  Paths <- MCPaths
  Assets <- MCAssets
  Big = 3
  Win = 2
  Slots = {1}
  StaticFds <- MCStaticFds
  Offsets = {0}
  MaxOpen = 1
  Lengths = {2}
  Chars = {"tab", "nl", "bs", "t", "n", "a", "1", "S", "I"}
  Keys <- MCKeys
  Types = {"S", "I"}
  Values <- MCValues
  Orders <- MCOrders
  LineMax = 16
  MaxEntries = 2
  Numbers <- MCNumbers
  Edits <- MCEdits
  MaxBoots = 3
SPECIFICATION MCSpec
INVARIANTS
  TypeOK
  ClosedIsCommitted
  TargetWhole
  StorageSound
PROPERTIES
  TargetMonotonic
  PrefsReachFile
CHECK_DEADLOCK FALSE
