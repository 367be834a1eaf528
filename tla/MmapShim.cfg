CONSTANTS
  ArenaPages = 4
  Step = 2
  Thresh = 3
  Requests <- MCRequests
  Keys <- MCKeys
  NoKey = NoKey
  FbMax = 1
  MapcMax = 1
  NoBuf = NoBuf
  t1 = t1
  t2 = t2
  b1 = b1
  b2 = b2
  b3 = b3
  k1 = k1
  Buffers = {b1, b2}
  Threads <- MCThreads
  MaxMaps = 3
SPECIFICATION FairSpec
INVARIANTS
  TypeOK
  ArenaExact
  BuffersSafe
PROPERTIES
  LostOnlyAtLimit
  CallsReturn
CHECK_DEADLOCK FALSE
