CONSTANTS
  None = None
  Threads = {t1, t2, t3}
  Words = {u1, u2}
  Vals = {0, 1}
  Buckets = {h1}
  Bucket <- MCBucket
  Users = {t1, t2}
  Mutexes = {m1, m2}
  RecursiveOnes = {m2}
  Conds = {c1}
  RwLocks = {r1}
  MaxDepth = 2
  MaxGen = 2
  MaxCount = 3
SPECIFICATION MCSpec
INVARIANTS
  TypeOK
  NoWakeLost
  ThreadsSound
PROPERTIES
  ImplementsFutex
  CallsReturn
  ThreadsProceed
