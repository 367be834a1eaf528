CONSTANTS
  s1 = s1
  s2 = s2
  Savers = {s1, s2}
  Fds = {3, 4, 5}
  MaxSaves = 3
  MaxSets = 2
  MaxCrashes = 1
SPECIFICATION FairSpec
INVARIANTS
  ClosedIsCommitted
CHECK_DEADLOCK FALSE
