CONSTANTS
  s1 = s1
  s2 = s2
  Savers = {s1}
  Fds = {3, 4}
  MaxSaves = 1
  MaxSets = 2
  MaxCrashes = 0
SPECIFICATION FairSpec
PROPERTIES
  PrefsReachCard
CHECK_DEADLOCK FALSE
