CONSTANTS
  Users = {t1, t2}
  Rings = {p1, p2}
  MaxFakeFds = 5
  PipeCap = 2
  Chunk = 2
  MaxSent = 3
  MaxLoopers = 2
  MaxRefs = 1
  Timed = {t2}
  None = None
  HidFingers = {1, 2}
  Xs = {0}
  MaxTouches = 3
  Width = 4
  PairOffset = 2
  StickSteps <- MCStickSteps
  CursorStart = 1
SPECIFICATION MCSpec
INVARIANTS
  TypeOK
  PairTogether
  SignalsSound
PROPERTIES
  FingersReported
  MouseGesture
  SignalsArrive
