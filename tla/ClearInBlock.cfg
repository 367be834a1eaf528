CONSTANTS
  Players = {p1, p2, p3}
  NoPlayer = NoPlayer
  Buffers = {b1, b2}
  NoBuffer = NoBuffer
  Engine = {e1}
  Mixer = Mixer
  None = None
  MaxPlayers = 2
  QSlots = 2
  ReclaimAfter = 1
  AnyUse = TRUE
SPECIFICATION Spec
INVARIANT PlayersSafe
CHECK_DEADLOCK FALSE
