CONSTANTS
  t1 = t1
  t2 = t2
  o1 = o1
  o2 = o2
  o3 = o3
  o4 = o4
  Threads = {t1, t2}
  Objects = {o1, o2, o3, o4}
  NoObject = NoObject
  MaxLocals = 3
  MaxFrames = 3
  MaxDepth = 3
  AnyUse = FALSE
SPECIFICATION Spec
SYMMETRY Symmetry
INVARIANTS
  RefsValid
