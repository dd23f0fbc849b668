SPECIFICATION Spec
CONSTANTS
  Thread = {t1, t2, t3}
  INode = {i1, i2, i3}
  Inum = {n1, n2}
  initialCacheItems = {i1}
  growCacheIncrement = 2
  MaxCached = 1
  None = None
SYMMETRY Symmetry
INVARIANTS
  InodeExistsOnce
CHECK_DEADLOCK FALSE
