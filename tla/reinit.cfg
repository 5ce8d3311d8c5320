SPECIFICATION Spec
CONSTANTS
  Procs = {p1}
  PagerCounts <- TwoPagers
  MaxInits = 2
  Geometries <- OneDisk
INVARIANTS
  NoAssert
CHECK_DEADLOCK FALSE
