SPECIFICATION Spec
CONSTANTS
  Procs = {p1}
  PagerCounts <- TwoPagers
  MaxInits = 1
  Geometries <- OneDisk
INVARIANTS
  CleanedUp
CHECK_DEADLOCK FALSE
