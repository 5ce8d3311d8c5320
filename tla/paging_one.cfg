SPECIFICATION Spec
CONSTANTS
  Procs = {p1}
  Above = {}
  Pagers = {g1}
  None = None
  NumFrames = 2
  NumPages = 3
  NumBlocks = 3
  Versions = {v1, v2}
  MaxSpawns = 1
  QuitPreempts = FALSE
  TimeSliced = FALSE
INVARIANTS
  NoCrash
  StatsCount
PROPERTIES
  ImplementsMemory
SYMMETRY VersionSymmetry
CHECK_DEADLOCK FALSE
