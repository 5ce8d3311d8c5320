SPECIFICATION FairSpec
CONSTANTS
  Procs = {p1, p2}
  Above = {}
  Pagers = {g1}
  None = None
  NumFrames = 1
  NumPages = 1
  NumBlocks = 2
  Versions = {v1}
  MaxSpawns = 0
  QuitPreempts = FALSE
  TimeSliced = FALSE
PROPERTIES
  ImplementsMemory
CHECK_DEADLOCK FALSE
