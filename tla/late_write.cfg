SPECIFICATION FairSpec
CONSTANTS
  Procs = {p1, p2}
  Above = {}
  Pagers = {g1, g2}
  None = None
  NumFrames = 1
  NumPages = 2
  NumBlocks = 2
  Versions = {v1}
  MaxSpawns = 1
  QuitPreempts = FALSE
  TimeSliced = FALSE
INVARIANTS
  Isolation
CHECK_DEADLOCK FALSE
