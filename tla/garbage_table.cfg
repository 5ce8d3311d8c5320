SPECIFICATION FairSpec
CONSTANTS
  Procs = {p1}
  Above = {}
  Pagers = {g1}
  None = None
  NumFrames = 1
  NumPages = 2
  NumBlocks = 1
  Versions = {v1}
  MaxSpawns = 1
  QuitPreempts = FALSE
  TimeSliced = FALSE
INVARIANTS
  NoCrash
CHECK_DEADLOCK FALSE
