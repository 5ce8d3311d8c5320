SPECIFICATION FairSpec
CONSTANTS
  Procs = {p1, p2}
  Above = {}
  Pagers = {g1, g2}
  None = None
  NumFrames = 1
  NumPages = 2
  NumBlocks = 2
  Versions = {v1}
  MaxSpawns = 0
  QuitPreempts = FALSE
  TimeSliced = FALSE
INVARIANTS
  FramesChosenOnce
CHECK_DEADLOCK FALSE
