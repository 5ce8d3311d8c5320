SPECIFICATION FairSpec
CONSTANTS
  Procs = {p1, p2}
  Above = {}
  Pagers = {g1, g2}
  None = None
  NumFrames = 2
  NumPages = 1
  NumBlocks = 2
  Versions = {v1}
  MaxSpawns = 0
  QuitPreempts = FALSE
  TimeSliced = TRUE
INVARIANTS
  SlotExclusive
CHECK_DEADLOCK FALSE
