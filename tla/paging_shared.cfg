SPECIFICATION Spec
CONSTANTS
  Procs = {p1, p2}
  Above = {p1, p2}
  Pagers = {g1}
  None = None
  NumFrames = 2
  NumPages = 2
  NumBlocks = 3
  Versions = {v1}
  MaxSpawns = 0
  QuitPreempts = FALSE
  TimeSliced = TRUE
INVARIANTS
  FrameExclusive
  FreeFramesUnmapped
  SlotExclusive
  RecordsAgree
  Isolation
  
SYMMETRY ProcSymmetry
CHECK_DEADLOCK FALSE
