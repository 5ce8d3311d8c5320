SPECIFICATION FairSpec
CONSTANTS
  Procs = {p1, p2}
  Above = {}
  Pagers = {g1, g2}
  None = None
  NumFrames = 1
  NumPages = 2
  NumBlocks = 2
  Versions = {}
  MaxSpawns = 0
  QuitPreempts = TRUE
  TimeSliced = TRUE
INVARIANTS
  TypeOK
  MutexUncontended
  BusyIsBeingFilled
PROPERTIES
  ImplementsProtocol
  FaultServed
CHECK_DEADLOCK FALSE
