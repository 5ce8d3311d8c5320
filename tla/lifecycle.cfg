SPECIFICATION Spec
CONSTANTS
  Procs = {p1, p2}
  PagerCounts <- TriedCounts
  MaxInits = 2
  Geometries <- Disks
INVARIANTS
  TypeOK
  SuccessMeansUp
  TablesMatchLives
  FramesFromPagers
  CrashAfterFailedInit
  DownMeansReleased
  HoldsOnDisk
  HoldsDisjoint
  DiskUsed
CHECK_DEADLOCK FALSE
