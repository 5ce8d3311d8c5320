SPECIFICATION FairSpec
CONSTANTS
  Procs = {p1, p2, p3}
  NumPagers = 2
  None = None
INVARIANTS
  TypeOK
  FaultConserved
  TokensMatchFaults
  SemFreedUnused
  StartedWhenUp
PROPERTIES
  FaultAnswered
  ShutdownCompletes
  ImplementsProtocol
CHECK_DEADLOCK FALSE
