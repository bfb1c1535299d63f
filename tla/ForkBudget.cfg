SPECIFICATION FairSpec
CONSTANTS
  Deadline = 1
  KillGrace = 1
  MaxNow = 3
  PayloadLen = 3
  PipeCap = 2
  ReadChunk = 2
  HostIsInit = FALSE
  Subreaper = FALSE
INVARIANTS
  TypeOK
  KillNamesOwnChild
  CleanReturn
  ResultIsFaithful
PROPERTIES
  ImplementsBudgetedCall
  CallEnds
