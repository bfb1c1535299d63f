SPECIFICATION Spec
CONSTANTS
  NumVars = 8
  None = None
  Requests <- MCRequests
  TinyMax = 1
  MaxWork = 1
  MaxOverrun = 1
INVARIANTS
  TreesFit
  SplitIsIndependent
  NoComponentStarves
