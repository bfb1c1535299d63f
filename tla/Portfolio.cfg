SPECIFICATION Spec
CONSTANTS
  t1 = t1
  t2 = t2
  t3 = t3
  None = None
  Refused = Refused
  Unbuilt = Unbuilt
  Nothing = Nothing
  Trees <- MCTrees
  Score <- MCScore
  Requests <- MCRequests
  MaxBuilds = 2
  MaxGoatdCandidates = 2
  MaxWork = 1
  MaxPiece = 1
  LastAttempt = 1
  LaterFlowcutterMin = 1
  GoatdBudgetFloor = 2
  ToleranceScale = 10
INVARIANTS
  WinnerFollowsTheRules
  TimeIsBounded
  PublishedSetIsFaithful
PROPERTIES
  ImplementsCandidateBuild
