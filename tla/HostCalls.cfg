SPECIFICATION Spec
CONSTANTS
  None = None
  NumVars = 5
  Threads = {t1, t2}
  RunNamed <- MCRunNamed
  Runs <- MCRuns
  Pairings <- MCPairings
  MaxCalls = 2
  MaxWrites = 2
  MaxFaults = 1
INVARIANTS
  PreparesAreApart
  WrittenReadsBack
  FailureLeavesAPrefix

SYMMETRY Symmetric
