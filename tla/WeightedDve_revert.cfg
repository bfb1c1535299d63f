CONSTANTS
  NumVars = 5
  Calls <- TwoMerges
  Tables <- TwoTables
  MaxRounds = 2
  StrengthenMin = 50
SPECIFICATION Spec
INVARIANTS RevertRestoresCount
