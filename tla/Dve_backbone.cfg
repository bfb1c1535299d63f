CONSTANTS
  NumVars = 4
  Calls <- Uncovered
  Tables <- TwoTables
  MaxRounds = 2
  StrengthenMin = 50
SPECIFICATION Spec
INVARIANTS CountPreserved
