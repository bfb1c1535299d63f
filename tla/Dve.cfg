CONSTANTS
  NumVars = 4
  Calls <- AllCalls
  Tables <- TwoTables
  MaxRounds = 2
  StrengthenMin = 8
SPECIFICATION FairSpec
INVARIANTS GoneIsDefined CountsKept KeptCountIsExact
PROPERTIES Terminates
