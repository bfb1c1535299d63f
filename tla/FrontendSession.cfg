SPECIFICATION FairSpec
CONSTANTS
  KillGrace = 1
  CutGrace = 2
  MinRunway = 3
  MaxNow = 10
  Horizon = 5
  Configs <- Sessions
  Overrides <- Asked
  RetryDeadlines = {3, 6}
  RetryBudgets = {1, 3}
  MaxRetries = 1
  ShareFloor = 2
  ShareCap = 3
  UntilInstant = 4
  Units = 3
INVARIANTS
  ReductionsAreUsed
  DeadlineHonoured
PROPERTIES
  SoundExport
  CallsReturn
