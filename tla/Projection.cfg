CONSTANTS
  NumVars = 4
  PollPairs = 2
  Jobs <- AllJobs
SPECIFICATION FairSpec
INVARIANTS EliminationHolds AnswersStand
PROPERTIES StepQuantifies ChainReturns
