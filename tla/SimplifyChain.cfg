CONSTANTS
  NumVars = 3
  AllocationFails = TRUE
  MaxStray = 1
  Jobs <- ChainJobs
SPECIFICATION Spec
INVARIANTS LayersFit BundleCountLifts AnswersReadBack
