CONSTANTS
  NumVars = 4
  Jobs <- AllJobs
  ChunkGrowth = 2
  EscalatedChunk = 2
  UnknownPairs = 2
SPECIFICATION FairSpec
INVARIANTS PartitionHolds StageDelivers
PROPERTIES ProbingEnds
