CONSTANTS
  NumNodes = 9
  Trees <- AllTrees
  Arenas <- AllArenas
  Clauses <- SparseClauses
  Shown <- AnyShown
  Cases <- AllCases
  RootCap = 4
  ScreenedRoots = 2
  Partition <- Halving
  Build <- BuiltFrom
  Cost <- VtreeCost
SPECIFICATION SearchSpec
INVARIANTS TreeConsistent RotationsAreLocal TraversalsAgree MetadataDescribesTree CheapestIsKept TablesAreRight
CHECK_DEADLOCK FALSE
