\* The graph, the boosts and the order of five files at most.
SPECIFICATION RankingSpec
CONSTANTS
  NumFiles = 5
  Tests = {3}
  Code = {1, 2, 3}
  Entries = {2}
  Cases <- MCCases
  SeedLimit = 2
INVARIANTS
  ImportsLeadToOneFile
  SameEveryTime
  GainsFromNeighbours
