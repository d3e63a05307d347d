SPECIFICATION Spec
CONSTANTS
  none = none
  NoFile = none
  Paths <- MCPaths
  Texts <- TwoTexts
  FirstTrees <- MCFirstTrees
  MaxEdits = 3
  MaxFailures = 1
INVARIANTS
  NoSteadyChangeMissed
  QuietAnswerIsExact
