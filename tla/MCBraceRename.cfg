SPECIFICATION Spec
CONSTANTS
  none = none
  NoFile = none
  Paths <- MovePaths
  Texts <- TwoTexts
  FirstTrees <- MCFirstTrees
  MaxEdits = 1
  MaxFailures = 0
INVARIANT EveryStatusKnown
