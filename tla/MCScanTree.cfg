\* What the walk finds and what .ctxpack.yml takes away.
SPECIFICATION ScanSpec
CONSTANTS
  Cases <- MCCases
  BuiltInIgnoredDirs <- MCBuiltIn
  IsSupportedSource <- MCSupported
  Language <- MCLanguage
INVARIANT ScansWhatGitTracks
PROPERTY AppliesWhatIsNamed
