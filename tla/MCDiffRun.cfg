SPECIFICATION Spec
CONSTANTS
  none = none
  Absent = none
  Requests <- MCRequests
  Configs <- MCConfigs
  ReportsIgnored = FALSE
  MaxRuns = 2
  MaxFaults = 1
INVARIANTS
  ExitMatchesArtifacts
  PackHasItsSummary
  OkMeansAsked
  FlagsWin
CHECK_DEADLOCK FALSE
