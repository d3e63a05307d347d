SPECIFICATION Spec
CONSTANTS
  Files <- MCFiles
  Info <- MCInfo
  Cost <- MCCost
  Preamble <- MCPreamble
  RepoDirs <- MCRepoDirs
  DiffBase = "main"
  Changed <- MCChanged
  ScoredLists <- MCScoredLists
  Budgets <- MCBudgets
  RenderTokens <- MCRenderTokens
INVARIANTS
  TypeOK
  EstimatesFollowModes
  NoRoomLeftBehind
  TextMatchesSelections
  OverBudgetMeansEmpty
  PromotionMaximal
  SelectSpendsAllowance
  OmissionsReported
PROPERTIES
  DegradesInOrder
  AlwaysAdvances
  ImplementsPromise
