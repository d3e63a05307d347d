\* Two processes that make and explain packs in one repository.
SPECIFICATION Spec
SYMMETRY Symmetry
CONSTANTS
  P1 = P1
  P2 = P2
  Procs <- MCProcs
  PackArgs <- MCPackArgs
  ExplainArgs <- MCExplainArgs
  Numbers <- MCNumbers
  CfgBudget = 7000
  CfgTests = "false"
  FileOf <- MCFileOf
  Sections <- MCSections
  Outputs = {"fix", "pay"}
  Commands = 3
  Ticks = 2
INVARIANTS FlagsAnywhere PackIsWhole ExplainShowsLatest
