SPECIFICATION FileSpec
CONSTANTS
  Items = {"x", "y"}
  Numbers = {"8000"}
  Bools = {"true"}
  Texts = {"main"}
  MaxItems = 1
INVARIANTS
  MeansWhatItSays
  ListsKeepTheirPlace
CHECK_DEADLOCK FALSE
