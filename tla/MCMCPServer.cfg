SPECIFICATION FairSpec
CONSTANTS
  Kinds = {"info", "unknown method", "unusable call", "bad arguments", "call", "blank", "invalid", "notification", "oversized"}
  Capacity = 2
  MaxLines = 3
  MaxEdits = 1
INVARIANTS
  AnsweredInOrder
  NeverStale
PROPERTY EveryRequestAnswered
CHECK_DEADLOCK FALSE
