SPECIFICATION FairSpec
CONSTANTS
  p1 = p1
  p2 = p2
  a = a
  b = b
  c1 = c1
  c2 = c2
  c3 = c3
  Procs = {p1, p2}
  Files = {a, b}
  Walk <- MCWalk
  Contents = {c1, c2, c3}
  Size <- MCSize
  Tokens <- MCTokens
  NoProc = NoProc
  MaxEdits = 1
  MaxAborts = 1
INVARIANTS
  TypeOK
  RowsFresh
  CacheTransparent
PROPERTIES
  ReplacedWhole
  EventuallyFresh
