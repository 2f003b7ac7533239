SPECIFICATION FairSpec
CONSTANTS
  Calls = {c1, c2}
  Conns = {k1, k2, k3}
  Size = 2
  Nil = Nil
INVARIANTS
  PoolBound
  OnlyStaleListsForget
  OnlyStaleListsRevive
PROPERTIES
  ResponseReturns
  EndedLeaves
CHECK_DEADLOCK FALSE
