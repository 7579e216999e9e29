SPECIFICATION FairSpec
CONSTANTS
  hot = hot
  other = other
  c1 = c1
  c2 = c2
  c3 = c3
  Call = {c1, c2, c3}
  ShapesOf <- OneHot
  Account = {hot, other}
  Seeded = {3, 30}
  PoolSize = 2
  Precise = 8
  MaxBig = 31
  NoShape = NoShape
INVARIANTS TypeOK VettedOnly PoolAccounted
PROPERTIES  MovesExactly
CHECK_DEADLOCK FALSE
