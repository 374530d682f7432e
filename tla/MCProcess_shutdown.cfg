\* Two RPCs, a page and a loop share two connections.
SPECIFICATION FairSpec
CONSTANTS
  RPCs = {r1, r2}
  Pages = {p1}
  Loops = {l1}
  PoolSize = 2
CHECK_DEADLOCK FALSE
INVARIANTS
  TypeOK
  Drained
  PoolOutlivesUsers
  NothingMissed
PROPERTIES
  ExitsAfterSignal
