\* Views put together, with a rail of two cards, while two tasks are created, edited,
\* claimed, lost and requeued.
SPECIFICATION ViewSpec
CONSTANTS
  NULL = NULL
  Tasks = {t1, t2}
  Workers = {w1, w2}
  Conns = {}
  MaxLimit = 1
  MaxPriority = 1
  MaxDelay = 1
  Visibility = 0
  BackoffUnit = 1
  RailLimit = 2
  RecentLimit = 2
  PageLimit = 1
SYMMETRY Symmetric
INVARIANTS
  PageOK
  NothingVanishes
  RailPredictsClaim
  AgentPageWhole
  ListMissesNothing
