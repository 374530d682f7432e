\* Two tasks to claim by two racing calls while rivals and the reaper act.
SPECIFICATION Spec
CONSTANTS
  NULL = NULL
  Me = me
  Tasks = {t1, t2}
  Workers = {me, rival}
  Calls = {c1, c2}
  Handles = {h1, h2, h3}
  MaxLimit = 2
SYMMETRY Symmetric
CHECK_DEADLOCK FALSE
INVARIANTS
  TypeOK
  ClaimsTracked
  BeatsCurrentOnly
  SingleFinalizer
PROPERTIES
  ClearsOwn
