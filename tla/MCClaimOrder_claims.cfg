\* Two claims go down two rows of two priorities, or one beside a log transaction,
\* while other statements lock and write the rows.
SPECIFICATION ClaimSpec
CONSTANTS
  NULL = NULL
  Tasks = {t1, t2}
  Workers = {w1}
  Conns = {c1}
  Scans = {s1, s2}
  MaxLimit = 1
  MaxPriority = 1
  MaxDelay = 0
  Visibility = 0
  BackoffUnit = 1
SYMMETRY Symmetric
CONSTRAINT Bounded
INVARIANTS
  ClaimsInOrder
PROPERTIES
  ClaimsOnStore
