\* Two calls of two workers, or of one, and a call of an admin, on one task.
SPECIFICATION Spec
CONSTANTS
  NULL = NULL
  Tasks = {t1}
  Workers = {w1, w2}
  WorkerCalls = {c1, c2}
  Admins = {a1}
  MaxLimit = 2
  MaxFaults = 1
SYMMETRY Symmetric
CONSTRAINT Bounded
INVARIANTS
  TypeOK
  RepliesTruthful
  RefusedHoldsNothing
  CountersExact
