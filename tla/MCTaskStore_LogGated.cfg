\* An entry committed after its author lost the task.
SPECIFICATION Spec
CONSTANTS
  NULL = NULL
  Tasks = {t1}
  Workers = {w1, w2}
  Conns = {c1}
  MaxLimit = 2
  MaxPriority = 0
  MaxDelay = 0
  Visibility = 1
  BackoffUnit = 1
SYMMETRY Symmetric
PROPERTIES
  LogGated
