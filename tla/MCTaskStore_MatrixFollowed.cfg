\* A report on a task that is still claimed.
SPECIFICATION Spec
CONSTANTS
  NULL = NULL
  Tasks = {t1}
  Workers = {w1}
  Conns = {}
  MaxLimit = 2
  MaxPriority = 0
  MaxDelay = 0
  Visibility = 1
  BackoffUnit = 1
PROPERTIES
  MatrixFollowed
