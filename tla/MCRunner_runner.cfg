\* Two workers, a log transaction and two faults around one task.
SPECIFICATION FairSpec
CONSTANTS
  NULL = NULL
  Tasks = {t1}
  Workers = {w1, w2}
  Conns = {c1}
  MaxLimit = 2
  MaxPriority = 0
  MaxDelay = 0
  Visibility = 1
  BackoffUnit = 1
  Submitted = {t1}
  Burst = 1
  Target = 2
  MaxFaults = 2
INVARIANTS
  RunnerOK
PROPERTIES
  ReportsOwnClaim
  EveryTaskFinishes
  OrphansReclaimed
