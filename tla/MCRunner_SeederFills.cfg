\* A queue that only the seeder feeds.
SPECIFICATION FairSpec
CONSTANTS
  NULL = NULL
  Tasks = {t1}
  Workers = {w1}
  Conns = {}
  MaxLimit = 1
  MaxPriority = 0
  MaxDelay = 0
  Visibility = 0
  BackoffUnit = 1
  Submitted = {}
  Burst = 2
  Target = 12
  MaxFaults = 0
PROPERTIES
  SeederFills
