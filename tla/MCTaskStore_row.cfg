\* One row under two workers and two open log transactions.
SPECIFICATION Spec
CONSTANTS
  NULL = NULL
  Tasks = {t1}
  Workers = {w1, w2}
  Conns = {c1, c2}
  MaxLimit = 3
  MaxPriority = 0
  MaxDelay = 1
  Visibility = 1
  BackoffUnit = 1
SYMMETRY Symmetric
INVARIANTS
  TypeOK
  LeaseIntegrity
  CompletionStamp
  NoteIsHolders
  AttemptBudget
  LogsHaveTask
PROPERTIES
  SilentClaimEndsByExpiry
  SilentLeaseRunsDown
  ParkedStays
  TerminalStays
  ImplementsLifecycle
