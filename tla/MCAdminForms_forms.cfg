\* Two tabs open on one task that workers claim, park and lose.
SPECIFICATION Spec
CONSTANTS
  NULL = NULL
  Tasks = {t1}
  Workers = {w1}
  Tabs = {tab1, tab2}
  Briefs = {b1, b2}
  Links = {url}
  MaxLimit = 3
  Horizon = 4
SYMMETRY Symmetric
CHECK_DEADLOCK FALSE
INVARIANTS
  TypeOK
  AgentSeesBrief
PROPERTIES
  BackoffHonoured
  WorkRunsOut
