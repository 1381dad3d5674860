SPECIFICATION FairSpec
CONSTANTS
  Workers = {w1, w2}
  Clients = {c1}
  Jobs = {j1, j2, j3}
  NoJob = noJob
  Priorities = {0, 2}
INVARIANTS CountersAccountForJobs NothingLeftAtJoin
PROPERTIES PriorityRespected WaitReturns ImplementsExecutor
CHECK_DEADLOCK FALSE
