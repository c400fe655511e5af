CONSTANTS
  N = 1
  Tasks = {"t1"}
  TaskOf <- OneTask
  MaxAttempts = 2
  MaxConcurrency = 1
  MaxClaims = 3
  MaxRequeues = 0
  MaxTimed = 3
  MaxFaults = 1
SPECIFICATION FairSpec
CHECK_DEADLOCK FALSE
INVARIANTS TypeOK
PROPERTIES HandoffConcludes
