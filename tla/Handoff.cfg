CONSTANTS
  N = 1
  Tasks = {"t1"}
  TaskOf <- OneTask
  MaxAttempts = 2
  MaxConcurrency = 1
  MaxClaims = 2
  MaxRequeues = 1
  MaxTimed = 1
  MaxFaults = 1
SPECIFICATION Spec
CHECK_DEADLOCK FALSE
INVARIANTS DecisionsDurable DecisionsExplained CallsCounted
PROPERTIES KeepsPromise 
