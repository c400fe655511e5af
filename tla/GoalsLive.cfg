CONSTANTS
  a = a
  b = b
  c = c
  Goals = {g1}
  Steps = {a, b, c}
  Plans <- OnlyNarrow
  MaxParallel = 1
  MaxListed = 2
  MaxDispatches = 1
  MaxRevision = 2
  MaxRequests = 1
  MaxRequeues = 0
  MaxFaults = 1
SPECIFICATION FairSpec
CHECK_DEADLOCK FALSE
INVARIANTS TypeOK
PROPERTIES CancelReachesTasks 
