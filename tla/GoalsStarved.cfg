CONSTANTS
  a = a
  b = b
  c = c
  Goals = {g1, g2}
  Steps = {a, b, c}
  Plans <- OnlyNarrow
  MaxParallel = 1
  MaxListed = 2
  MaxDispatches = 0
  MaxRevision = 1
  MaxRequests = 0
  MaxRequeues = 0
  MaxFaults = 0
SPECIFICATION FairSpec
CHECK_DEADLOCK FALSE
PROPERTY PlanningEnds
