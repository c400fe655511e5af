CONSTANTS
  a = a
  b = b
  c = c
  Goals = {g1}
  Steps = {a, b, c}
  Plans <- OnlyWide
  MaxParallel = 1
  MaxListed = 2
  MaxDispatches = 2
  MaxRevision = 1
  MaxRequests = 1
  MaxRequeues = 1
  MaxFaults = 0
SPECIFICATION Spec
CHECK_DEADLOCK FALSE
SYMMETRY Symmetry
  
PROPERTIES EndedGoalStartsNothing TasksAsPromised
