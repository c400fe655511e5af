CONSTANTS
  Execs = {e1}
  MaxAttempts = 2
  Lease = 1
  MaxRuntime = 2
  Backoff = 1
  Slots = 1
  MaxClaims = 2
  MaxRetried = 0
  MaxFaults = 2
SPECIFICATION FairSpec
INVARIANTS OneRunner
PROPERTIES CondemnedChildrenEnd DeadlineEnds 
