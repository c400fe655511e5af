CONSTANTS
  Execs = {e1, e2}
  MaxAttempts = 1
  Lease = 1
  MaxRuntime = 1
  Backoff = 0
  Slots = 1
  MaxClaims = 1
  MaxRetried = 0
  MaxFaults = 1
SPECIFICATION Spec
SYMMETRY Symmetry
INVARIANTS SlotsRespected
