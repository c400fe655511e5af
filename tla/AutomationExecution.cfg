CONSTANTS
  Execs = {e1}
  MaxAttempts = 2
  Lease = 1
  MaxRuntime = 2
  Backoff = 1
  Slots = 1
  MaxClaims = 2
  MaxRetried = 2
  MaxFaults = 1
SPECIFICATION Spec
INVARIANTS TypeOK AtMostOneUnsettled EvidenceOnDisk CrashLosesNothing CompletedByChild
PROPERTIES DeadlineFinal KeepsPromise StatusMovesOnly
