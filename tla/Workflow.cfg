CONSTANTS
  MaxWaits = 4
  KindOf <- Mixed
  MaxClaims = 4
  MaxReopens = 1
  MaxFaults = 1
SPECIFICATION FairSpec
CHECK_DEADLOCK FALSE
INVARIANTS TypeOK AloneUnlessTimer  
PROPERTIES KeepsPromise WaitsEnd CancellationDelivered
