CONSTANTS
  MaxWaits = 1
  KindOf <- OneApproval
  MaxClaims = 2
  MaxReopens = 0
  MaxFaults = 0
SPECIFICATION Spec
CHECK_DEADLOCK FALSE
INVARIANTS ApprovedToolOnce
