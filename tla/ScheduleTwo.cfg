CONSTANTS
  a1 = a1
  a2 = a2
  Automations = {a1, a2}
  Rank <- Ranks
  Settings <- Rare
  Grace = 1
  Batch = 2
  CatchUp = 1
  Horizon = 2
  DayLength = 2
  MaxTime = 2
  MaxRevision = 1
  MaxManual = 1
  MaxFaults = 1
SPECIFICATION Spec
INVARIANTS TypeOK RecentOccurrencesRecorded
