CONSTANTS
  a1 = a1
  a2 = a2
  Automations = {a1}
  Rank <- Ranks
  Settings <- CatchingUp
  Grace = 1
  Batch = 2
  CatchUp = 1
  Horizon = 2
  DayLength = 2
  MaxTime = 2
  MaxRevision = 2
  MaxManual = 0
  MaxFaults = 0
SPECIFICATION FairSpec
INVARIANTS OccurrenceOnce OneAtATime 
PROPERTIES DueIsServed
