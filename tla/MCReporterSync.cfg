SPECIFICATION FairSpec
CONSTANTS
  Null = Null
  Reports = {r1, r2}
  Calls = {c1, c2}
  MaxAttempts = 2
  MaxFaults = 1
INVARIANTS TypeOK NothingWaitsUntried
PROPERTIES QueueDrains
