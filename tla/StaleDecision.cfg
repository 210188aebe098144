SPECIFICATION Spec
CONSTANTS
  Submissions = {s1}
  Jobs = {j1}
  Items = {rice}
  Unpriceable = {}
  MaxAttempts = 2
  MaxFaults = 0
  EarlyLapse = FALSE
  TornWrites = FALSE
  Null = Null
CHECK_DEADLOCK FALSE
PROPERTIES
  DecidedIsLeftAlone
