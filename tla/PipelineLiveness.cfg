SPECIFICATION FairSpec
CONSTANTS
  Submissions = {s1}
  Jobs = {j1, j2}
  Items = {rice}
  Unpriceable = {}
  MaxAttempts = 2
  MaxFaults = 1
  EarlyLapse = TRUE
  TornWrites = TRUE
  Null = Null
CHECK_DEADLOCK FALSE
PROPERTIES
  PublicationIsFinal
  PendingIsSettled
