SPECIFICATION FairSpec
CONSTANTS
  Submissions = {s1, s2}
  Respelt = {}
  Unpriceable = {s2}
  Unscreened = {s2}
  Items = {rice}
  Reviewers = {r1}
  MaxFaults = 1
  Null = Null
CHECK_DEADLOCK FALSE
INVARIANTS
  TypeOK
  ResolvedIsBacked
  RejectedStaysOut
PROPERTIES
  HumanVerdictStands
  BacklogIsCleared
