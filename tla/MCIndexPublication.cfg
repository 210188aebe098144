SPECIFICATION FairSpec
CONSTANTS
  Observations = {o1}
  Editable = {o1}
  Worths = {w1}
  MaxDay = 1
  Window = 1
  Limit = 2
  Broken = {0}
  Drains = {p1}
  Builds = {b1}
  MaxKills = 1
  Null = Null
INVARIANTS
  TypeOK
  StaleOrCurrent
PROPERTIES
  FigureCatchesUp
