SPECIFICATION Spec
CONSTANTS
  Observations = {o1}
  Editable = {}
  Worths = {w1}
  MaxDay = 1
  Window = 1
  Limit = 1
  Broken = {}
  Drains = {p1}
  Builds = {b1}
  MaxKills = 0
  Null = Null
PROPERTIES
  ClearedIsCurrent
