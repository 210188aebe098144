SPECIFICATION FairSpec
CONSTANTS
  Null = Null
  a = a
  b = b
  w = w
  Tabs = {t1}
  Saves = {1, 2}
  Catalogue <- MCCatalogue
  Needed <- MCNeeded
  Locations = {l}
  Words = {w}
  Hits <- MCHits
  MaxFaults = 1
  MaxCloses = 1
INVARIANTS TypeOK HonestTally OncePerEntry
PROPERTIES BarsAreEarned ButtonReturns
CHECK_DEADLOCK FALSE
