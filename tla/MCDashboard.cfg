SPECIFICATION FairSpec
CONSTANTS
  Sections = {"rail", "panel"}
  Figures <- MCFigures
  SectionOf <- MCSectionOf
  Target <- MCTarget
  Charts = {"national", "fx"}
  Duration = 3
  Grace = 1
  Lag = 1
INVARIANTS TypeOK NoStuckCounter
PROPERTIES PageCompletes
