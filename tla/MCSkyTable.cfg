SPECIFICATION SkySpec
CONSTANTS
  Talkers <- TalkersMC
  PerLine = 2
  MaxSats = 3
  Skies <- SkiesMC
  Combined = {TRUE, FALSE}
  MaxSweeps = 3
  MaxLost = 2
INVARIANTS SkyTypeOK SweepHeals SeenIsRecent
CHECK_DEADLOCK FALSE
