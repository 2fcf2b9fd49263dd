CONSTANTS
  U = 3
  W = 25
  FreshNmea = 5
  FreshPps = 7
  GapLimit = 9
  FitWin = 3
  FitMin = 2
  Warmup = 3
  RmcMax = 5
  RmcOnTime = 2
  MinGood = 1
  Spurious = {1}
  MaxTime = 30
  MaxFaults = 3
SPECIFICATION Spec
CHECK_DEADLOCK FALSE
INVARIANT TypeOK
INVARIANT RightLabelsHeal
INVARIANT FitFollowsPulses
PROPERTY WrongNeedsPersistence
