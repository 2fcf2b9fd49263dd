CONSTANTS
  U = 3
  Half = 8
  MaxTime = 12
  MaxPulses = 3
  Delay = 1
  PpsCal = 0
  ServeCal = 0
  MaxAnchorAge = 4
  Tolerance = 2
SPECIFICATION Spec
CHECK_DEADLOCK FALSE
INVARIANT AdvanceTogether
