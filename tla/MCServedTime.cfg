CONSTANTS
  U = 3
  Half = 8
  MaxTime = 12
  MaxPulses = 3
  Delay = 1
  PpsCal = 1
  ServeCal = 1
  MaxAnchorAge = 4
  Tolerance = 2
SPECIFICATION Spec
CHECK_DEADLOCK FALSE
INVARIANT TypeOK
INVARIANT NeverSlow
INVARIANT ReplyOrdered
