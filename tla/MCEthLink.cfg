CONSTANTS
  a = a
  b = b
  Addr = {a, b}
  None = None
  StrangerAddr = StrangerAddr
  StaticAddr = StaticAddr
  FallbackAddr = FallbackAddr
  T1 = 1
  T2 = 2
  LeaseEnd = 3
  Resend = 1
  Wedge = 1
  StartLimit = 8
  MaxFaults = 2
SPECIFICATION Spec
INVARIANT TypeOK
PROPERTY KeepsServing
PROPERTY NeverDuplicates
CHECK_DEADLOCK FALSE
PROPERTY EventuallyBound
PROPERTY ServesAsItself
