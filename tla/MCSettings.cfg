CONSTANTS
  pass = pass
  lock = lock
  pin = pin
  Table <- ShortTable
  Pass = pass
  Lock = lock
  Pin = pin
  Absent = Absent
  SafeModeFails = 3
  MaxBoots = 6
SPECIFICATION Spec
CHECK_DEADLOCK FALSE
INVARIANT TypeOK
INVARIANT LockHasPassword
INVARIANT SavedIsSaved
INVARIANT ThirdStartReaches
PROPERTY LockIsForever
