SPECIFICATION LockSpec
CONSTANTS
  Calls = {c1, c2, c3}
  Loops = {l1, l2, l3}
  None = None
CHECK_DEADLOCK FALSE
INVARIANTS
  LockTypeOK
  LockSound
PROPERTIES
  OneLoopServes
