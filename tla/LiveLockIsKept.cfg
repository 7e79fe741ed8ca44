SPECIFICATION Spec
CONSTANTS
  Processes = {p1, p2, p3}
  LockIds = {1, 2, 3, 4}
  MaxAttempts = 2
  MaxFaults = 1
  None = None
SYMMETRY Symmetry
PROPERTIES
  LiveLockIsKept
CHECK_DEADLOCK FALSE
