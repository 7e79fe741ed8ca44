SPECIFICATION FairSpec
CONSTANTS
  Processes = {p1, p2, p3}
  LockIds = {1, 2, 3, 4}
  MaxAttempts = 1
  MaxFaults = 1
  None = None
PROPERTIES
  DeadLockIsTakenOver
CHECK_DEADLOCK FALSE
