SPECIFICATION Spec
CONSTANTS
  Processes = {p1, p2, p3}
  LockIds = {1, 2, 3, 4}
  MaxAttempts = 2
  MaxFaults = 2
  None = None
SYMMETRY Symmetry
INVARIANTS
  TypeOK
  MutualExclusion
PROPERTIES
  GateIsKept
  HeartbeatNeverCostsTheLock
CHECK_DEADLOCK FALSE
