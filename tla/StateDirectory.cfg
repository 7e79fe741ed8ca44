SPECIFICATION Spec
CONSTANTS
  Callers = {c1, c2}
  Snapshots = {s1}
  Converted = Converted
  Importer = Importer
  Starter = Starter
  Legacy = Legacy
  Newer = Newer
  Corrupt = Corrupt
  None = None
  Idle = Idle
  Texts = {empty, t1}
  Empty = empty
  Lists = {l1}
  Slots = {slot1, slot2}
  Null = Null
  Absent = Absent
  MaxRevision = 1
  MaxFaults = 2
  MaxDamages = 1
INVARIANTS
  TypeOK
  RevisionNamesOneState
  ReportedCommitsSurvive
  LegacyIsKept
PROPERTIES
  FilesAreRegisters
  ReadsAreCurrent
  NewerIsLeftAlone
  ProofFollowsBackup
  ImportedWithItsBackup
  MigrationSettles
CHECK_DEADLOCK FALSE
