SPECIFICATION Spec
CONSTANTS
  NSteps = 3
  NStandard = 2
  PolicyStep = 2
  LanguageStep = 3
  Base <- BaseLanguages
  Regions = {r1, r2}
  UserValues = {}
  Partial = Partial
  None = None
  MaxTransactions = 3
  MaxFaults = 2
  MaxTears = 1
  MaxDrifts = 1
SYMMETRY Symmetry
INVARIANTS
  TypeOK
  BackupIsDaily
  DailyIsClean
  UntouchedUntilReported
  ChangesAreAnnounced
PROPERTIES
  CommittedTargetIsRealised
  DailyOnlyWhenRestored
  CompensationRestores
  ExitCodesAreTrue
CHECK_DEADLOCK FALSE
