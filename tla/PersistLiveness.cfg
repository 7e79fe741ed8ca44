SPECIFICATION FairSpec
CONSTANTS
  NSteps = 3
  NStandard = 2
  PolicyStep = 2
  LanguageStep = 3
  Base <- BaseLanguages
  Regions = {r1, r2}
  UserValues = {}
  Partial = Partial
  None = None
  MaxTransactions = 2
  MaxFaults = 2
  MaxTears = 0
  MaxDrifts = 0
PROPERTIES
  RecoveryConverges
CHECK_DEADLOCK FALSE
