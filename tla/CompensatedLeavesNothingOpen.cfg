SPECIFICATION Spec
CONSTANTS
  NSteps = 3
  NStandard = 2
  PolicyStep = 2
  LanguageStep = 3
  Base <- DistinctLanguages
  Regions = {r1, r2}
  UserValues = {u1}
  Partial = Partial
  None = None
  MaxTransactions = 1
  MaxFaults = 1
  MaxTears = 0
  MaxDrifts = 0
SYMMETRY Symmetry
PROPERTIES
  CompensatedLeavesNothingOpen
CHECK_DEADLOCK FALSE
