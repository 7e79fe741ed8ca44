SPECIFICATION BoundedSpec
CONSTANTS
  Fonts = {f1, f2}
  Names = {n1, n2}
  None = None
  Elsewhere = {"on", "check", "fonts"}
  MaxJobs = 3
  MaxFaults = 1
INVARIANTS
  TypeOK
  QuietPageIsUsable
  RestoredFontsStay
  NobodyWaitsInVain
PROPERTIES
  RecheckSpansTheFix
  RemovedFontsAreBackedUp
  ChecksAskForThemselves
SYMMETRY Symmetry
CHECK_DEADLOCK FALSE
