SPECIFICATION Spec
CONSTANTS
  full1 = full1
  incr1 = incr1
  k1 = k1
  k2 = k2
  k3 = k3
  v1 = v1
  NoJob = NoJob
  NoVersion = NoVersion
  Jobs = {full1, incr1}
  Mode <- Modes
  SourceVersion <- OneVersion
  Keys = {k1, k2}
  PageSize = 1
  MaxPages = 2
  MaxFullItems = 2
  Deactivates = TRUE
  MaxRecords = 2
  MaxReports = 1
  MaxAttempts <- Attempts
  MaxChanges = 2
  CallsFail = TRUE
SYMMETRY Symmetry
CHECK_DEADLOCK FALSE
INVARIANTS
  NothingIsSkipped
PROPERTIES
  NothingRegresses
  SweepIsJustified
