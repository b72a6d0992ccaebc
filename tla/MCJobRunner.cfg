SPECIFICATION Spec
CONSTANTS
  j1 = j1
  j2 = j2
  r1 = r1
  r2 = r2
  c1 = c1
  c2 = c2
  p1 = p1
  k1 = k1
  NoJob = NoJob
  Jobs = {j1}
  Keys = {k1}
  Requests <- RetriableOnce
  Runners = {r1, r2}
  Clients = {c1}
  Reporters = {p1}
  ChangeTries = 2
  StoreFaults = FALSE
  ClockMayRewind = FALSE
  MaxClock = 0
  MaxVersion = 4
SYMMETRY Symmetry
INVARIANTS
  TypeOK
  RecordsValid
  WorkOfCurrentAttempt
  OneExecutionPerAttempt
