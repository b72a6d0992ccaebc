SPECIFICATION FairSpec
CONSTANTS
  j1 = j1
  j2 = j2
  r1 = r1
  r2 = r2
  c1 = c1
  c2 = c2
  p1 = p1
  k1 = k1
  NoJob = NoJob
  Jobs = {j1, j2}
  Keys = {k1}
  Requests <- CompetingForAKey
  Runners = {r1}
  Clients = {c1}
  Reporters = {}
  ChangeTries = 3
  StoreFaults = FALSE
  ClockMayRewind = FALSE
  MaxClock = 1
  MaxVersion = 3
INVARIANTS
  RunningHasOwner
  KeysMatchRecords
PROPERTIES
  EveryRunEnds
  RetentionRespected
