SPECIFICATION FairSpec
CONSTANTS
  NoEvent = NoEvent
  Requests = {r1, r2}
  Events = {e1}
  Modes = {"sync", "accepted", "slack"}
  TTL = 1
  MaxResponses = 1
  MaxClock = 1
  Foreign = {m1}
  Concurrency = 1
  Prefetch = 2
  Requeues = FALSE
  MaxFaults = 1
CHECK_DEADLOCK FALSE
INVARIANTS
  
  ClaimsAreJust

  
