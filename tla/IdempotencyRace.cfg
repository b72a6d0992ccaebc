SPECIFICATION Spec
CONSTANTS
  NoRequest = NoRequest
  Requests = {r1, r2}
  Paths = {p1}
  Keys = {k1}
  NoKey = NoKey
  LongKey = LongKey
  Required = TRUE
  TTL = 1
  BodyParts = 1
  CacheFails = FALSE
  MaxClock = 0
CHECK_DEADLOCK FALSE
PROPERTIES
  FirstWins
