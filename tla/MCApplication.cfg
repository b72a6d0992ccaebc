SPECIFICATION Spec
CONSTANTS
  t1 = t1
  t2 = t2
  t3 = t3
  p1 = p1
  p2 = p2
  k1 = k1
  v1 = v1
  v2 = v2
  NoRequest = NoRequest
  Requests = {t1, t2, t3}
  Paths = {p1, p2}
  Keys = {k1}
  NoKey = NoKey
  LongKey = LongKey
  Required = FALSE
  TTL = 1
  BodyParts = 1
  CacheFails = TRUE
  MaxClock = 1
  Workers = {t1, t2, t3}
  Chunks = 2
  MaxPuts = 3
  MaxStorageFaults = 1
  MaxUploads = 2
  Callers = {1, 2}
  NoCaller = 0
  Statuses = {"draft", "submitted", "approved"}
  FirstStatus = "draft"
  Moves <- Declared
  MaxEntityVersion = 3
  Writers = {1, 2}
  Identities = {"i", "j"}
  AppendKeys = {"k", "l"}
  NoAppendKey = "none"
  Contents = {"a", "b"}
  MaxAppends = 3
  Runtimes = {t1, t2, t3}
  MaxErrors = 2
  Visitors = {v1, v2}
  Tenants = {"a", "b"}
  MaxRevision = 2
  Coordinates <- Secrets
  Configured <- Configuration
  Unnamed = "unnamed"
  Runners = {t1, t2, t3}
  NoRuntime = NoRuntime
  Graphs = {v1, v2}
  MaxRaises = 2
  Launches = {t1, t2, t3}
  NoLaunch = NoLaunch
  Indexers = {v1, v2}
  Texts = 3
  BatchSize = 2
  Dimensions = {1, 2}
  MaxClients = 2
SYMMETRY Symmetry
CHECK_DEADLOCK FALSE
INVARIANTS
  
  AnswersAreWhole
  FactsAreAsAsked
  SharedWhileUsed
  
  StatementsFindTables
  NothingIsLeftOpen
  CopiesAreCurrent
PROPERTIES
  RetriesReplay
  StatusMovesAsDeclared
