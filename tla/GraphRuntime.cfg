SPECIFICATION FairSpec
CONSTANTS
  Nobody = Nobody
  NoThread = NoThread
  Threads = {t1}
  Runs = {r1, r2}
  Streams = {r2}
  Cancellable = {r1}
  Deleters = {d1}
  MaxCreations = 1
  MaxFaults = 1
CHECK_DEADLOCK FALSE
INVARIANTS
  BusyMeansRunning
  NothingOutlivesTheThread
PROPERTIES
  NothingHangs
