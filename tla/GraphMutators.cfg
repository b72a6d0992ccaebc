SPECIFICATION Spec
CONSTANTS
  Nobody = Nobody
  NoThread = NoThread
  Threads = {t1}
  Runs = {r1, r2}
  Streams = {r2}
  Cancellable = {}
  Deleters = {}
  MaxCreations = 1
  MaxFaults = 0
CHECK_DEADLOCK FALSE
INVARIANTS
  OneMutator
