SPECIFICATION FairSpec
CONSTANTS
  w1 = w1
  t1 = t1
  t2 = t2
  c1 = c1
  NoWorkflow = NoWorkflow
  NoKey = NoKey
  Nobody = Nobody
  Gone = Gone
  Workflows = {w1}
  Keys = {}
  Budgets <- TwoSteps
  Tasks = {t1, t2}
  Clients = {c1}
  ChangeTries = 2
  MaxInstances = 1
  MaxVersion = 7
  MaxFaults = 1
INVARIANTS
  CheckpointsAgree
  OneOwner
PROPERTIES
  StepStartsOnce
  KeepsContract
  PassesEnd
