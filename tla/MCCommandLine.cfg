SPECIFICATION CommandLineSpec
CONSTANTS
  g1 = g1
  g2 = g2
  Commands = {g1, g2}
  Features = {"a", "b"}
  Vias = {"http", "mcp"}
  UseCases = {"x", "y"}
  Adapters = {"otel", "mongodb", "mariadb"}
  Observers = {"otel"}
  MaxEdits = 1
  MaxFaults = 1
  Steps = 2
  Scenarios <- Pairs
  StateNames = {"draft", "submitted", "approved"}
  InitialState = "draft"
  MaxTransitions = 3
  SourceModules = {"entry", "other"}
  EntryModule = "entry"
  SourceNames = {"Field", "x"}
  Symbol = "Field"
  Library = "pydantic"
  Projects <- SmallProjects
  Services = {"openai", "redis"}
  SecretValues = {"one", "two"}
  MaxSteps = 2
  MaxReleases = 2
  MaxCorrections = 1
  MaxSaves = 2
CHECK_DEADLOCK FALSE
INVARIANTS
  DeveloperWorkIsKept
  FailureLeavesNothing
  InstalledIsComplete
  ManifestIsServed
  RecipeTellsWhatWasDone
  TargetIsWhole
  
