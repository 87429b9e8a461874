SPECIFICATION PartSpec
CONSTANTS
  Module <- Modules
  Root = "Root"
  Token <- Tokens
  ClassToken <- Classes
  RuntimeToken = {"cfg", "sender"}
  GuardDefinition = {"isAdmin"}
  ClassDeps <- Deps
  App <- Apps
  Methods <- ClassMethods
  ControllerOf <- Decorated
  GuardName <- Names
  ModuleExport <- Importable
  LastSegment <- Segments
  Sender = "sender"
  Reader = {c1, c2}
  Fetch = {f1, f2}
  Refreshing = TRUE
  RefreshInterval = 2
  Latency = 1
  MaxVersion = 2
INVARIANTS
  ImportsFirst
  WalkExact
  ImporterOverrides
  ValidationExact
  Resolvable
  DeclaredIsBound
  FreshnessBound
  DependentsCloseFirst
  CyclesDetected
PROPERTIES
  ApplicationStarts
  NeverUnloads
  Converges
  GetSettles
  ImplementsStore
  EveryCallSettles
CHECK_DEADLOCK FALSE
