SPECIFICATION Spec
CONSTANTS
  Module <- Modules
  Root = "Root"
  Token <- Tokens
  ClassToken <- Classes
  RuntimeToken = {"cfg", "sender"}
  GuardDefinition = {"isAdmin"}
  ClassDeps <- Deps
  App <- Apps
  Methods <- ClassMethods
  ControllerOf <- Decorated
  GuardName <- Names
  ModuleExport <- Importable
  LastSegment <- Segments
  Sender = "sender"
INVARIANT RouteGetsItsHandler
CHECK_DEADLOCK FALSE
