SPECIFICATION Spec
CONSTANTS
  Token <- MixedTokens
  ClassToken <- MixedClasses
  Dependencies <- MixedDeps
  Injectable = {"A"}
  HasClose = {"B", "all"}
  Fallible = {"A", "B", "all"}
  Wiring <- MixedWiring
  Late <- MixedLate
  LateValue = {"cfg"}
  Direct = {"A"}
  MaxFrames = 15
  MaxCalls = 2
  MaxLate = 1
  MaxClose = 1
INVARIANTS
  TypeOK
  LockDiscipline
  OneCloserPerToken
CHECK_DEADLOCK FALSE
