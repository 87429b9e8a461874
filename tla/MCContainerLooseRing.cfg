SPECIFICATION Spec
CONSTANTS
  Token <- LooseTokens
  ClassToken <- LooseClasses
  Dependencies <- LooseDeps
  Injectable = {"X", "Y"}
  HasClose = {"log"}
  Fallible = {}
  Wiring <- LooseWiring
  Late = {}
  LateValue = {}
  Direct = {}
  MaxFrames = 14
  MaxCalls = 1
  MaxLate = 0
  MaxClose = 0
INVARIANT
  CyclesDetected
CHECK_DEADLOCK FALSE
