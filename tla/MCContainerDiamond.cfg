SPECIFICATION Spec
CONSTANTS
  Token <- DiamondTokens
  ClassToken = {}
  Dependencies <- NoDeps
  Injectable = {}
  HasClose = {}
  Fallible = {}
  Wiring <- DiamondWiring
  Late = {}
  LateValue = {}
  Direct = {}
  MaxFrames = 10
  MaxCalls = 1
  MaxLate = 0
  MaxClose = 0
INVARIANT
  CircularMeansCycle
CHECK_DEADLOCK FALSE
