SPECIFICATION PartSpec
CONSTANTS
    N = 2
    Kinds = {"http", "websocket", "consumer", "schedule", "custom"}
    MaxCalls = 6
    Messages = {good, bad}
    Bad = {bad}
    HasSchema = TRUE
    Envs = {e1, e2}
    BatchSize = 2
    MaxReceives = 2
CHECK_DEADLOCK FALSE
INVARIANTS
    EachOnceInOrder
    SuccessMeansHandled
    FailureHasCause
    HandledAreChecked
    InvalidNotHandled
    HandledOnce
    ServedIsClosed
    HandledByOwn
PROPERTIES
    PipelineSettles
    NoSilentLoss
    ValidHandled
