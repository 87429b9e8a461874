SPECIFICATION Spec
CONSTANTS
    Requests = {r1, r2}
    Links = 1
CHECK_DEADLOCK FALSE
INVARIANT EveryClientClosed
