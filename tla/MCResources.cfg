SPECIFICATION PartSpec
CONSTANTS
    Requests = {r1, r2, r3}
    Links = 1
CHECK_DEADLOCK FALSE
INVARIANTS
    ReadyWhenServed
    HandlesAgree
    LockHeld
    NoCrossSlot
    Fulfilled
    ScanFaithful
    FetchesWhole
    HandlesReach
    TokensUsable
    NothingLost
PROPERTY
    Isolated
