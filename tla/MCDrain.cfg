SPECIFICATION FairSpec
CONSTANTS
    Limit = 4
    Timeout = 2
    MaxFrame = 3
    MaxBody = 8
INVARIANTS
    TypeOK
    DrainIsBounded
    ResetNeedsExcess
PROPERTIES
    PromiseKept
CHECK_DEADLOCK FALSE
