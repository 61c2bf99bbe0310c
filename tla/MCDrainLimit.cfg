SPECIFICATION Spec
CONSTANTS
    Limit = 4
    Timeout = 2
    MaxFrame = 3
    MaxBody = 8
INVARIANTS
    AtMostLimit
CHECK_DEADLOCK FALSE
