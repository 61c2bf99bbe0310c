SPECIFICATION Spec
CONSTANTS
    Instances = {i1, i2}
    MaxStarts = 3
    Overlaps = {TRUE}
PROPERTIES
    OnlyStaleSocketsAreCleared
CHECK_DEADLOCK FALSE
