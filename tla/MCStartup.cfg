SPECIFICATION FairSpec
CONSTANTS
    Instances = {i1, i2}
    MaxStarts = 5
    Overlaps = {FALSE, TRUE}
INVARIANTS
    ServingIsReachable
PROPERTIES
    EventuallyServed
    OtherFilesAreKept
CHECK_DEADLOCK FALSE
