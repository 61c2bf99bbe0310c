CONSTANTS
    MaxAuthority = 3
    MAX_TARGET_LEN = 9
    MAX_URL_VALUE_LEN = 10
    Settings <- MCSettings
    Targets <- MCTargets
SPECIFICATION Spec
INVARIANTS
    OutsidersStayUnderAPrefix
    NoReaderIsMisled
    InsidersLandAtTheBase
    AcceptedBaseServes
CHECK_DEADLOCK FALSE
