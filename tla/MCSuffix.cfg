CONSTANTS
    MaxSegment = 7
    MaxSetting = 4
    MAX_DECODE_ROUNDS = 8
    NoHost = NoHost
    Segments <- Nothing
    Accts <- Nothing
    Raw <- Settings
    Hosts <- MCHosts
SPECIFICATION Spec
INVARIANTS
    SettingCanMatch
CHECK_DEADLOCK FALSE
