CONSTANTS
    MaxSegment = 7
    MaxSetting = 4
    MAX_DECODE_ROUNDS = 8
    NoHost = NoHost
    Segments <- MCSegments
    Accts <- MCAccts
    Raw <- MCRaw
    Hosts <- MCHosts
SPECIFICATION Spec
INVARIANTS
    NoReaderFindsMore
    ReadersAgree
    RefusalHasACause
    NoFeedIsServed
    ActorsGetThrough
    InternalMeansUnderTheName
    NamesCanMatch
CHECK_DEADLOCK FALSE
