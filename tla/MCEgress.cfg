SPECIFICATION MCSpec
CONSTANTS
    Names <- MCNames
    Accts <- MCAccts
    FeedAccts <- MCFeedAccts
    First = c1
    Conns = {c1, c2}
    Requests <- MCRequests
    Answers <- MCAnswers
    InternalHosts <- MCInternalHosts
    UnsafeSegments <- MCUnsafeSegments
    None = None
INVARIANTS
    TypeOK
    ExactlyTheAllowlistReachesMisskey
    UnlistedIsPlainlyRefused
    GatedPathsAskForApJson
    HeaderBlockIsExact
    BodyHasOneReader
    MediaFollowsItsTable
    PageLoadsLandOnHome
    NoMisskeyPageIsRelayed
    ResponseBlockIsExact
PROPERTIES
    LocalAnswersNeedNoMisskey
