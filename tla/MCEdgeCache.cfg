SPECIFICATION MCSpec
CONSTANTS
    Names <- MCNames
    Accts <- MCEmpty
    FeedAccts <- MCEmpty
    Conns = {c1}
    Requests <- MCRequests
    Answers <- MCAnswers
    InternalHosts <- MCInternalHosts
    UnsafeSegments <- MCEmpty
    None = None
    Files = {"index.html", "icon.webp"}
    Readers = {r1, r2}
    MaxVersion = 2
    LastDay = 2
    Week = 2
    Nobody = Nobody
SYMMETRY MCSymmetry
INVARIANTS
    NoBorrowedAnswer
    OneVersionPerAnswer
    PageIsCurrent
    MistakesAgeOut
