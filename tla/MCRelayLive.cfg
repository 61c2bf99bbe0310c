SPECIFICATION FairSpec
CONSTANTS
    e1 = e1
    e2 = e2
    Exchanges = {e1, e2}
    Conns = {k1}
    Sizes <- MCSizes
    AnswerEnd = 1
    Room = 1
    None = None
PROPERTIES
    BodyIsStreamed
    AnswerIsStreamed
CHECK_DEADLOCK FALSE
