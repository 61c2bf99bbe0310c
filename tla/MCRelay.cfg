SPECIFICATION Spec
CONSTANTS
    e1 = e1
    e2 = e2
    Exchanges = {e1, e2}
    Conns = {k1, k2}
    Sizes <- MCSizes
    AnswerEnd = 1
    Room = 1
    None = None
INVARIANTS
    TypeOK
    LateAnswersArrive
PROPERTIES
    PromiseKept
CHECK_DEADLOCK FALSE
