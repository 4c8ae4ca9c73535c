SPECIFICATION FairSpec
CONSTANTS
    Requests = {r1, r2}
    Background = {b1}
    Bodies <- SomeBodies
    None = None
    TTL = 1
    MaxTime = 3
INVARIANTS
    TypeOK
    ImportedOnce
    AnswersFit
    ReportsAreSound
    UndisturbedNamesItself
PROPERTIES
    RequestsAnswered
CHECK_DEADLOCK FALSE
