SPECIFICATION Spec
CONSTANTS
    Keys <- ApplicationsAndGrades
    Staff = TRUE
    Scopes <- OneOrTwo
    Pending = 2
    MaxWrites = 2
    None = None
INVARIANTS
    TypeOK
    OwnWritesShown
PROPERTY ReportedIsShown
PROPERTY PendingEnds
CHECK_DEADLOCK FALSE
