SPECIFICATION Spec
CONSTANTS
    Tabs = {t1, t2}
    Calls = {c1, c2}
    Users = {u1, u2}
    None = None
    Layouts <- OneTabOrAllTabs
    MaxSessions = 3
INVARIANTS
    TypeOK
    IdentityMatches
PROPERTIES
    HonestReplays
    SignOutClosesSession
CHECK_DEADLOCK FALSE
SYMMETRY Interchangeable
