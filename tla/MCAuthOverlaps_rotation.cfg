\* Two requests of a user at a time, three sessions (a token, its successor and
\* a replay or a fork); no time passes.
SPECIFICATION OverlapSpec
CONSTANTS
    u1 = u1
    r1 = r1
    r2 = r2
    s1 = s1
    s2 = s2
    s3 = s3
    None = None
    Users = {u1}
    Requests = {r1, r2}
    SessionIds = {s1, s2, s3}
    AccessTTL = 1
    RefreshTTL = 1
    MaxTime = 0
    MaxPassword = 1
    Guarded = {"logout_all", "change_password"}
    Evictions = FALSE
    KeyCheckedAtOnce = FALSE
SYMMETRY Symmetry
INVARIANTS
    ClosedSessionsStayClosed
    ClosedSessionsMintNothing
    Lineage
    PasswordsMatchButForOverlaps
PROPERTIES
    SurvivorsAreNewer
    ForksOnlyAtStaleRotations
