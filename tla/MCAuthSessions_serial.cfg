\* One request at a time, two users, three sessions; time passes.
SPECIFICATION Spec
CONSTANTS
    u1 = u1
    u2 = u2
    r1 = r1
    s1 = s1
    s2 = s2
    s3 = s3
    None = None
    Users = {u1, u2}
    Requests = {r1}
    SessionIds = {s1, s2, s3}
    AccessTTL = 1
    RefreshTTL = 2
    MaxTime = 1
    MaxPassword = 1
    Guarded = {"me", "logout_all", "change_password"}
    Evictions = FALSE
    KeyCheckedAtOnce = FALSE
SYMMETRY Symmetry
PROPERTIES
    ImplementsLedger
    RequestsStayInAccount
