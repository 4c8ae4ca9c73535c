\* Two requests of a user at a time; the steps of a request are fair.
SPECIFICATION FairSpec
CONSTANTS
    u1 = u1
    r1 = r1
    r2 = r2
    s1 = s1
    s2 = s2
    None = None
    Users = {u1}
    Requests = {r1, r2}
    SessionIds = {s1, s2}
    AccessTTL = 1
    RefreshTTL = 1
    MaxTime = 0
    MaxPassword = 1
    Guarded = {"logout_all", "change_password"}
    Evictions = FALSE
    KeyCheckedAtOnce = FALSE
PROPERTIES
    RequestsFinish
