\* Login after logging out everywhere.
SPECIFICATION Spec
CONSTANTS
    u1 = u1
    r1 = r1
    s1 = s1
    s2 = s2
    None = None
    Users = {u1}
    Requests = {r1}
    SessionIds = {s1, s2}
    AccessTTL = 1
    RefreshTTL = 2
    MaxTime = 0
    MaxPassword = 1
    Guarded = {"me", "logout_all", "change_password"}
    Evictions = FALSE
    KeyCheckedAtOnce = FALSE
SYMMETRY Symmetry
PROPERTIES
    LoginIsUsable
