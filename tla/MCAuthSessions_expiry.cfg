\* Two requests of a user at a time; access tokens may outlive refresh tokens and
\* markers, and Redis may evict markers, as the settings allow.
SPECIFICATION Spec
CONSTANTS
    u1 = u1
    r1 = r1
    r2 = r2
    s1 = s1
    s2 = s2
    None = None
    Users = {u1}
    Requests = {r1, r2}
    SessionIds = {s1, s2}
    AccessTTL = 2
    RefreshTTL = 1
    MaxTime = 2
    MaxPassword = 0
    Guarded = {"me", "logout_all"}
    Evictions = TRUE
    KeyCheckedAtOnce = FALSE
SYMMETRY Symmetry
INVARIANTS
    TypeOK
    InvalidatedTokensRefused
