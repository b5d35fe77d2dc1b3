SPECIFICATION Spec
CONSTANTS
    Browsers = {b1, b2}
    Requests = {c1, c2}
    Challenges = {k1}
    Ops = {"login", "refresh", "poll", "logout", "password", "reset", "approve", "deny", "tfa", "ban", "unban"}
    Admin = TRUE
    AccessTTL = 1
    RefreshTTL = 3
    MaxTime = 4
    MaxPairs = 2
    MaxChanges = 1
    MaxRequests = 4
    Faults = {"Register", "Version", "Revoke", "BanKey"}
INVARIANTS
    TypeOK
    SingleUse
    OldPasswordIsOut
    BannedIsOut
PROPERTIES
    EndedStaysEnded
SYMMETRY Symmetry
CHECK_DEADLOCK FALSE
