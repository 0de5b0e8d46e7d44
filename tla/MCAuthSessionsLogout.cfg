SPECIFICATION Spec
CONSTANTS
    User = {u1}
    Request = {r1, r2}
    NoUser = NoUser
    NoToken = NoToken
    TicksPerSecond = 1
    RefreshTtl = 2
    AccessTtl = 1
    MaxClock = 1
    MaxInserts = 4
PROPERTY
    RevokedLoginStaysRevoked
CHECK_DEADLOCK FALSE
