SPECIFICATION Spec
CONSTANTS
    Device = {browser, phone}
    Web = {browser}
    NoDevice = NoDevice
    User = {u1}
    Request = {r1, r2}
    NoUser = NoUser
    NoToken = NoToken
    TicksPerSecond = 1
    RefreshTtl = 2
    AccessTtl = 1
    MaxClock = 1
    MaxInserts = 3
SYMMETRY Symmetry
INVARIANTS
    TypeOK
    HoldsLiveToken
    NothingLeftBehind
PROPERTY
    ImplementsSessions
CHECK_DEADLOCK FALSE
