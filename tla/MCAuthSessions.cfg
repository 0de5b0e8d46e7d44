SPECIFICATION Spec
CONSTANTS
    User = {u1, u2}
    Request = {r1, r2}
    NoUser = NoUser
    NoToken = NoToken
    TicksPerSecond = 2
    RefreshTtl = 2
    AccessTtl = 1
    MaxClock = 5
    MaxInserts = 3
INVARIANTS
    TypeOK
    SubjectOwnsRow
    RowOutlivesToken
PROPERTIES
    RevokedTokenStaysRevoked
    OnlyOwnerRemoves
    ImplementsChains
    RotationKeepsOneSession
SYMMETRY Symmetry
CHECK_DEADLOCK FALSE
