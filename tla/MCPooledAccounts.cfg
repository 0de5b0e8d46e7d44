SPECIFICATION FairSpec
CONSTANTS
    PoolMax = 2
    Id = {i1}
    Email = {e1}
    Account = {a1}
    Request = {r1, r2, r3}
    NoId = NoId
    NoEmail = NoEmail
    NoAccount = NoAccount
INVARIANTS
    TypeOK
    CompleteAfterDeath
PROPERTIES
    NothingCut
    EveryRequestAnswered
    ShutdownEnds
CHECK_DEADLOCK FALSE
