SPECIFICATION Spec
CONSTANTS
    Id = {i1, i2}
    Email = {e1, e2}
    Account = {a1, a2}
    Request = {r1, r2}
    NoId = NoId
    NoEmail = NoEmail
    NoAccount = NoAccount
SYMMETRY Symmetry
INVARIANTS
    TypeOK
    UsersComplete
    AloneNeverConflicts
    AnswerIsOwner
PROPERTIES
    LinkFollowsEmail
    ImplementsDirectory
CHECK_DEADLOCK FALSE
