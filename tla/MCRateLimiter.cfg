SPECIFICATION FairSpec
CONSTANTS
    Process = {p1}
    Request = {r1, r2}
    p1 = p1
    r1 = r1
    r2 = r2
    Server <- MCServer
    Tenant = Tenant
    Limit = 2
    WindowSeconds = 1
    TicksPerSecond = 2
    Lag = 1
    MaxClock = 3
    MaxCalls = 4
    MaxFaults = 2
INVARIANTS
    TypeOK
    ChargedAsAnswered
    OutageQuota
PROPERTIES
    ImplementsScript
    EveryConsumeAnswered
CHECK_DEADLOCK FALSE
