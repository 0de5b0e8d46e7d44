SPECIFICATION Spec
CONSTANTS
    short1 = short1
    short2 = short2
    long = long
    Tenant <- MCTenant
    Limit <- MCLimit
    WindowSeconds <- MCWindowSeconds
    TicksPerSecond = 2
    MaxClock = 6
INVARIANTS
    TypeOK
    QuotaKept
    RetryHonoured
CHECK_DEADLOCK FALSE
