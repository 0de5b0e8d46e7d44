SPECIFICATION Spec
CONSTANTS
    short1 = short1
    short2 = short2
    long = long
    Tenant <- MCTenant
    Limit <- MCLimit
    WindowSeconds <- MCWindowSeconds
    TicksPerSecond = 2
    MaxClock = 5
INVARIANT
    QuotaOfEveryTenant
CHECK_DEADLOCK FALSE
