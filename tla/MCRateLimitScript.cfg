SPECIFICATION Spec
CONSTANTS
    Limit = 3
    WindowSeconds = 2
    TicksPerSecond = 3
    Lag = 0
    MaxClock = 23
INVARIANTS
    TypeOK
    WindowQuota
    NoBurstAtBoundary
    WaitingHelps
CHECK_DEADLOCK FALSE
