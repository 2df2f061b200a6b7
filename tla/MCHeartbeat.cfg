SPECIFICATION Spec
CONSTANTS
    TicksPerSecond = 4
    PingTimeoutDuration = 3
    PingTimeoutLimit = 3
    MaxTime = 40
CHECK_DEADLOCK FALSE
INVARIANT PingsKeepAlive
