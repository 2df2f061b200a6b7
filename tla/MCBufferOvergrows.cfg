SPECIFICATION Spec
CONSTANTS
    MaxMetrics = 3
    BatchSizes = {1, 2}
    MaxErrors = 0
    Requests <- LimitsOnly
    MaxRequests = 1
    InitBuffer = 3
    MaxStreams = 1
    Mixes <- AnyMix
    PluginMayThrow = FALSE
    PluginWaits = TRUE
PROPERTIES
    BufferNeverOvergrows
\* A stream may end, or its threads wait, for good.
CHECK_DEADLOCK FALSE
