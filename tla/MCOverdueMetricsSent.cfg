SPECIFICATION FairSpec
CONSTANTS
    MaxMetrics = 1
    BatchSizes = {1}
    MaxErrors = 0
    Requests <- NoRequests
    MaxRequests = 0
    InitBuffer = 2
    MaxStreams = 1
    Mixes <- AnyMix
    PluginMayThrow = FALSE
    PluginWaits = TRUE
PROPERTIES
    OverdueMetricsSent
\* A stream may end, or its threads wait, for good.
CHECK_DEADLOCK FALSE
