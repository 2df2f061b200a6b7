SPECIFICATION FairSpec
CONSTANTS
    MaxMetrics = 0
    BatchSizes = {}
    MaxErrors = 0
    Requests <- NoRequests
    MaxRequests = 0
    InitBuffer = 0
    MaxStreams = 1
    Mixes <- AnyMix
    PluginMayThrow = TRUE
    PluginWaits = TRUE
PROPERTIES
    ExceptionReported
\* A stream may end, or its threads wait, for good.
CHECK_DEADLOCK FALSE
