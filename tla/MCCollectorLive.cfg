SPECIFICATION FairSpec
CONSTANTS
    MaxMetrics = 2
    BatchSizes = {1}
    MaxErrors = 2
    Requests <- AskOnly
    MaxRequests = 1
    InitBuffer = 0
    MaxStreams = 2
    Mixes <- LiveMixes
    PluginMayThrow = TRUE
    PluginWaits = FALSE
INVARIANTS
    ZeroBufferSendsAtOnce
    MetricsInOrder
    ErrorsInOrder
PROPERTIES
    MetricsDelivered
    ErrorsDelivered
    RequestsDelivered
    CancelReachesPlugin
    CancelledCallEnds
\* A stream may end, or its threads wait, for good.
CHECK_DEADLOCK FALSE
