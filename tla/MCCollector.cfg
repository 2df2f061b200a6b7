SPECIFICATION Spec
CONSTANTS
    MaxMetrics = 2
    BatchSizes = {1, 2}
    MaxErrors = 2
    Requests <- AskAndRaise
    MaxRequests = 2
    InitBuffer = 1
    MaxStreams = 2
    Mixes <- SafeMixes
    PluginMayThrow = TRUE
    PluginWaits = TRUE
INVARIANTS
    CollectorInv
    CancelledBeforeClosed
    MetricsInOrder
    ErrorsInOrder
    RequestsInOrder
PROPERTIES
    BufferNeverOvergrows
    ImplementsReplies
\* A stream may end, or its threads wait, for good.
CHECK_DEADLOCK FALSE
