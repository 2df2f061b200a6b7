--------------------------- MODULE RpcCallMessages ----------------------------
(***************************************************************************)
(* The messages of rpc/plugin.pb.h and plugin.pb.cc that calls take and    *)
(* return, laid out as in RpcMetricMessages.                               *)
(***************************************************************************)
EXTENDS RpcFields

-----------------------------------------------------------------------------
CollectArgMembers ==
    {Message("metrics_arg", "MetricsArg"),
     Value("maxcollectduration", "int64"), Value("maxmetricsbuffer", "int64"),
     Value("other", "text")}

CollectArgNew ==
    [metrics_arg |-> <<>>, maxcollectduration |-> 0, maxmetricsbuffer |-> 0,
     other |-> ""]

CollectArgCleared ==
    {"metrics_arg", "maxcollectduration", "maxmetricsbuffer", "other"}

CollectArgReads ==
    {<<10, Message("metrics_arg", "MetricsArg")>>,
     <<16, Value("maxcollectduration", "int64")>>,
     <<24, Value("maxmetricsbuffer", "int64")>>,
     <<34, Value("other", "bytes")>>}

CollectArgWrites ==
    << <<1, Message("metrics_arg", "MetricsArg")>>,
       <<2, Value("maxcollectduration", "int64")>>,
       <<3, Value("maxmetricsbuffer", "int64")>>,
       <<4, Value("other", "bytes")>> >>

CollectArgSizes ==
    {<<1, Message("metrics_arg", "MetricsArg")>>,
     <<1, Value("maxcollectduration", "int64")>>,
     <<1, Value("maxmetricsbuffer", "int64")>>, <<1, Value("other", "bytes")>>}

CollectArgMerges ==
    {Message("metrics_arg", "MetricsArg"),
     Value("maxcollectduration", "int64"), Value("maxmetricsbuffer", "int64"),
     Value("other", "text")}

-----------------------------------------------------------------------------
CollectReplyMembers ==
    {Message("metrics_reply", "MetricsReply"), Message("error", "ErrReply")}

CollectReplyNew == [metrics_reply |-> <<>>, error |-> <<>>]

CollectReplyCleared ==
    {"metrics_reply", "error"}

CollectReplyReads ==
    {<<10, Message("metrics_reply", "MetricsReply")>>,
     <<18, Message("error", "ErrReply")>>}

CollectReplyWrites ==
    << <<1, Message("metrics_reply", "MetricsReply")>>,
       <<2, Message("error", "ErrReply")>> >>

CollectReplySizes ==
    {<<1, Message("metrics_reply", "MetricsReply")>>,
     <<1, Message("error", "ErrReply")>>}

CollectReplyMerges ==
    {Message("metrics_reply", "MetricsReply"), Message("error", "ErrReply")}

-----------------------------------------------------------------------------
EmptyMembers == {}

EmptyNew == <<>>

EmptyCleared == {}

EmptyReads == {}

EmptyWrites == <<>>

EmptySizes == {}

EmptyMerges == {}

-----------------------------------------------------------------------------
ErrReplyMembers ==
    {Value("error", "text")}

ErrReplyNew == [error |-> ""]

ErrReplyCleared ==
    {"error"}

ErrReplyReads ==
    {<<10, Value("error", "string")>>}

ErrReplyWrites ==
    << <<1, Value("error", "string")>> >>

ErrReplySizes ==
    {<<1, Value("error", "string")>>}

ErrReplyMerges ==
    {Value("error", "text")}

-----------------------------------------------------------------------------
PubProcArgMembers ==
    {Repeated("metrics", "Metric"), Message("config", "ConfigMap")}

PubProcArgNew == [metrics |-> <<>>, config |-> <<>>]

PubProcArgCleared ==
    {"metrics", "config"}

PubProcArgReads ==
    {<<10, Repeated("metrics", "Metric")>>,
     <<18, Message("config", "ConfigMap")>>}

PubProcArgWrites ==
    << <<1, Repeated("metrics", "Metric")>>,
       <<2, Message("config", "ConfigMap")>> >>

PubProcArgSizes ==
    {<<1, Message("config", "ConfigMap")>>,
     <<1, Repeated("metrics", "Metric")>>}

PubProcArgMerges ==
    {Repeated("metrics", "Metric"), Message("config", "ConfigMap")}

-----------------------------------------------------------------------------
KillArgMembers ==
    {Value("reason", "text")}

KillArgNew == [reason |-> ""]

KillArgCleared ==
    {"reason"}

KillArgReads ==
    {<<10, Value("reason", "string")>>}

KillArgWrites ==
    << <<1, Value("reason", "string")>> >>

KillArgSizes ==
    {<<1, Value("reason", "string")>>}

KillArgMerges ==
    {Value("reason", "text")}

-----------------------------------------------------------------------------
MetricsArgMembers ==
    {Repeated("metrics", "Metric")}

MetricsArgNew == [metrics |-> <<>>]

MetricsArgCleared ==
    {"metrics"}

MetricsArgReads ==
    {<<10, Repeated("metrics", "Metric")>>}

MetricsArgWrites ==
    << <<1, Repeated("metrics", "Metric")>> >>

MetricsArgSizes ==
    {<<1, Repeated("metrics", "Metric")>>}

MetricsArgMerges ==
    {Repeated("metrics", "Metric")}

-----------------------------------------------------------------------------
MetricsReplyMembers ==
    {Repeated("metrics", "Metric"), Value("error", "text")}

MetricsReplyNew == [metrics |-> <<>>, error |-> ""]

MetricsReplyCleared ==
    {"metrics", "error"}

MetricsReplyReads ==
    {<<10, Repeated("metrics", "Metric")>>, <<18, Value("error", "string")>>}

MetricsReplyWrites ==
    << <<1, Repeated("metrics", "Metric")>>, <<2, Value("error", "string")>> >>

MetricsReplySizes ==
    {<<1, Value("error", "string")>>, <<1, Repeated("metrics", "Metric")>>}

MetricsReplyMerges ==
    {Repeated("metrics", "Metric"), Value("error", "text")}

-----------------------------------------------------------------------------
GetMetricTypesArgMembers ==
    {Message("config", "ConfigMap")}

GetMetricTypesArgNew == [config |-> <<>>]

GetMetricTypesArgCleared ==
    {"config"}

GetMetricTypesArgReads ==
    {<<10, Message("config", "ConfigMap")>>}

GetMetricTypesArgWrites ==
    << <<1, Message("config", "ConfigMap")>> >>

GetMetricTypesArgSizes ==
    {<<1, Message("config", "ConfigMap")>>}

GetMetricTypesArgMerges ==
    {Message("config", "ConfigMap")}

=============================================================================
