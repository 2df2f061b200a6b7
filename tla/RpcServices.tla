----------------------------- MODULE RpcServices -----------------------------
(***************************************************************************)
(* The four services of rpc/plugin.grpc.pb.cc: the names of their methods, *)
(* what a client's stub makes of a method, and what a service registers    *)
(* for it.  The indices are those of the names, from 1.                    *)
(***************************************************************************)
EXTENDS Naturals, Sequences

Method(name, kind, request, response) ==
    [name |-> name, kind |-> kind, request |-> request, response |-> response]

\* What AddMethod gets: the parser and the serializer are those of the
\* types, and the call goes to the service's function.
Handler(name, kind, request, response, function) ==
    [name |-> name, kind |-> kind, request |-> request, response |-> response,
     function |-> function]

-----------------------------------------------------------------------------

Collector_method_names ==
    <<"CollectMetrics", "GetMetricTypes", "Ping", "Kill", "GetConfigPolicy">>

CollectorStub ==
    [CollectMetrics |-> Method(1, "NORMAL_RPC", "MetricsArg", "MetricsReply"),
     GetMetricTypes |-> Method(2, "NORMAL_RPC", "GetMetricTypesArg", "MetricsReply"),
     Ping |-> Method(3, "NORMAL_RPC", "Empty", "ErrReply"),
     Kill |-> Method(4, "NORMAL_RPC", "KillArg", "ErrReply"),
     GetConfigPolicy |-> Method(5, "NORMAL_RPC", "Empty", "GetConfigPolicyReply")]

CollectorService ==
    {Handler(1, "NORMAL_RPC", "MetricsArg", "MetricsReply", "CollectMetrics"),
     Handler(2, "NORMAL_RPC", "GetMetricTypesArg", "MetricsReply", "GetMetricTypes"),
     Handler(3, "NORMAL_RPC", "Empty", "ErrReply", "Ping"),
     Handler(4, "NORMAL_RPC", "KillArg", "ErrReply", "Kill"),
     Handler(5, "NORMAL_RPC", "Empty", "GetConfigPolicyReply", "GetConfigPolicy")}

-----------------------------------------------------------------------------

Processor_method_names ==
    <<"Process", "Ping", "Kill", "GetConfigPolicy">>

ProcessorStub ==
    [Process |-> Method(1, "NORMAL_RPC", "PubProcArg", "MetricsReply"),
     Ping |-> Method(2, "NORMAL_RPC", "Empty", "ErrReply"),
     Kill |-> Method(3, "NORMAL_RPC", "KillArg", "ErrReply"),
     GetConfigPolicy |-> Method(4, "NORMAL_RPC", "Empty", "GetConfigPolicyReply")]

ProcessorService ==
    {Handler(1, "NORMAL_RPC", "PubProcArg", "MetricsReply", "Process"),
     Handler(2, "NORMAL_RPC", "Empty", "ErrReply", "Ping"),
     Handler(3, "NORMAL_RPC", "KillArg", "ErrReply", "Kill"),
     Handler(4, "NORMAL_RPC", "Empty", "GetConfigPolicyReply", "GetConfigPolicy")}

-----------------------------------------------------------------------------

Publisher_method_names ==
    <<"Publish", "Ping", "Kill", "GetConfigPolicy">>

PublisherStub ==
    [Publish |-> Method(1, "NORMAL_RPC", "PubProcArg", "ErrReply"),
     Ping |-> Method(2, "NORMAL_RPC", "Empty", "ErrReply"),
     Kill |-> Method(3, "NORMAL_RPC", "KillArg", "ErrReply"),
     GetConfigPolicy |-> Method(4, "NORMAL_RPC", "Empty", "GetConfigPolicyReply")]

PublisherService ==
    {Handler(1, "NORMAL_RPC", "PubProcArg", "ErrReply", "Publish"),
     Handler(2, "NORMAL_RPC", "Empty", "ErrReply", "Ping"),
     Handler(3, "NORMAL_RPC", "KillArg", "ErrReply", "Kill"),
     Handler(4, "NORMAL_RPC", "Empty", "GetConfigPolicyReply", "GetConfigPolicy")}

-----------------------------------------------------------------------------

StreamCollector_method_names ==
    <<"StreamMetrics", "GetMetricTypes", "Ping", "Kill", "GetConfigPolicy">>

StreamCollectorStub ==
    [StreamMetrics |-> Method(1, "BIDI_STREAMING", "CollectArg", "CollectReply"),
     GetMetricTypes |-> Method(2, "NORMAL_RPC", "GetMetricTypesArg", "MetricsReply"),
     Ping |-> Method(3, "NORMAL_RPC", "Empty", "ErrReply"),
     Kill |-> Method(4, "NORMAL_RPC", "KillArg", "ErrReply"),
     GetConfigPolicy |-> Method(5, "NORMAL_RPC", "Empty", "GetConfigPolicyReply")]

StreamCollectorService ==
    {Handler(1, "BIDI_STREAMING", "CollectArg", "CollectReply", "StreamMetrics"),
     Handler(2, "NORMAL_RPC", "GetMetricTypesArg", "MetricsReply", "GetMetricTypes"),
     Handler(3, "NORMAL_RPC", "Empty", "ErrReply", "Ping"),
     Handler(4, "NORMAL_RPC", "KillArg", "ErrReply", "Kill"),
     Handler(5, "NORMAL_RPC", "Empty", "GetConfigPolicyReply", "GetConfigPolicy")}

-----------------------------------------------------------------------------
Services == {"Collector", "Processor", "Publisher", "StreamCollector"}

Names ==
    [Collector |-> Collector_method_names, Processor |-> Processor_method_names,
     Publisher |-> Publisher_method_names, StreamCollector |-> StreamCollector_method_names]

Stubs ==
    [Collector |-> CollectorStub, Processor |-> ProcessorStub,
     Publisher |-> PublisherStub, StreamCollector |-> StreamCollectorStub]

Registered ==
    [Collector |-> CollectorService, Processor |-> ProcessorService,
     Publisher |-> PublisherService, StreamCollector |-> StreamCollectorService]

\* The functions that CollectorImpl and its like override: those of the
\* generated services answer UNIMPLEMENTED.
CollectorOverrides == {"CollectMetrics", "GetMetricTypes", "Kill", "GetConfigPolicy", "Ping"}
ProcessorOverrides == {"Process", "Kill", "GetConfigPolicy", "Ping"}
PublisherOverrides == {"Publish", "Kill", "GetConfigPolicy", "Ping"}
StreamCollectorOverrides == {"GetMetricTypes", "Kill", "GetConfigPolicy", "Ping", "StreamMetrics"}

Overrides ==
    [Collector |-> CollectorOverrides, Processor |-> ProcessorOverrides,
     Publisher |-> PublisherOverrides, StreamCollector |-> StreamCollectorOverrides]

\* A method's path is its service and its name.
StubPath(service, method) == <<service, Names[service][Stubs[service][method].name]>>

\* The handlers that the server of a plugin has for a path.
HandlersOf(service, path) ==
    {h \in Registered[service]: /\ path = <<service, Names[service][h.name]>>
                                /\ h.function \in Overrides[service]}
=============================================================================
