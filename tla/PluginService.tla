---------------------------- MODULE PluginService ----------------------------
(***************************************************************************)
(* The unary handlers of CollectorImpl, ProcessorImpl, PublisherImpl and   *)
(* StreamCollectorImpl (proxy/), each run by a thread of the gRPC server:  *)
(* the plugin's method is called, and its metrics are copied to the reply  *)
(* or its PluginException is put there.                                    *)
(***************************************************************************)
EXTENDS Naturals, Sequences

CONSTANTS Handlers,  \* the threads of the server
          Metrics,
          Results,   \* what the plugin may answer, sequences of metrics
          Idle       \* no call

ASSUME ResultsAssumption == Results \subseteq Seq(Metrics)

VARIABLE call        \* call[h]: the call that h handles, or Idle

Types == {"collector", "processor", "publisher", "stream_collector"}

MetricOps == {"CollectMetrics", "GetMetricTypes", "Process"}
Ops == MetricOps \cup {"Publish", "GetConfigPolicy", "Ping", "Kill"}

\* StreamMetrics, the fourth call of a stream collector, is StreamCollector.
OpsOf(type) ==
    {"GetConfigPolicy", "Ping", "Kill"} \cup
        CASE type = "collector"        -> {"CollectMetrics", "GetMetricTypes"}
          [] type = "processor"        -> {"Process"}
          [] type = "publisher"        -> {"Publish"}
          [] type = "stream_collector" -> {"GetMetricTypes"}

\* What becomes of a metric of the plugin: GetMetricTypes gives its copy the
\* time it is advertised.
Replied(op, met) == [met |-> met, stamped |-> op = "GetMetricTypes"]

-----------------------------------------------------------------------------
At(h, place) == call[h] # Idle /\ call[h].at = place

Handle(h, c) == call' = [call EXCEPT ![h] = c]

\* Forms of definitions below that plausible slips would have given.
FillsShort(h) ==
    LET c == call[h]
        n == Len(c.metrics)
    IN  /\ At(h, "fill")
        /\ Handle(h, IF n + 1 >= Len(c.result)
                     THEN [c EXCEPT !.status = "OK", !.at = "done"]
                     ELSE [c EXCEPT !.metrics =
                               Append(c.metrics, Replied(c.op, c.result[n + 1]))])

ThrowsOn(h) ==
    /\ At(h, "plugin")
    /\ Handle(h, [call[h] EXCEPT !.error = TRUE, !.at = "fill"])

\* Ping notes the time and Kill does nothing: both answer at once.
Receive(h, op) ==
    LET asks == op \notin {"Ping", "Kill"}
    IN  /\ call[h] = Idle
        /\ Handle(h, [op |-> op, at |-> IF asks THEN "plugin" ELSE "done",
                      result |-> <<>>, metrics |-> <<>>, error |-> FALSE,
                      status |-> IF asks THEN "none" ELSE "OK"])

\* The plugin returns the metrics asked for, or has done what it was asked.
PluginAnswers(h, result) ==
    /\ At(h, "plugin") /\ call[h].op \in MetricOps
    /\ Handle(h, [call[h] EXCEPT !.result = result, !.at = "fill"])

PluginDoes(h) ==
    /\ At(h, "plugin") /\ call[h].op \notin MetricOps
    /\ Handle(h, [call[h] EXCEPT !.status = "OK", !.at = "done"])

\* catch (PluginException &e): set_error and the status.
PluginThrows(h) ==
    /\ At(h, "plugin")
    /\ Handle(h, [call[h] EXCEPT !.error = TRUE, !.status = "UNKNOWN", !.at = "done"])

\* *resp->add_metrics() = *met.get_rpc_metric_ptr(), for each in turn.
Fill(h) ==
    LET c == call[h]
        n == Len(c.metrics)
    IN  /\ At(h, "fill")
        /\ Handle(h, IF n = Len(c.result)
                     THEN [c EXCEPT !.status = "OK", !.at = "done"]
                     ELSE [c EXCEPT !.metrics =
                               Append(c.metrics, Replied(c.op, c.result[n + 1]))])

Reply(h) == At(h, "done") /\ Handle(h, Idle)

NoCalls == call = [h \in Handlers |-> Idle]

Serve(type) ==
    \E h \in Handlers:
        \/ \E op \in OpsOf(type): Receive(h, op)
        \/ \E r \in Results: PluginAnswers(h, r)
        \/ PluginDoes(h) \/ PluginThrows(h) \/ Fill(h) \/ Reply(h)

-----------------------------------------------------------------------------
Calls == [op: Ops, at: {"plugin", "fill", "done"}, result: Seq(Metrics),
          metrics: Seq([met: Metrics, stamped: BOOLEAN]),
          error: BOOLEAN, status: {"none", "OK", "UNKNOWN"}]

Filled(c, n) ==
    c.metrics = [i \in 1..n |-> Replied(c.op, c.result[i])]

Whole(c) ==
    \/ c.status = "OK" /\ ~c.error /\ Filled(c, Len(c.result))
    \/ c.status = "UNKNOWN" /\ c.error /\ c.metrics = <<>>

CallInStep(c) ==
    \/ c.at = "plugin" /\ c.status = "none" /\ ~c.error /\ c.metrics = <<>> /\ c.result = <<>>
    \/ /\ c.at = "fill" /\ c.status = "none" /\ ~c.error
       /\ \E n \in 0..Len(c.result): Filled(c, n)
    \/ c.at = "done" /\ Whole(c)

CallsInStep == \A h \in Handlers: call[h] # Idle => CallInStep(call[h])

\* A reply is whole when it leaves: with status OK it has no error and all
\* the metrics of the plugin in their order, each with a time if types were
\* asked for; otherwise it has the error and none of the metrics.
RepliesWhole == \A h \in Handlers: At(h, "done") => Whole(call[h])
=============================================================================
