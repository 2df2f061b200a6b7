-------------------------- MODULE StreamCollector ---------------------------
(***************************************************************************)
(* Plugin::Proxy::StreamCollectorImpl: the handler of the StreamMetrics    *)
(* RPC, the four threads it starts and joins, and the three channels they  *)
(* share.                                                                  *)
(*                                                                         *)
(*   plugin --flag--> doPuts --sendChan--> metricSend --Write--> Snap      *)
(*   plugin --flag--> doPuts --errChan---> errorSend  --Write--> Snap      *)
(*   Snap --Read--> streamRecv --recvChan--> doPuts --callback--> plugin   *)
(*                                                                         *)
(* The channels are those of ChannelOps, with atomic operations: that is   *)
(* what StreamChannel is shown to implement.  The plugin, Snap, gRPC and   *)
(* the clock are the environment.  Metrics, errors and requests are their  *)
(* numbers, given in the order they are made.                              *)
(***************************************************************************)
EXTENDS ChannelOps, Naturals

CONSTANTS MaxMetrics,     \* bound: how many metrics the plugin produces
          BatchSizes,     \* how many it hands over at a time
          MaxErrors,      \* bound: how many errors the plugin raises
          Requests,       \* the CollectArgs Snap may send
          MaxRequests,    \* bound: how many of them it sends
          InitBuffer,     \* GetMaxMetricsBuffer() of the plugin
          MaxStreams,     \* bound: how many times StreamMetrics is called
          Mixes,          \* bound: how many of each there may be together
          PluginMayThrow, \* whether the plugin's methods throw PluginException
          PluginWaits     \* whether the plugin raises a flag only when it is down

ASSUME BoundsAssumption ==
    /\ {MaxMetrics, MaxErrors, MaxRequests, InitBuffer, MaxStreams} \subseteq Nat
    /\ BatchSizes \subseteq Nat
    /\ PluginMayThrow \in BOOLEAN /\ PluginWaits \in BOOLEAN

\* maxmetricsbuffer() and has_metrics_arg(); a duration above zero sets the other limit.
ASSUME RequestsAssumption ==
    Requests \subseteq [buffer: Nat, setsDuration: BOOLEAN, hasMetrics: BOOLEAN]

VARIABLES
    handler,       \* where StreamMetrics is
    pc,            \* where its threads are
    streams,       \* how many times StreamMetrics has been called
    cancelled,     \* context->IsCancelled()
    reads,         \* how many CollectArgs have been read
    sendChan, errChan, recvChan,
    plugin,        \* what the plugin shows through its accessors
    metricsReply,  \* _metrics_reply: the buffer of metrics
    errReply,      \* _err_reply
    maxBuffer,     \* _max_metrics_buffer
    overdue,       \* now() - start >= _max_collect_duration
    batch,         \* metricSend: what is left of send_mets
    arg,           \* streamRecv: the metrics of collectMets
    recvMets,      \* doPuts: recv_mets
    wire,          \* the metrics and the errors written to Snap
    hist           \* history: what passed the points where nothing may be lost

chans == <<sendChan, errChan, recvChan>>
buffers == <<metricsReply, errReply, maxBuffer, overdue>>
locals == <<batch, arg, recvMets>>
environment == <<handler, streams, cancelled>>
vars == <<environment, pc, reads, chans, plugin, buffers, locals, wire, hist>>

NoError == 0
Threads == {"metricSend", "errorSend", "streamRecv", "doPuts"}

Go(t, place) == pc' = [pc EXCEPT ![t] = place]
Remember(k, v) == hist' = [hist EXCEPT ![k] = Append(@, v)]

\* A stream that is full of metrics need not be full of errors as well.
WithinMix ==
    \E mix \in Mixes:
        /\ Len(hist.made) <= mix.metrics /\ Len(hist.raised) <= mix.errors
        /\ reads <= mix.requests /\ streams <= mix.streams

\* A batch, or an error, that doPuts has not put yet disappears when the plugin
\* shows the next one, and when the flag is lowered that was up before it came.
AllButLast(s) == SubSeq(s, 1, Len(s) - 1)
BatchesUnhidden ==
    IF hist.newBatch THEN AllButLast(hist.keptBatches) ELSE hist.keptBatches
ErrorsUnhidden ==
    IF hist.newError THEN AllButLast(hist.keptErrors) ELSE hist.keptErrors

(***************************************************************************)
(* stream->Write(_collect_reply): both fields of the reply go, as they are *)
(* at that time, whichever thread writes it.  Nobody looks at the result:  *)
(* what is written after a cancellation is lost with the call.             *)
(***************************************************************************)
Write ==
    wire' = [mets |-> wire.mets \o metricsReply,
             errs |-> IF errReply = NoError THEN wire.errs
                      ELSE Append(wire.errs, errReply)]

\* sendReply: nothing is written while there are no metrics.
SendReply ==
    IF metricsReply = <<>> THEN UNCHANGED <<wire, hist>>
    ELSE Write /\ hist' = [hist EXCEPT !.sent = @ \o metricsReply]

(***************************************************************************)
(* Forms of definitions below that a plausible slip would have given: the  *)
(* checks are shown to tell them from the real ones.                       *)
(***************************************************************************)
RunsWhileStreaming == handler = "streaming" /\ ~cancelled
WritesBeforeGet == [metricSend |-> "get", errorSend |-> "write",
                    streamRecv |-> "read", doPuts |-> "mets"]
FullPastMax(reply) == Len(reply) > maxBuffer
NeverAtOnce == FALSE
KeepsBuffer == metricsReply
ReadNeverFails == FALSE

-----------------------------------------------------------------------------
(***************************************************************************)
(* The loops: while (!context->IsCancelled()) { ... } and what follows.    *)
(***************************************************************************)
KeepRunning == ~cancelled

FirstPlace == [metricSend |-> "get", errorSend |-> "get",
               streamRecv |-> "read", doPuts |-> "mets"]

Enter(t) ==
    /\ pc[t] = "check"
    /\ KeepRunning
    /\ Go(t, FirstPlace[t])
    /\ UNCHANGED <<environment, reads, chans, plugin, buffers, locals, wire, hist>>

\* Each thread but doPuts closes the channel that is its own.
Leave(t) ==
    /\ pc[t] = "check"
    /\ ~KeepRunning
    /\ sendChan' = IF t = "metricSend" THEN Closed(sendChan) ELSE sendChan
    /\ errChan' = IF t = "errorSend" THEN Closed(errChan) ELSE errChan
    /\ recvChan' = IF t = "streamRecv" THEN Closed(recvChan) ELSE recvChan
    /\ Go(t, "tell")
    /\ UNCHANGED <<environment, reads, plugin, buffers, locals, wire, hist>>

\* set_context_cancelled(true)
Tell(t) ==
    /\ pc[t] = "tell"
    /\ plugin' = [plugin EXCEPT !.cancelled = TRUE]
    /\ Go(t, "done")
    /\ UNCHANGED <<environment, reads, chans, buffers, locals, wire, hist>>

\* It throws: the threads with a catch clause return false, doPuts has none.
TellThrows(t) ==
    /\ PluginMayThrow
    /\ pc[t] = "tell"
    /\ plugin' = [plugin EXCEPT !.refused = TRUE]
    /\ Go(t, IF t = "doPuts" THEN "threw" ELSE "done")
    /\ UNCHANGED <<environment, reads, chans, buffers, locals, wire, hist>>

-----------------------------------------------------------------------------
(***************************************************************************)
(* metricSend                                                              *)
(***************************************************************************)
\* get(send_mets): false only when the channel is closed and empty.
SendGets ==
    /\ pc["metricSend"] = "get"
    /\ ReadyToGet(sendChan)
    /\ IF IsEmpty(sendChan)
       THEN /\ Go("metricSend", "due")
            /\ UNCHANGED <<sendChan, batch, hist>>
       ELSE /\ batch' = Front(sendChan)
            /\ sendChan' = Popped(sendChan)
            /\ hist' = [hist EXCEPT !.taken = Append(@, Front(sendChan)),
                                    !.unpacked = @ \o Front(sendChan)]
            /\ Go("metricSend", IF Front(sendChan) = <<>> THEN "due" ELSE "add")
    /\ UNCHANGED <<environment, reads, errChan, recvChan, plugin, buffers,
                   arg, recvMets, wire>>

\* Is the buffer to be sent now that a metric was added?  (==, not >=)
BufferFull(reply) == Len(reply) = maxBuffer

AddMetric ==
    /\ pc["metricSend"] = "add"
    /\ metricsReply' = Append(metricsReply, Head(batch))
    /\ batch' = Tail(batch)
    /\ Go("metricSend", IF BufferFull(metricsReply') THEN "write_full"
                        ELSE IF batch' = <<>> THEN "batch_done" ELSE "add")
    /\ UNCHANGED <<environment, reads, chans, plugin, errReply, maxBuffer, overdue,
                   arg, recvMets, wire, hist>>

WriteFull ==
    /\ pc["metricSend"] = "write_full"
    /\ SendReply
    /\ Go("metricSend", "clear_full")
    /\ UNCHANGED <<environment, reads, chans, plugin, buffers, locals>>

\* The batch is in the buffer; without a buffer size it is sent at once.
SendAtOnce == maxBuffer = 0

BatchDone ==
    /\ pc["metricSend"] = "batch_done"
    /\ IF SendAtOnce
       THEN SendReply /\ Go("metricSend", "clear_batch")
       ELSE Go("metricSend", "due") /\ UNCHANGED <<wire, hist>>
    /\ UNCHANGED <<environment, reads, chans, plugin, buffers, locals>>

DurationTest ==
    /\ pc["metricSend"] = "due"
    /\ IF overdue
       THEN SendReply /\ Go("metricSend", "clear_due")
       ELSE Go("metricSend", "check") /\ UNCHANGED <<wire, hist>>
    /\ UNCHANGED <<environment, reads, chans, plugin, buffers, locals>>

\* clear_metrics(); start = now(): the same after each of the three sendReply.
AfterClear(place) ==
    CASE place = "clear_full" -> IF batch = <<>> THEN "batch_done" ELSE "add"
      [] place = "clear_batch" -> "due"
      [] place = "clear_due" -> "check"

EmptyBuffer == <<>>

Clear ==
    /\ pc["metricSend"] \in {"clear_full", "clear_batch", "clear_due"}
    /\ metricsReply' = EmptyBuffer
    /\ overdue' = FALSE
    /\ Go("metricSend", AfterClear(pc["metricSend"]))
    /\ UNCHANGED <<environment, reads, chans, plugin, errReply, maxBuffer, locals,
                   wire, hist>>

MetricSend == SendGets \/ AddMetric \/ WriteFull \/ BatchDone \/ DurationTest \/ Clear

-----------------------------------------------------------------------------
(***************************************************************************)
(* errorSend                                                               *)
(***************************************************************************)
ErrGets ==
    /\ pc["errorSend"] = "get"
    /\ ReadyToGet(errChan)
    /\ IF IsEmpty(errChan)
       THEN Go("errorSend", "check") /\ UNCHANGED <<errChan, errReply>>
       ELSE /\ errReply' = Front(errChan)
            /\ errChan' = Popped(errChan)
            /\ Go("errorSend", "write")
    /\ UNCHANGED <<environment, reads, sendChan, recvChan, plugin, metricsReply,
                   maxBuffer, overdue, locals, wire, hist>>

ErrWrites ==
    /\ pc["errorSend"] = "write"
    /\ Write
    /\ Remember("reported", errReply)
    /\ Go("errorSend", "check")
    /\ UNCHANGED <<environment, reads, chans, plugin, buffers, locals>>

ErrorSend == ErrGets \/ ErrWrites

-----------------------------------------------------------------------------
(***************************************************************************)
(* streamRecv                                                              *)
(***************************************************************************)
\* Read returns a CollectArg; Snap sends one when it likes.
RecvReads(r) ==
    /\ pc["streamRecv"] = "read"
    /\ reads < MaxRequests
    /\ reads' = reads + 1
    /\ maxBuffer' = IF r.buffer > 0 THEN r.buffer ELSE maxBuffer
    /\ overdue' \in IF r.setsDuration THEN BOOLEAN ELSE {overdue}
    /\ IF r.hasMetrics
       THEN /\ arg' = reads'
            /\ Remember("asked", reads')
            /\ Go("streamRecv", "put")
       ELSE Go("streamRecv", "check") /\ UNCHANGED <<arg, hist>>
    /\ UNCHANGED <<environment, chans, plugin, metricsReply, errReply, batch,
                   recvMets, wire>>
    /\ WithinMix'

\* Read fails once the call is cancelled; its result is not looked at, and the
\* CollectArg it leaves empty changes nothing.
RecvReadFails ==
    /\ pc["streamRecv"] = "read"
    /\ cancelled
    /\ Go("streamRecv", "check")
    /\ UNCHANGED <<environment, reads, chans, plugin, buffers, locals, wire, hist>>

\* put throws std::logic_error on a closed channel: the thread ends there,
\* since only PluginException is caught, and the future keeps the exception.
RecvPuts ==
    /\ pc["streamRecv"] = "put"
    /\ IF recvChan.closed
       THEN Go("streamRecv", "threw") /\ UNCHANGED recvChan
       ELSE recvChan' = Pushed(recvChan, arg) /\ Go("streamRecv", "check")
    /\ UNCHANGED <<environment, reads, sendChan, errChan, plugin, buffers, locals,
                   wire, hist>>

-----------------------------------------------------------------------------
(***************************************************************************)
(* PutSendMetsAndErrMsg (doPuts).  The channels may be closed between the  *)
(* test of IsCancelled and the puts.                                       *)
(***************************************************************************)
PutsMets ==
    /\ pc["doPuts"] = "mets"
    /\ IF ~plugin.putMets
       THEN Go("doPuts", "errs") /\ UNCHANGED <<sendChan, hist>>
       ELSE IF sendChan.closed
            THEN Go("doPuts", "threw") /\ UNCHANGED <<sendChan, hist>>
            ELSE /\ sendChan' = Pushed(sendChan, plugin.metsOut)
                 /\ hist' = [hist EXCEPT !.newBatch = FALSE]
                 /\ Go("doPuts", "clear_mets")
    /\ UNCHANGED <<environment, reads, errChan, recvChan, plugin, buffers, locals, wire>>

\* The flag is not lowered.
MetsFlagStays ==
    /\ pc["doPuts"] = "clear_mets"
    /\ Go("doPuts", "errs")
    /\ UNCHANGED <<environment, reads, chans, plugin, buffers, locals, wire, hist>>

\* set_put_mets(false), whatever the plugin has shown since put_metrics_out().
ClearsMets ==
    /\ pc["doPuts"] = "clear_mets"
    /\ plugin' = [plugin EXCEPT !.putMets = FALSE]
    /\ hist' = [hist EXCEPT !.newBatch = FALSE, !.keptBatches = BatchesUnhidden]
    /\ Go("doPuts", "errs")
    /\ UNCHANGED <<environment, reads, chans, buffers, locals, wire>>

PutsErr ==
    /\ pc["doPuts"] = "errs"
    /\ IF ~plugin.putErr
       THEN Go("doPuts", "recv") /\ UNCHANGED <<errChan, hist>>
       ELSE IF errChan.closed
            THEN Go("doPuts", "threw") /\ UNCHANGED <<errChan, hist>>
            ELSE /\ errChan' = Pushed(errChan, plugin.errMsg)
                 /\ hist' = [hist EXCEPT !.newError = FALSE]
                 /\ Go("doPuts", "clear_err")
    /\ UNCHANGED <<environment, reads, sendChan, recvChan, plugin, buffers, locals, wire>>

\* The same of set_put_err.
ErrFlagStays ==
    /\ pc["doPuts"] = "clear_err"
    /\ Go("doPuts", "recv")
    /\ UNCHANGED <<environment, reads, chans, plugin, buffers, locals, wire, hist>>

\* set_put_err(false)
ClearsErr ==
    /\ pc["doPuts"] = "clear_err"
    /\ plugin' = [plugin EXCEPT !.putErr = FALSE]
    /\ hist' = [hist EXCEPT !.newError = FALSE, !.keptErrors = ErrorsUnhidden]
    /\ Go("doPuts", "recv")
    /\ UNCHANGED <<environment, reads, chans, buffers, locals, wire>>

\* get(recv_mets, false) appends to recv_mets, which nothing ever empties, and
\* get_metrics_in hands all of it to the plugin.
LosesItem(mets, item) == mets
HandsNewest(mets, item) == <<item>>
HandsOver(mets, item) == Append(mets, item)

PutsRecv ==
    /\ pc["doPuts"] = "recv"
    /\ IF IsEmpty(recvChan)
       THEN UNCHANGED <<recvChan, recvMets, plugin>>
       ELSE /\ recvMets' = HandsOver(recvMets, Front(recvChan))
            /\ recvChan' = Popped(recvChan)
            /\ plugin' = [plugin EXCEPT !.metsIn = recvMets']
    /\ Go("doPuts", "check")
    /\ UNCHANGED <<environment, reads, sendChan, errChan, buffers, batch, arg, wire,
                   hist>>

\* An exception of the plugin in one of its accessors ends the thread: in
\* put_mets, put_metrics_out, put_err or put_err_msg nothing has been put yet;
\* in set_put_mets or set_put_err it has, and the flag stays up.
PutsCallbackThrows ==
    /\ PluginMayThrow
    /\ pc["doPuts"] \in {"mets", "clear_mets", "errs", "clear_err"}
    /\ Go("doPuts", "threw")
    /\ UNCHANGED <<environment, reads, chans, plugin, buffers, locals, wire, hist>>

\* In get_metrics_in the request has left the channel.
PutsRecvThrows ==
    /\ PluginMayThrow
    /\ pc["doPuts"] = "recv" /\ ~IsEmpty(recvChan)
    /\ recvMets' = HandsOver(recvMets, Front(recvChan))
    /\ recvChan' = Popped(recvChan)
    /\ Go("doPuts", "threw")
    /\ UNCHANGED <<environment, reads, sendChan, errChan, plugin, buffers, batch, arg,
                   wire, hist>>

DoPuts == PutsMets \/ ClearsMets \/ PutsErr \/ ClearsErr \/ PutsRecv

-----------------------------------------------------------------------------
(***************************************************************************)
(* The handler, and what surrounds it.                                     *)
(***************************************************************************)
\* StreamMetrics starts its threads.  The object outlives the call: channels,
\* buffers and limits are as the previous stream left them.
StartStream ==
    /\ handler \in {"idle", "ok", "error"}
    /\ streams < MaxStreams
    /\ streams' = streams + 1
    /\ handler' = "streaming"
    /\ cancelled' = FALSE
    /\ pc' = [t \in Threads |-> "check"]
    /\ overdue' = FALSE
    /\ batch' = <<>>
    /\ recvMets' = <<>>
    /\ hist' = [hist EXCEPT !.asked = recvChan.queue]
    /\ UNCHANGED <<reads, chans, plugin, metricsReply, errReply, maxBuffer, arg, wire>>
    /\ WithinMix'

\* stream_metrics() of the plugin returns, or throws PluginException.
PluginReturns ==
    /\ handler = "streaming"
    /\ handler' = "returned"
    /\ UNCHANGED <<streams, cancelled, pc, reads, chans, plugin, buffers, locals,
                   wire, hist>>

PluginThrows ==
    /\ PluginMayThrow
    /\ handler = "streaming"
    /\ handler' = "thrown"
    /\ UNCHANGED <<streams, cancelled, pc, reads, chans, plugin, buffers, locals,
                   wire, hist>>

\* The destructors of the four futures wait for the threads, in both cases
\* before the status is returned.
Joined == \A t \in Threads: pc[t] \in {"done", "threw"}

HandlerEnds ==
    /\ handler \in {"returned", "thrown"}
    /\ Joined
    /\ handler' = IF handler = "returned" THEN "ok" ELSE "error"
    /\ UNCHANGED <<streams, cancelled, pc, reads, chans, plugin, buffers, locals,
                   wire, hist>>

\* The plugin shows a batch: when it likes, or, if it waits, once the flag of
\* the previous one is down again.  plugin.h asks for neither; the plugin of
\* examples/streaming-collector waits.
PluginProduces(n) ==
    LET made == Len(hist.made)
        b == [i \in 1..n |-> made + i]
    IN  /\ handler = "streaming"
        /\ PluginWaits => ~plugin.putMets
        /\ made + n <= MaxMetrics
        /\ plugin' = [plugin EXCEPT !.putMets = TRUE, !.metsOut = b]
        /\ hist' = [hist EXCEPT !.made = @ \o b, !.batches = Append(@, b),
                                !.keptBatches = Append(BatchesUnhidden, b),
                                !.newBatch = TRUE]
        /\ UNCHANGED <<environment, pc, reads, chans, buffers, locals, wire>>
        /\ WithinMix'

PluginRaises ==
    LET e == Len(hist.raised) + 1
    IN  /\ handler = "streaming"
        /\ PluginWaits => ~plugin.putErr
        /\ e <= MaxErrors
        /\ plugin' = [plugin EXCEPT !.putErr = TRUE, !.errMsg = e]
        /\ hist' = [hist EXCEPT !.raised = Append(@, e),
                                !.keptErrors = Append(ErrorsUnhidden, e),
                                !.newError = TRUE]
        /\ UNCHANGED <<environment, pc, reads, chans, buffers, locals, wire>>
        /\ WithinMix'

\* Snap cancels the call, or its deadline expires, or the connection is lost.
ClientCancels ==
    /\ handler \in {"streaming", "returned", "thrown"}
    /\ ~cancelled
    /\ cancelled' = TRUE
    /\ UNCHANGED <<handler, streams, pc, reads, chans, plugin, buffers, locals, wire,
                   hist>>

\* _max_collect_duration has passed since start.
TimePasses ==
    /\ handler \in {"streaming", "returned", "thrown"}
    /\ overdue' = TRUE
    /\ UNCHANGED <<environment, pc, reads, chans, plugin, metricsReply, errReply,
                   maxBuffer, locals, wire, hist>>

-----------------------------------------------------------------------------
Init ==
    /\ handler = "idle"
    /\ pc = [t \in Threads |-> "done"]
    /\ streams = 0 /\ reads = 0 /\ cancelled = FALSE
    /\ sendChan = NewChannel /\ errChan = NewChannel /\ recvChan = NewChannel
    /\ plugin = [putMets |-> FALSE, metsOut |-> <<>>, putErr |-> FALSE,
                 errMsg |-> NoError, metsIn |-> <<>>, cancelled |-> FALSE,
                 refused |-> FALSE]
    /\ metricsReply = <<>> /\ errReply = NoError
    /\ maxBuffer = InitBuffer /\ overdue = FALSE
    /\ batch = <<>> /\ arg = 0 /\ recvMets = <<>>
    /\ wire = [mets |-> <<>>, errs |-> <<>>]
    /\ hist = [made |-> <<>>, batches |-> <<>>, keptBatches |-> <<>>, newBatch |-> FALSE,
               taken |-> <<>>, unpacked |-> <<>>, sent |-> <<>>,
               raised |-> <<>>, keptErrors |-> <<>>, newError |-> FALSE,
               reported |-> <<>>, asked |-> <<>>]

\* What a thread does without waiting for Snap.
Step(t) ==
    \/ Enter(t) \/ Leave(t) \/ Tell(t)
    \/ t = "metricSend" /\ MetricSend
    \/ t = "errorSend" /\ ErrorSend
    \/ t = "streamRecv" /\ (RecvReadFails \/ RecvPuts)
    \/ t = "doPuts" /\ DoPuts

Environment ==
    \/ StartStream \/ PluginReturns \/ PluginThrows \/ PluginRaises
    \/ PutsCallbackThrows \/ PutsRecvThrows \/ (\E t \in Threads: TellThrows(t))
    \/ ClientCancels \/ TimePasses
    \/ \E n \in BatchSizes: PluginProduces(n)
    \/ \E r \in Requests: RecvReads(r)

Next == (\E t \in Threads: Step(t)) \/ HandlerEnds \/ Environment

Spec == Init /\ [][Next]_vars

\* The threads and the handler run when they can; a plugin that has been told
\* of the cancellation returns from stream_metrics.  Nothing is assumed of Snap,
\* of the clock, or of what the plugin produces.
FairSpec ==
    /\ Spec
    /\ \A t \in Threads: WF_vars(Step(t))
    /\ WF_vars(HandlerEnds)
    /\ WF_vars(plugin.cancelled /\ PluginReturns)
-----------------------------------------------------------------------------
(***************************************************************************)
(* Safety.                                                                 *)
(***************************************************************************)
Metric == 1..MaxMetrics
Error == 1..MaxErrors
Request == 1..MaxRequests

Loop == {"check", "tell", "done"}
Clearing == {"clear_full", "clear_batch", "clear_due"}
SendPlaces == Loop \cup Clearing \cup {"get", "add", "write_full", "batch_done", "due"}
ErrPlaces == Loop \cup {"get", "write"}
RecvPlaces == Loop \cup {"read", "put", "threw"}
PutsPlaces == Loop \cup {"mets", "clear_mets", "errs", "clear_err", "recv", "threw"}

PlacesOK ==
    /\ handler \in {"idle", "streaming", "returned", "thrown", "ok", "error"}
    /\ pc \in [Threads -> SendPlaces \cup ErrPlaces \cup RecvPlaces \cup PutsPlaces]
    /\ pc["metricSend"] \in SendPlaces /\ pc["errorSend"] \in ErrPlaces
    /\ pc["streamRecv"] \in RecvPlaces /\ pc["doPuts"] \in PutsPlaces
    /\ streams \in 0..MaxStreams /\ cancelled \in BOOLEAN

ChannelsOK ==
    /\ sendChan \in ChannelOf(Seq(Metric))
    /\ errChan \in ChannelOf(Error)
    /\ recvChan \in ChannelOf(Request)

PluginOK ==
    plugin \in [putMets: BOOLEAN, metsOut: Seq(Metric), putErr: BOOLEAN,
                errMsg: Error \cup {NoError}, metsIn: Seq(Request), cancelled: BOOLEAN,
                refused: BOOLEAN]

BuffersOK ==
    /\ metricsReply \in Seq(Metric) /\ errReply \in Error \cup {NoError}
    /\ maxBuffer \in Nat /\ overdue \in BOOLEAN

LocalsOK ==
    /\ batch \in Seq(Metric) /\ recvMets \in Seq(Request)
    /\ reads \in 0..MaxRequests /\ arg \in 0..reads
    /\ pc["streamRecv"] \in {"put", "threw"} => arg # 0

HistoryOK ==
    /\ wire \in [mets: Seq(Metric), errs: Seq(Error)]
    /\ hist \in [made: Seq(Metric), batches: Seq(Seq(Metric)), keptBatches: Seq(Seq(Metric)),
                 newBatch: BOOLEAN, taken: Seq(Seq(Metric)), unpacked: Seq(Metric),
                 sent: Seq(Metric), raised: Seq(Error), keptErrors: Seq(Error),
                 newError: BOOLEAN, reported: Seq(Error), asked: Seq(Request)]
    /\ Len(hist.made) <= MaxMetrics /\ Len(hist.raised) <= MaxErrors

TypeOK == PlacesOK /\ ChannelsOK /\ PluginOK /\ BuffersOK /\ LocalsOK /\ HistoryOK

\* The control the invariants below rest on: the threads run only during a
\* call, send_mets is used up when metricSend is back at the head of its loop,
\* and a flag of the plugin is up while doPuts is about to clear it.
ControlOK ==
    /\ handler \in {"idle", "ok", "error"} => Joined
    /\ pc["metricSend"] = "add" => batch # <<>>
    /\ pc["metricSend"] \notin {"add", "write_full", "clear_full"} => batch = <<>>
    /\ pc["doPuts"] = "clear_mets" => plugin.putMets
    /\ pc["doPuts"] = "clear_err" => plugin.putErr
    /\ hist.newBatch => plugin.putMets
    /\ hist.newError => plugin.putErr /\ plugin.errMsg # NoError
    /\ plugin.putErr => plugin.errMsg # NoError
    /\ pc["errorSend"] = "write" => errReply # NoError

CollectorInv == TypeOK /\ ControlOK

When(condition, s) == IF condition THEN s ELSE <<>>

ShownBatch == When(hist.newBatch, <<plugin.metsOut>>)
Unsent == When(pc["metricSend"] \notin Clearing, metricsReply)
ShownError == When(hist.newError, <<plugin.errMsg>>)
ErrorInHand == When(pc["errorSend"] = "write", <<errReply>>)
RequestInHand == When(pc["streamRecv"] \in {"put", "threw"}, <<arg>>)

BatchesInOrder ==
    /\ hist.keptBatches = hist.taken \o sendChan.queue \o ShownBatch
    /\ PluginWaits => hist.keptBatches = hist.batches
UnpackedInOrder == hist.unpacked = hist.sent \o Unsent \o batch

\* Every metric of the plugin is in one place: already sent by metricSend, in
\* the buffer, in send_mets, in sendChan or still shown by the plugin; none is
\* lost, sent twice by metricSend or overtaken, wherever the five threads are.
\* Only a plugin that does not wait may lose a batch, and only one that another
\* replaced before doPuts came, or that it showed before its flag was lowered.
MetricsInOrder == BatchesInOrder /\ UnpackedInOrder

\* The same of the errors raised by the plugin, up to errorSend's Write.
ErrorsInOrder ==
    /\ hist.keptErrors = hist.reported \o ErrorInHand \o (errChan.queue \o ShownError)
    /\ PluginWaits => hist.keptErrors = hist.raised

\* And of the metrics Snap asks for, up to the plugin's get_metrics_in, which is
\* given, with the newest, all those it was given before; a stream begins with
\* those the previous one left in recvChan.
RequestsInOrder ==
    /\ hist.asked = recvMets \o recvChan.queue \o RequestInHand
    /\ recvMets # <<>> /\ pc["doPuts"] # "threw" => plugin.metsIn = recvMets

\* The replies are those promised: whichever of the two threads writes, and in
\* whatever place the other one is, no metric and no error comes before one that
\* was made earlier, and none is skipped.
Replies == INSTANCE StreamReplies WITH
    made <- Len(hist.made), raised <- Len(hist.raised), mets <- wire.mets, errs <- wire.errs

ImplementsReplies == Replies!Spec

\* While an object serves its first stream, a channel is closed only after the
\* call was cancelled and by the thread that has left its loop for good; so no
\* put fails, and the plugin is not told of a cancellation, in a live stream.
CancelledBeforeClosed ==
    streams <= 1 =>
        /\ sendChan.closed => cancelled /\ pc["metricSend"] \in {"tell", "done"}
        /\ errChan.closed => cancelled /\ pc["errorSend"] \in {"tell", "done"}
        /\ recvChan.closed => cancelled /\ pc["streamRecv"] \in {"tell", "done"}
        /\ plugin.cancelled => cancelled
        /\ pc["doPuts"] = "threw" => cancelled \/ PluginMayThrow

\* _max_metrics_buffer: "maximum number of metrics the plugin is buffering
\* before sending metrics" (plugin.h).
BufferNeverOvergrows ==
    [][Len(metricsReply') > Len(metricsReply) /\ maxBuffer > 0
           => Len(metricsReply') <= maxBuffer]_vars

\* "Defaults to zero what means send metrics immediately" (plugin.h): nothing
\* stays in the buffer while metricSend waits for the next batch.
ZeroBufferSendsAtOnce ==
    maxBuffer = 0 /\ pc["metricSend"] \in {"check", "get", "due", "tell", "done"}
        => metricsReply = <<>>

(***************************************************************************)
(* Liveness.                                                               *)
(***************************************************************************)
\* What ends a stream: the client, or an exception of the plugin in doPuts.
Broken == cancelled \/ pc["doPuts"] = "threw"

Occurs(n, s) == \E i \in DOMAIN s: s[i] = n

\* The plugin itself has replaced or wiped what it showed before it was put.
HiddenMetric(n) == \A i \in DOMAIN hist.keptBatches: ~Occurs(n, hist.keptBatches[i])
HiddenError(n) == ~Occurs(n, hist.keptErrors)

\* What the plugin produces, and does not hide, reaches Snap, if metrics are not
\* buffered.
MetricsDelivered ==
    \A n \in Metric:
        Len(hist.made) >= n ~> Occurs(n, hist.sent) \/ HiddenMetric(n) \/ Broken

\* The errors it raises do, whether metrics are buffered or not.
ErrorsDelivered ==
    \A n \in Error:
        Len(hist.raised) >= n ~> Occurs(n, hist.reported) \/ HiddenError(n) \/ Broken

\* What Snap asks for reaches the plugin.
RequestsDelivered ==
    \A n \in Request: Len(hist.asked) >= n ~> Len(plugin.metsIn) >= n \/ Broken

\* A cancelled call is made known to the plugin, whatever the threads are doing,
\* unless its set_context_cancelled has thrown.
CancelReachesPlugin == cancelled ~> plugin.cancelled \/ plugin.refused

\* The thread sleeps in get on its channel, and doPuts, which alone could put
\* into that channel, is gone.
Parked(t, c) == pc[t] = "get" /\ ~ReadyToGet(c) /\ pc["doPuts"] \in {"done", "threw"}

\* A cancelled call the plugin knows of ends; what can keep it is only metricSend
\* or errorSend parked in a get that nobody is left to answer, never the others.
CancelledCallEnds ==
    cancelled /\ plugin.cancelled ~>
        \/ handler \in {"ok", "error"}
        \/ Parked("metricSend", sendChan)
        \/ Parked("errorSend", errChan)

(***************************************************************************)
(* What the documentation says and the code does not do.                   *)
(***************************************************************************)
\* "When thrown from any kind of plugin, the exception will be propagated to
\* and reported by Snap framework." (plugin.h): a PluginException thrown by
\* stream_metrics makes StreamMetrics return its error status.
ExceptionReported == handler = "thrown" ~> handler = "error"

\* "after 10 seconds no new metrics are received, the plugin should send
\* whatever data it has in the buffer instead of waiting longer" (plugin.h).
OverdueMetricsSent ==
    overdue /\ metricsReply # <<>> ~> metricsReply = <<>> \/ cancelled
=============================================================================
