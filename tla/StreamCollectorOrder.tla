------------------------ MODULE StreamCollectorOrder ------------------------
(***************************************************************************)
(* Proofs about StreamCollector: what flows through it is neither lost,    *)
(* nor duplicated, nor reordered, however its threads interleave; and what *)
(* it writes to Snap is what StreamReplies promises.                       *)
(***************************************************************************)
EXTENDS StreamCollectorProofs

(***************************************************************************)
(* What AllButLast takes away.                                             *)
(***************************************************************************)
LEMMA DropsLast ==
    ASSUME NEW T, NEW s \in Seq(T), NEW x \in T
    PROVE  AllButLast(s \o <<x>>) = s
<1> DEFINE r == s \o <<x>>
           n == Len(r) - 1
<1>1. r \in Seq(T) /\ Len(r) = Len(s) + 1 /\ Len(s) \in Nat
  OBVIOUS
<1>2. n = Len(s) /\ \A i \in 1..n: r[i] = s[i] /\ r[i] \in T
  BY <1>1
<1>3. AllButLast(r) = SubSeq(r, 1, n)
  BY DEF AllButLast
<1> HIDE DEF r, n
<1>4. /\ SubSeq(r, 1, n) \in Seq(T) /\ Len(SubSeq(r, 1, n)) = n
      /\ \A i \in 1..n: SubSeq(r, 1, n)[i] = r[i]
  <2>1. 1 \in Int /\ n \in Int /\ n - 1 + 1 = n /\ \A i \in 1..n: 1 + i - 1 = i
    BY <1>1, <1>2
  <2>2. /\ SubSeq(r, 1, n) \in Seq(T)
        /\ Len(SubSeq(r, 1, n)) = IF 1 <= n THEN n - 1 + 1 ELSE 0
        /\ \A i \in 1..n - 1 + 1: SubSeq(r, 1, n)[i] = r[1 + i - 1]
    BY <1>2, <2>1, SubSeqProperties
  <2>3. QED
    BY <1>1, <1>2, <2>1, <2>2
<1>5. SubSeq(r, 1, n) = s
  BY <1>1, <1>2, <1>4, SeqEqual
<1>6. QED
  BY <1>3, <1>5 DEF r

LEMMA DropsShown ==
    ASSUME NEW T, NEW a \in Seq(T), NEW q \in Seq(T), NEW x \in T
    PROVE  /\ AllButLast(a \o q \o <<x>>) = a \o q \o <<>>
           /\ AllButLast(a \o (q \o <<x>>)) = a \o (q \o <<>>)
<1> DEFINE s == a \o q
<1>1. s \in Seq(T) /\ <<x>> \in Seq(T)
  BY ConcatProperties
<1>2. s \o <<>> = s /\ q \o <<>> = q
  BY <1>1, ConcatEmptySeq
<1>3. a \o (q \o <<x>>) = s \o <<x>>
  BY <1>1, ConcatAssociative
<1> HIDE DEF s
<1>4. AllButLast(s \o <<x>>) = s
  BY <1>1, DropsLast
<1>5. QED
  BY <1>2, <1>3, <1>4 DEF s

(***************************************************************************)
(* The flags of the plugin.  One that is up although what it announces has *)
(* been put is about to be lowered, or its setter threw and doPuts is      *)
(* gone; by the time another stream has a doPuts again, metricSend and     *)
(* errorSend have closed their channels, so nothing is put twice.          *)
(***************************************************************************)
FlagInv ==
    /\ plugin.putMets /\ ~hist.newBatch
           => pc["doPuts"] \in {"clear_mets", "threw"} \/ sendChan.closed
    /\ plugin.putErr /\ ~hist.newError
           => pc["doPuts"] \in {"clear_err", "threw"} \/ errChan.closed
    /\ handler = "idle" => ~plugin.putMets /\ ~plugin.putErr
    /\ handler # "idle" => /\ pc["metricSend"] \in {"tell", "done"} => sendChan.closed
                           /\ pc["errorSend"] \in {"tell", "done"} => errChan.closed
    /\ PluginWaits => /\ pc["doPuts"] = "clear_mets" => ~hist.newBatch
                      /\ pc["doPuts"] = "clear_err" => ~hist.newError

LEMMA FlagStep ==
    ASSUME CollectorInv, FlagInv, [Next]_vars
    PROVE  FlagInv'
<1> USE DEF FlagInv, CollectorInv, TypeOK, PlacesOK, PluginOK, HistoryOK, Go, Threads
<1>1. CASE /\ UNCHANGED <<sendChan, errChan, pc, plugin, hist>>
           /\ handler' = "idle" <=> handler = "idle"
  BY <1>1
<1>2. CASE StartStream
  <2>1. /\ handler' = "streaming" /\ plugin' = plugin
        /\ sendChan' = sendChan /\ errChan' = errChan
        /\ pc' = [t \in Threads |-> "check"]
        /\ hist'.newBatch = hist.newBatch /\ hist'.newError = hist.newError
    BY <1>2 DEF StartStream, chans
  <2>2. /\ pc'["doPuts"] = "check" /\ pc'["metricSend"] = "check"
        /\ pc'["errorSend"] = "check"
    BY <2>1
  <2>3. handler = "idle" \/ (sendChan.closed /\ errChan.closed)
    BY <1>2 DEF StartStream, ControlOK, Joined, SendPlaces, ErrPlaces, Clearing, Loop
  <2>4. QED
    BY <2>1, <2>2, <2>3
<1>3. ASSUME NEW t \in Threads, Enter(t)
      PROVE  FlagInv'
  BY <1>3 DEF Enter, FirstPlace, environment, chans
<1>4. ASSUME NEW t \in Threads, Leave(t)
      PROVE  FlagInv'
  <2>1. /\ pc[t] = "check" /\ pc' = [pc EXCEPT ![t] = "tell"]
        /\ UNCHANGED <<handler, plugin, hist>>
        /\ sendChan' = IF t = "metricSend" THEN Closed(sendChan) ELSE sendChan
        /\ errChan' = IF t = "errorSend" THEN Closed(errChan) ELSE errChan
    BY <1>4 DEF Leave, environment
  <2>2. Closed(sendChan).closed /\ Closed(errChan).closed
    BY ClosedFacts DEF ChannelsOK
  <2>3. QED
    BY <2>1, <2>2
<1>5. ASSUME NEW t \in Threads, Tell(t) \/ TellThrows(t)
      PROVE  FlagInv'
  <2>1. /\ UNCHANGED <<handler, sendChan, errChan, hist>> /\ pc[t] = "tell"
        /\ \/ pc' = [pc EXCEPT ![t] = "done"]
           \/ t = "doPuts" /\ pc' = [pc EXCEPT ![t] = "threw"]
        /\ plugin'.putMets = plugin.putMets /\ plugin'.putErr = plugin.putErr
    BY <1>5 DEF Tell, TellThrows, environment, chans
  <2>2. QED
    BY <2>1
<1>6. CASE MetricSend
  <2>1. /\ pc'["doPuts"] = pc["doPuts"] /\ pc'["errorSend"] = pc["errorSend"]
        /\ pc'["metricSend"] \notin {"tell", "done"}
    <3>1. CASE Clear
      BY <3>1 DEF Clear, AfterClear
    <3>2. CASE ~Clear
      BY <1>6, <3>2 DEF MetricSend, SendGets, AddMetric, WriteFull, BatchDone, DurationTest
    <3>3. QED
      BY <3>1, <3>2
  <2>2. ~IsEmpty(sendChan) => Popped(sendChan).closed = sendChan.closed
    BY PoppedFacts DEF ChannelsOK
  <2>3. /\ UNCHANGED <<handler, errChan, plugin>> /\ sendChan'.closed = sendChan.closed
    BY <1>6, <2>2 DEF MetricSend, SendGets, AddMetric, WriteFull, BatchDone, DurationTest,
                      Clear, environment, chans
  <2>4. hist'.newBatch = hist.newBatch /\ hist'.newError = hist.newError
    BY <1>6 DEF MetricSend, SendGets, AddMetric, WriteFull, BatchDone, DurationTest, Clear,
                SendReply
  <2>5. QED
    BY <2>1, <2>3, <2>4
<1>7. CASE ErrorSend
  <2>1. /\ pc'["doPuts"] = pc["doPuts"] /\ pc'["metricSend"] = pc["metricSend"]
        /\ pc'["errorSend"] \notin {"tell", "done"}
    BY <1>7 DEF ErrorSend, ErrGets, ErrWrites
  <2>2. ~IsEmpty(errChan) => Popped(errChan).closed = errChan.closed
    BY PoppedFacts DEF ChannelsOK
  <2>3. UNCHANGED <<handler, sendChan, plugin>> /\ errChan'.closed = errChan.closed
    BY <1>7, <2>2 DEF ErrorSend, ErrGets, ErrWrites, environment, chans
  <2>4. hist'.newBatch = hist.newBatch /\ hist'.newError = hist.newError
    BY <1>7 DEF ErrorSend, ErrGets, ErrWrites, Remember
  <2>5. QED
    BY <2>1, <2>3, <2>4
<1>8. CASE RecvReadFails \/ RecvPuts \/ \E r \in Requests: RecvReads(r)
  <2>1. \A t \in Threads \ {"streamRecv"}: pc'[t] = pc[t]
    BY <1>8 DEF RecvReadFails, RecvPuts, RecvReads
  <2>2. /\ UNCHANGED <<handler, sendChan, errChan, plugin>>
        /\ hist'.newBatch = hist.newBatch /\ hist'.newError = hist.newError
    BY <1>8 DEF RecvReadFails, RecvPuts, RecvReads, Remember, environment, chans
  <2>3. QED
    BY <2>1, <2>2
<1>9. CASE PutsMets \/ PutsErr
  <2>0. /\ Pushed(sendChan, plugin.metsOut).closed = sendChan.closed
        /\ Pushed(errChan, plugin.errMsg).closed = errChan.closed
    BY DEF ChannelsOK, ChannelOf, Pushed
  <2>a. \A t \in Threads \ {"doPuts"}: pc'[t] = pc[t]
    BY <1>9 DEF PutsMets, PutsErr
  <2>1. /\ \A t \in Threads \ {"doPuts"}: pc'[t] = pc[t]
        /\ UNCHANGED <<handler, plugin>>
        /\ sendChan'.closed = sendChan.closed /\ errChan'.closed = errChan.closed
    BY <1>9, <2>0, <2>a DEF PutsMets, PutsErr, environment
  <2>2. \/ hist' = hist /\ pc'["doPuts"] \in {"errs", "recv", "threw"}
           /\ (pc'["doPuts"] = "errs" => pc["doPuts"] = "mets")
           /\ (pc'["doPuts"] = "recv" => pc["doPuts"] = "errs")
        \/ /\ pc["doPuts"] = "mets" /\ pc'["doPuts"] = "clear_mets" /\ ~hist'.newBatch
           /\ hist'.newError = hist.newError
        \/ /\ pc["doPuts"] = "errs" /\ pc'["doPuts"] = "clear_err" /\ ~hist'.newError
           /\ hist'.newBatch = hist.newBatch
    BY <1>9 DEF PutsMets, PutsErr
  <2>3. pc["doPuts"] \in {"mets", "errs"}
    BY <1>9 DEF PutsMets, PutsErr
  <2>4. QED
    BY <2>1, <2>2, <2>3
<1>10. CASE ClearsMets
  <2>1. /\ UNCHANGED <<handler, sendChan, errChan>> /\ ~plugin'.putMets
        /\ plugin'.putErr = plugin.putErr /\ hist'.newError = hist.newError
        /\ pc["doPuts"] = "clear_mets" /\ pc' = [pc EXCEPT !["doPuts"] = "errs"]
    BY <1>10 DEF ClearsMets, environment, chans
  <2>2. QED
    BY <2>1
<1>11. CASE ClearsErr
  <2>1. /\ UNCHANGED <<handler, sendChan, errChan>> /\ ~plugin'.putErr
        /\ plugin'.putMets = plugin.putMets /\ hist'.newBatch = hist.newBatch
        /\ pc["doPuts"] = "clear_err" /\ pc' = [pc EXCEPT !["doPuts"] = "recv"]
    BY <1>11 DEF ClearsErr, environment, chans
  <2>2. QED
    BY <2>1
<1>12. CASE PutsRecv \/ PutsCallbackThrows \/ PutsRecvThrows
  <2>1. /\ UNCHANGED <<handler, sendChan, errChan, hist>>
        /\ plugin'.putMets = plugin.putMets /\ plugin'.putErr = plugin.putErr
        /\ \/ pc' = [pc EXCEPT !["doPuts"] = "threw"]
           \/ pc["doPuts"] = "recv" /\ pc' = [pc EXCEPT !["doPuts"] = "check"]
    BY <1>12 DEF PutsRecv, PutsCallbackThrows, PutsRecvThrows, environment, chans
  <2>2. QED
    BY <2>1
<1>13. CASE HandlerEnds \/ PluginReturns \/ PluginThrows
  BY <1>1, <1>13 DEF HandlerEnds, PluginReturns, PluginThrows, chans
<1>14. CASE ClientCancels \/ TimePasses \/ UNCHANGED vars
  BY <1>1, <1>14 DEF ClientCancels, TimePasses, vars, environment, chans
<1>15. CASE PluginRaises
  <2>1. /\ UNCHANGED <<handler, pc, sendChan, errChan>> /\ handler = "streaming"
        /\ plugin'.putMets = plugin.putMets /\ hist'.newBatch = hist.newBatch
        /\ hist'.newError /\ (PluginWaits => ~plugin.putErr)
    BY <1>15 DEF PluginRaises, environment, chans
  <2>2. QED
    BY <2>1 DEF ControlOK
<1>16. ASSUME NEW n \in BatchSizes, PluginProduces(n)
       PROVE  FlagInv'
  <2>1. /\ UNCHANGED <<handler, pc, sendChan, errChan>> /\ handler = "streaming"
        /\ plugin'.putErr = plugin.putErr /\ hist'.newError = hist.newError
        /\ hist'.newBatch /\ (PluginWaits => ~plugin.putMets)
    BY <1>16 DEF PluginProduces, environment, chans
  <2>2. QED
    BY <2>1 DEF ControlOK
<1>17. QED
  BY <1>2, <1>3, <1>4, <1>5, <1>6, <1>7, <1>8, <1>9, <1>10, <1>11, <1>12, <1>13, <1>14,
     <1>15, <1>16 DEF Next, Step, DoPuts, Environment

LEMMA FlagInvariant == Spec => []FlagInv
<1>1. Init => FlagInv
  BY DEF Init, FlagInv, Threads
<1>2. CollectorInv /\ FlagInv /\ [Next]_vars => FlagInv'
  BY FlagStep
<1>3. QED
  BY <1>1, <1>2, CollectorInvariant, PTL DEF Spec

(***************************************************************************)
(* Batches of metrics, from the plugin to metricSend.                      *)
(***************************************************************************)
LEMMA BatchesStep ==
    ASSUME CollectorInv, FlagInv, BatchesInOrder, [Next]_vars
    PROVE  BatchesInOrder'
<1>0. /\ hist.taken \in Seq(Seq(Metric)) /\ sendChan.queue \in Seq(Seq(Metric))
      /\ plugin.metsOut \in Seq(Metric)
      /\ sendChan \in ChannelOf(Seq(Metric))
  BY ChannelFields DEF CollectorInv, TypeOK, ChannelsOK, PluginOK, HistoryOK
<1>1. CASE /\ hist'.keptBatches = hist.keptBatches /\ hist'.batches = hist.batches
           /\ hist'.taken = hist.taken
           /\ sendChan'.queue = sendChan.queue /\ ShownBatch' = ShownBatch
  BY <1>1 DEF BatchesInOrder
<1>2. CASE PutsMets /\ plugin.putMets /\ ~sendChan.closed
  <2>1. /\ ShownBatch = <<plugin.metsOut>> /\ ShownBatch' = <<>>
        /\ sendChan' = Pushed(sendChan, plugin.metsOut)
        /\ hist'.keptBatches = hist.keptBatches /\ hist'.batches = hist.batches
        /\ hist'.taken = hist.taken
    BY <1>2 DEF PutsMets, ShownBatch, When, FlagInv, CollectorInv, TypeOK, HistoryOK
  <2>2. sendChan'.queue = Append(sendChan.queue, plugin.metsOut)
    BY <1>0, <2>1, PushedFacts
  <2>3. hist.taken \o sendChan.queue \o <<plugin.metsOut>>
            = hist.taken \o Append(sendChan.queue, plugin.metsOut) \o <<>>
    BY <1>0, MoveIn
  <2>4. QED
    BY <2>1, <2>2, <2>3 DEF BatchesInOrder
<1>3. CASE SendGets /\ ~IsEmpty(sendChan)
  <2>1. /\ hist'.keptBatches = hist.keptBatches /\ hist'.batches = hist.batches
        /\ hist'.taken = Append(hist.taken, Head(sendChan.queue))
        /\ sendChan' = Popped(sendChan) /\ sendChan.queue # <<>>
        /\ ShownBatch' = ShownBatch
    BY <1>3 DEF SendGets, ShownBatch, When, Front, IsEmpty, CollectorInv, TypeOK, HistoryOK
  <2>2. sendChan'.queue = Tail(sendChan.queue)
    BY <1>0, <2>1, PoppedFacts DEF IsEmpty
  <2>3. hist.taken \o sendChan.queue = hist'.taken \o sendChan'.queue
    <3> DEFINE a == hist.taken
               q == sendChan.queue
               T == Seq(Metric)
    <3>1. a \in Seq(T) /\ q \in Seq(T) /\ q # <<>>
      BY <1>0, <2>1
    <3>2. hist'.taken = Append(a, Head(q)) /\ sendChan'.queue = Tail(q)
      BY <2>1, <2>2
    <3> HIDE DEF a, q, T
    <3>3. a \o q = Append(a, Head(q)) \o Tail(q)
      BY <3>1, MoveOn
    <3>4. QED
      BY <3>2, <3>3 DEF a, q
  <2>4. QED
    BY <2>1, <2>3 DEF BatchesInOrder
\* The batch that is shown and not yet put, if there is one, goes.
<1>u. /\ BatchesUnhidden = hist.taken \o sendChan.queue
      /\ hist.taken \o sendChan.queue \in Seq(Seq(Metric))
      /\ ~hist.newBatch => BatchesUnhidden = hist.keptBatches
  <2>1. hist.taken \o sendChan.queue \in Seq(Seq(Metric))
    BY <1>0, ConcatProperties
  <2>2. hist.taken \o sendChan.queue \o <<>> = hist.taken \o sendChan.queue
    BY <2>1, ConcatEmptySeq
  <2>3. CASE hist.newBatch
    <3>1. hist.keptBatches = hist.taken \o sendChan.queue \o <<plugin.metsOut>>
      BY <2>3 DEF BatchesInOrder, ShownBatch, When
    <3> DEFINE a == hist.taken
               q == sendChan.queue
               T == Seq(Metric)
    <3>2. a \in Seq(T) /\ q \in Seq(T) /\ plugin.metsOut \in T
      BY <1>0
    <3> HIDE DEF a, q, T
    <3>3. AllButLast(a \o q \o <<plugin.metsOut>>) = a \o q \o <<>>
      BY <3>2, DropsShown
    <3>4. BatchesUnhidden = AllButLast(hist.keptBatches)
      BY <2>3 DEF BatchesUnhidden
    <3>5. QED
      BY <2>1, <2>2, <2>3, <3>1, <3>3, <3>4 DEF a, q
  <2>4. CASE ~hist.newBatch
    BY <2>1, <2>2, <2>4 DEF BatchesUnhidden, BatchesInOrder, ShownBatch, When
  <2>5. QED
    BY <2>3, <2>4
<1>4. ASSUME NEW n \in BatchSizes, PluginProduces(n)
      PROVE  BatchesInOrder'
  <2> DEFINE b == [i \in 1..n |-> Len(hist.made) + i]
  <2>1. n \in Nat /\ Len(hist.made) \in Nat /\ Len(hist.made) + n <= MaxMetrics
    BY <1>4, BoundsAssumption DEF CollectorInv, TypeOK, HistoryOK, PluginProduces
  <2>2. b \in Seq(Metric)
    BY <2>1, BatchType
  <2>3. /\ hist'.batches = Append(hist.batches, b) /\ hist'.taken = hist.taken
        /\ hist'.keptBatches = Append(BatchesUnhidden, b)
        /\ sendChan' = sendChan /\ plugin'.metsOut = b /\ hist'.newBatch
        /\ PluginWaits => ~plugin.putMets
    BY <1>4 DEF PluginProduces, CollectorInv, TypeOK, HistoryOK, PluginOK, chans
  <2> HIDE DEF b
  <2>4. ShownBatch' = <<b>>
    BY <2>3 DEF ShownBatch, When
  <2>5. hist'.keptBatches = hist.taken \o sendChan.queue \o <<b>>
    BY <1>u, <2>2, <2>3, AppendIsConcat
  <2>6. PluginWaits => hist'.keptBatches = hist'.batches
    BY <1>u, <2>3 DEF BatchesInOrder, CollectorInv, ControlOK
  <2>7. QED
    BY <2>3, <2>4, <2>5, <2>6 DEF BatchesInOrder
<1>5. CASE ClearsMets
  <2>1. /\ hist'.keptBatches = BatchesUnhidden /\ hist'.batches = hist.batches
        /\ hist'.taken = hist.taken /\ sendChan' = sendChan /\ ~hist'.newBatch
        /\ PluginWaits => ~hist.newBatch
    BY <1>5 DEF ClearsMets, FlagInv, CollectorInv, TypeOK, HistoryOK, chans
  <2>2. ShownBatch' = <<>>
    BY <2>1 DEF ShownBatch, When
  <2>3. hist.taken \o sendChan.queue \o <<>> = hist.taken \o sendChan.queue
    BY <1>u, ConcatEmptySeq
  <2>4. QED
    BY <1>u, <2>1, <2>2, <2>3 DEF BatchesInOrder
<1> USE DEF CollectorInv, TypeOK, PlacesOK, HistoryOK, PluginOK, ShownBatch, When, Go,
            Threads, chans
<1>6. CASE StartStream
  BY <1>1, <1>6 DEF StartStream, Joined, ControlOK
<1>7. ASSUME NEW t \in Threads, Enter(t)
      PROVE  BatchesInOrder'
  BY <1>1, <1>7 DEF Enter, FirstPlace
<1>8. ASSUME NEW t \in Threads, Leave(t)
      PROVE  BatchesInOrder'
  BY <1>0, <1>1, <1>8, ClosedFacts DEF Leave
<1>9. ASSUME NEW t \in Threads, Tell(t) \/ TellThrows(t)
      PROVE  BatchesInOrder'
  BY <1>1, <1>9 DEF Tell, TellThrows
<1>10. CASE MetricSend /\ ~(SendGets /\ ~IsEmpty(sendChan))
  BY <1>1, <1>10 DEF MetricSend, SendGets, AddMetric, WriteFull, BatchDone, DurationTest,
                     Clear, SendReply
<1>11. CASE ErrorSend
  BY <1>1, <1>11 DEF ErrorSend, ErrGets, ErrWrites, Remember
<1>12. CASE RecvReadFails \/ RecvPuts
  BY <1>1, <1>12 DEF RecvReadFails, RecvPuts
<1>13. CASE PutsErr \/ ClearsErr \/ PutsRecv \/ (PutsMets /\ ~(plugin.putMets /\ ~sendChan.closed))
  <2>1. /\ sendChan' = sendChan /\ hist'.newBatch = hist.newBatch
        /\ hist'.keptBatches = hist.keptBatches /\ hist'.batches = hist.batches
        /\ hist'.taken = hist.taken
    BY <1>13 DEF PutsErr, ClearsErr, PutsRecv, PutsMets
  <2>2. plugin'.metsOut = plugin.metsOut
    BY <1>13 DEF PutsErr, ClearsErr, PutsRecv, PutsMets
  <2>3. QED
    BY <1>1, <2>1, <2>2
<1>14. CASE HandlerEnds \/ PluginReturns \/ PluginThrows \/ PutsCallbackThrows
            \/ PutsRecvThrows \/ ClientCancels \/ TimePasses
  BY <1>1, <1>14 DEF HandlerEnds, PluginReturns, PluginThrows, PutsCallbackThrows,
                     PutsRecvThrows, ClientCancels, TimePasses, environment
<1>15. CASE PluginRaises
  BY <1>1, <1>15 DEF PluginRaises, Remember, environment
<1>16. ASSUME NEW r \in Requests, RecvReads(r)
       PROVE  BatchesInOrder'
  BY <1>1, <1>16 DEF RecvReads, Remember
<1>17. CASE UNCHANGED vars
  BY <1>1, <1>17 DEF vars, environment
<1>18. QED
  BY <1>2, <1>3, <1>4, <1>5, <1>6, <1>7, <1>8, <1>9, <1>10, <1>11, <1>12, <1>13, <1>14,
     <1>15, <1>16, <1>17 DEF Next, Step, MetricSend, DoPuts, Environment

(***************************************************************************)
(* Metrics, from the batches metricSend has taken to what it has sent.     *)
(***************************************************************************)
LEMMA UnpackedStep ==
    ASSUME CollectorInv, UnpackedInOrder, [Next]_vars
    PROVE  UnpackedInOrder'
<1>0. /\ hist.sent \in Seq(Metric) /\ Unsent \in Seq(Metric) /\ batch \in Seq(Metric)
      /\ metricsReply \in Seq(Metric) /\ hist.unpacked \in Seq(Metric)
      /\ hist.sent \o Unsent \in Seq(Metric)
  BY ConcatProperties DEF CollectorInv, TypeOK, BuffersOK, LocalsOK, HistoryOK, Unsent, When
<1>1. CASE /\ hist'.unpacked = hist.unpacked /\ hist'.sent = hist.sent
           /\ Unsent' = Unsent /\ batch' = batch
  BY <1>1 DEF UnpackedInOrder
<1>2. CASE SendGets /\ ~IsEmpty(sendChan)
  <2> DEFINE b == Front(sendChan)
  <2>0. Unsent' = Unsent
    <3>1. pc["metricSend"] \notin Clearing /\ pc'["metricSend"] \notin Clearing
      BY <1>2 DEF SendGets, Go, Clearing, CollectorInv, TypeOK, PlacesOK, Threads
    <3>2. metricsReply' = metricsReply
      BY <1>2 DEF SendGets, buffers
    <3>3. QED
      BY <3>1, <3>2 DEF Unsent, When
  <2>1. /\ hist'.unpacked = hist.unpacked \o b /\ hist'.sent = hist.sent
        /\ batch = <<>> /\ batch' = b
        /\ Unsent' = Unsent
    BY <1>2, <2>0 DEF SendGets, CollectorInv, TypeOK, HistoryOK, ControlOK
  <2> HIDE DEF b
  <2>2. hist.unpacked = hist.sent \o Unsent
    BY <1>0, <2>1, ConcatEmptySeq DEF UnpackedInOrder
  <2>3. QED
    BY <2>1, <2>2 DEF UnpackedInOrder
<1>3. CASE AddMetric
  <2>1. /\ hist' = hist /\ batch # <<>> /\ batch' = Tail(batch)
        /\ Unsent = metricsReply /\ Unsent' = Append(metricsReply, Head(batch))
    BY <1>3 DEF AddMetric, Unsent, When, Go, Clearing, CollectorInv, TypeOK, PlacesOK,
                ControlOK, Threads
  <2>2. hist.sent \o metricsReply \o batch
            = hist.sent \o Append(metricsReply, Head(batch)) \o Tail(batch)
    <3> DEFINE a == hist.sent
               b == metricsReply
               c == batch
               d == Append(metricsReply, Head(batch))
               u == Tail(batch)
    <3>1. b \o c = d \o u
      BY <1>0, <2>1, MoveOn
    <3>2. /\ a \in Seq(Metric) /\ b \in Seq(Metric) /\ c \in Seq(Metric)
          /\ d \in Seq(Metric) /\ u \in Seq(Metric)
      BY <1>0, <2>1, HeadTailProperties
    <3> HIDE DEF a, b, c, d, u
    <3>3. a \o b \o c = a \o (b \o c)
      BY <3>2, ConcatAssociative
    <3>4. a \o (d \o u) = a \o d \o u
      BY <3>2, ConcatAssociative
    <3>5. QED
      BY <3>1, <3>3, <3>4 DEF a, b, c, d, u
  <2>3. QED
    BY <2>1, <2>2 DEF UnpackedInOrder
<1>4. CASE /\ pc["metricSend"] \notin Clearing /\ pc'["metricSend"] \in Clearing
           /\ SendReply /\ UNCHANGED <<metricsReply, batch>>
  <2>1. Unsent = metricsReply /\ Unsent' = <<>> /\ batch' = batch
    BY <1>4 DEF Unsent, When
  <2>2. hist'.unpacked = hist.unpacked /\ hist'.sent = hist.sent \o metricsReply
    <3>1. CASE metricsReply = <<>>
      BY <1>0, <1>4, <3>1, ConcatEmptySeq DEF SendReply
    <3>2. CASE metricsReply # <<>>
      BY <1>4, <3>2 DEF SendReply, CollectorInv, TypeOK, HistoryOK
    <3>3. QED
      BY <3>1, <3>2
  <2>3. hist'.sent \o <<>> = hist'.sent
    BY <1>0, <2>1, <2>2, ConcatEmptySeq
  <2>4. QED
    BY <2>1, <2>2, <2>3 DEF UnpackedInOrder
<1> USE DEF CollectorInv, TypeOK, PlacesOK, HistoryOK, Unsent, When, Go, Threads, Clearing
<1>5. CASE WriteFull
  BY <1>4, <1>5 DEF WriteFull, buffers, locals
<1>6. CASE BatchDone
  BY <1>1, <1>4, <1>6 DEF BatchDone, buffers, locals
<1>7. CASE DurationTest
  BY <1>1, <1>4, <1>7 DEF DurationTest, buffers, locals
<1>8. CASE Clear
  BY <1>1, <1>8 DEF Clear, EmptyBuffer, AfterClear, locals
<1>9. CASE SendGets /\ IsEmpty(sendChan)
  BY <1>1, <1>9 DEF SendGets, buffers
<1>10. CASE StartStream
  BY <1>1, <1>10 DEF StartStream, Joined, ControlOK
<1>11. ASSUME NEW t \in Threads, Enter(t)
       PROVE  UnpackedInOrder'
  BY <1>1, <1>11 DEF Enter, FirstPlace, buffers, locals
<1>12. ASSUME NEW t \in Threads, Leave(t) \/ Tell(t) \/ TellThrows(t)
       PROVE  UnpackedInOrder'
  BY <1>1, <1>12 DEF Leave, Tell, TellThrows, buffers, locals
<1>13. CASE ErrorSend
  BY <1>1, <1>13 DEF ErrorSend, ErrGets, ErrWrites, Remember, buffers, locals
<1>14. CASE RecvReadFails \/ RecvPuts
  BY <1>1, <1>14 DEF RecvReadFails, RecvPuts, buffers, locals
<1>15. CASE DoPuts
  <2>1. hist'.unpacked = hist.unpacked /\ hist'.sent = hist.sent
    BY <1>15 DEF DoPuts, PutsMets, ClearsMets, PutsErr, ClearsErr, PutsRecv
  <2>2. /\ pc'["metricSend"] = pc["metricSend"]
        /\ metricsReply' = metricsReply /\ batch' = batch
    BY <1>15 DEF DoPuts, PutsMets, ClearsMets, PutsErr, ClearsErr, PutsRecv, buffers, locals
  <2>3. QED
    BY <1>1, <2>1, <2>2
<1>16. CASE \/ HandlerEnds \/ PluginReturns \/ PluginThrows \/ PutsCallbackThrows
            \/ PutsRecvThrows \/ ClientCancels \/ TimePasses
  BY <1>1, <1>16 DEF HandlerEnds, PluginReturns, PluginThrows, PutsCallbackThrows,
                     PutsRecvThrows, ClientCancels, TimePasses, buffers, locals
<1>17. CASE PluginRaises \/ \E n \in BatchSizes: PluginProduces(n)
  BY <1>1, <1>17 DEF PluginRaises, PluginProduces, Remember, buffers, locals
<1>18. ASSUME NEW r \in Requests, RecvReads(r)
       PROVE  UnpackedInOrder'
  BY <1>1, <1>18 DEF RecvReads, Remember
<1>19. CASE UNCHANGED vars
  BY <1>1, <1>19 DEF vars, buffers, locals
<1>20. QED
  BY <1>2, <1>3, <1>5, <1>6, <1>7, <1>8, <1>9, <1>10, <1>11, <1>12, <1>13, <1>14, <1>15,
     <1>16, <1>17, <1>18, <1>19 DEF Next, Step, MetricSend, Environment

(***************************************************************************)
(* Errors, from the plugin to errorSend's Write.                           *)
(***************************************************************************)
LEMMA ErrorsStep ==
    ASSUME CollectorInv, FlagInv, ErrorsInOrder, [Next]_vars
    PROVE  ErrorsInOrder'
<1>0. /\ hist.raised \in Seq(Error) /\ hist.reported \in Seq(Error)
      /\ errChan \in ChannelOf(Error) /\ errChan.queue \in Seq(Error)
      /\ ErrorInHand \in Seq(Error) /\ ShownError \in Seq(Error)
  <2>1. pc["errorSend"] = "write" => errReply \in Error
    BY DEF CollectorInv, TypeOK, BuffersOK, ControlOK
  <2>2. hist.newError => plugin.errMsg \in Error
    BY DEF CollectorInv, TypeOK, PluginOK, ControlOK
  <2>3. QED
    BY <2>1, <2>2, ChannelFields DEF CollectorInv, TypeOK, ChannelsOK, HistoryOK,
       ErrorInHand, ShownError, When
<1>1. CASE /\ hist'.keptErrors = hist.keptErrors /\ hist'.raised = hist.raised
           /\ hist'.reported = hist.reported
           /\ errChan'.queue = errChan.queue
           /\ ErrorInHand' = ErrorInHand /\ ShownError' = ShownError
  BY <1>1 DEF ErrorsInOrder
<1>2. CASE ErrGets /\ ~IsEmpty(errChan)
  <2> DEFINE a == hist.reported
             q == errChan.queue
             u == ShownError
  <2>1. /\ ErrorInHand = <<>> /\ ErrorInHand' = <<Head(q)>> /\ ShownError' = u
        /\ hist' = hist /\ q # <<>> /\ errChan' = Popped(errChan)
    BY <1>2 DEF ErrGets, ErrorInHand, ShownError, When, Go, Front, IsEmpty, CollectorInv,
                TypeOK, PlacesOK, Threads
  <2>2. errChan'.queue = Tail(q)
    BY <1>0, <2>1, PoppedFacts DEF IsEmpty
  <2>3. a \in Seq(Error) /\ q \in Seq(Error) /\ u \in Seq(Error)
    BY <1>0
  <2>4. ErrorsInOrder => hist.keptErrors = a \o <<>> \o (q \o u)
    BY <2>1 DEF ErrorsInOrder
  <2>5. a \o <<Head(q)>> \o (Tail(q) \o u) = hist'.keptErrors => ErrorsInOrder'
    BY <2>1, <2>2 DEF ErrorsInOrder
  <2>6. hist'.keptErrors = hist.keptErrors
    BY <2>1
  <2> HIDE DEF a, q, u
  <2>7. a \o <<>> \o (q \o u) = a \o <<Head(q)>> \o (Tail(q) \o u)
    BY <2>1, <2>3, MoveUp
  <2>8. QED
    BY <2>4, <2>5, <2>6, <2>7
<1>3. CASE ErrWrites
  <2>1. /\ hist'.keptErrors = hist.keptErrors /\ hist'.raised = hist.raised
        /\ hist'.reported = Append(hist.reported, errReply)
        /\ errChan' = errChan /\ ShownError' = ShownError /\ errReply \in Error
        /\ ErrorInHand = <<errReply>> /\ ErrorInHand' = <<>>
    BY <1>3 DEF ErrWrites, Remember, ErrorInHand, ShownError, When, Go, CollectorInv,
                TypeOK, PlacesOK, HistoryOK, BuffersOK, ControlOK, Threads, chans
  <2>2. hist.reported \o <<errReply>> = Append(hist.reported, errReply) \o <<>>
    BY <1>0, <2>1, MoveInNext
  <2>3. QED
    BY <2>1, <2>2 DEF ErrorsInOrder
<1>4. CASE PutsErr /\ plugin.putErr /\ ~errChan.closed
  <2>1. /\ hist'.keptErrors = hist.keptErrors /\ hist'.raised = hist.raised
        /\ hist'.reported = hist.reported
        /\ errChan' = Pushed(errChan, plugin.errMsg) /\ plugin.errMsg \in Error
        /\ ShownError = <<plugin.errMsg>> /\ ShownError' = <<>>
    BY <1>4 DEF PutsErr, ShownError, When, FlagInv, CollectorInv, TypeOK, PluginOK,
                HistoryOK, ControlOK
  <2>2. ErrorInHand' = ErrorInHand
    BY <1>4 DEF PutsErr, ErrorInHand, When, Go, CollectorInv, TypeOK, PlacesOK, Threads,
                buffers
  <2>3. errChan'.queue = Append(errChan.queue, plugin.errMsg)
    BY <1>0, <2>1, PushedFacts
  <2>4. errChan.queue \o <<plugin.errMsg>> = Append(errChan.queue, plugin.errMsg) \o <<>>
    BY <1>0, <2>1, MoveInNext
  <2>5. QED
    BY <2>1, <2>2, <2>3, <2>4 DEF ErrorsInOrder
\* The error that is shown and not yet put, if there is one, goes.
<1>u. /\ ErrorsUnhidden = hist.reported \o ErrorInHand \o (errChan.queue \o <<>>)
      /\ ~hist.newError => ErrorsUnhidden = hist.keptErrors
  <2> DEFINE a == hist.reported \o ErrorInHand
             q == errChan.queue
  <2>1. a \in Seq(Error) /\ q \in Seq(Error)
    BY <1>0, ConcatProperties
  <2>2. CASE hist.newError
    <3>1. hist.keptErrors = a \o (q \o <<plugin.errMsg>>) /\ plugin.errMsg \in Error
      BY <2>2 DEF ErrorsInOrder, ShownError, When, CollectorInv, TypeOK, PluginOK, ControlOK
    <3> HIDE DEF a, q
    <3>2. AllButLast(a \o (q \o <<plugin.errMsg>>)) = a \o (q \o <<>>)
      BY <2>1, <3>1, DropsShown
    <3>3. ErrorsUnhidden = AllButLast(hist.keptErrors)
      BY <2>2 DEF ErrorsUnhidden
    <3>4. QED
      BY <2>2, <3>1, <3>2, <3>3 DEF a, q
  <2>3. CASE ~hist.newError
    BY <2>3 DEF ErrorsUnhidden, ErrorsInOrder, ShownError, When
  <2>4. QED
    BY <2>2, <2>3
<1>5. CASE PluginRaises
  <2> DEFINE e == Len(hist.raised) + 1
             a == hist.reported \o ErrorInHand
             q == errChan.queue
  <2>1. e \in Error
    BY <1>5, BoundsAssumption DEF PluginRaises, CollectorInv, TypeOK, HistoryOK, Error
  <2>2. /\ hist'.raised = Append(hist.raised, e) /\ hist'.reported = hist.reported
        /\ hist'.keptErrors = Append(ErrorsUnhidden, e) /\ hist'.newError
        /\ errChan' = errChan /\ ErrorInHand' = ErrorInHand /\ plugin'.errMsg = e
        /\ PluginWaits => ~plugin.putErr
    BY <1>5 DEF PluginRaises, ErrorInHand, When, CollectorInv, TypeOK, HistoryOK, PluginOK,
                chans, buffers
  <2>3. a \in Seq(Error) /\ q \in Seq(Error)
    BY <1>0, ConcatProperties
  <2>4. ShownError' = <<e>>
    BY <2>2 DEF ShownError, When
  <2>5. PluginWaits => hist'.keptErrors = hist'.raised
    BY <1>u, <2>2 DEF ErrorsInOrder, CollectorInv, ControlOK
  <2>6. hist'.keptErrors = a \o (q \o <<e>>) => ErrorsInOrder'
    BY <2>2, <2>4, <2>5 DEF ErrorsInOrder
  <2>7. hist'.keptErrors = Append(a \o (q \o <<>>), e)
    BY <1>u, <2>2
  <2> HIDE DEF e, a, q
  <2>8. Append(a \o (q \o <<>>), e) = a \o (q \o <<e>>)
    BY <2>1, <2>3, ArriveNext
  <2>9. QED
    BY <2>6, <2>7, <2>8
<1>6. CASE ClearsErr
  <2>1. /\ hist'.keptErrors = ErrorsUnhidden /\ hist'.raised = hist.raised
        /\ hist'.reported = hist.reported /\ errChan' = errChan /\ ~hist'.newError
        /\ PluginWaits => ~hist.newError
    BY <1>6 DEF ClearsErr, FlagInv, CollectorInv, TypeOK, HistoryOK, chans
  <2>2. ErrorInHand' = ErrorInHand
    BY <1>6 DEF ClearsErr, ErrorInHand, When, Go, CollectorInv, TypeOK, PlacesOK, Threads,
                buffers
  <2>3. ShownError' = <<>>
    BY <2>1 DEF ShownError, When
  <2>4. QED
    BY <1>u, <2>1, <2>2, <2>3 DEF ErrorsInOrder
<1> USE DEF CollectorInv, TypeOK, PlacesOK, HistoryOK, PluginOK, ErrorInHand, ShownError,
            When, Go, Threads
<1>7. CASE StartStream
  BY <1>1, <1>7 DEF StartStream, Joined, ControlOK, chans
<1>8. ASSUME NEW t \in Threads, Enter(t)
      PROVE  ErrorsInOrder'
  BY <1>1, <1>8 DEF Enter, FirstPlace, chans, buffers
<1>9. ASSUME NEW t \in Threads, Leave(t)
      PROVE  ErrorsInOrder'
  BY <1>0, <1>1, <1>9, ClosedFacts DEF Leave, buffers
<1>10. ASSUME NEW t \in Threads, Tell(t) \/ TellThrows(t)
       PROVE  ErrorsInOrder'
  BY <1>1, <1>10 DEF Tell, TellThrows, chans, buffers
<1>11. CASE MetricSend
  BY <1>1, <1>11 DEF MetricSend, SendGets, AddMetric, WriteFull, BatchDone, DurationTest,
                     Clear, SendReply, chans, buffers
<1>12. CASE ErrGets /\ IsEmpty(errChan)
  BY <1>1, <1>12 DEF ErrGets
<1>13. CASE RecvReadFails \/ RecvPuts
  BY <1>1, <1>13 DEF RecvReadFails, RecvPuts, chans, buffers
<1>14. CASE PutsMets \/ ClearsMets \/ PutsRecv \/ (PutsErr /\ ~(plugin.putErr /\ ~errChan.closed))
  <2>1. /\ errChan' = errChan /\ hist'.newError = hist.newError
        /\ hist'.keptErrors = hist.keptErrors /\ hist'.raised = hist.raised
        /\ hist'.reported = hist.reported
    BY <1>14 DEF PutsErr, ClearsMets, PutsRecv, PutsMets, chans
  <2>2. plugin'.errMsg = plugin.errMsg
    BY <1>14 DEF PutsErr, ClearsMets, PutsRecv, PutsMets
  <2>3. pc'["errorSend"] = pc["errorSend"] /\ errReply' = errReply
    BY <1>14 DEF PutsErr, ClearsMets, PutsRecv, PutsMets, buffers
  <2>4. QED
    BY <1>1, <2>1, <2>2, <2>3
<1>15. CASE \/ HandlerEnds \/ PluginReturns \/ PluginThrows \/ PutsCallbackThrows
            \/ PutsRecvThrows \/ ClientCancels \/ TimePasses
  BY <1>1, <1>15 DEF HandlerEnds, PluginReturns, PluginThrows, PutsCallbackThrows,
                     PutsRecvThrows, ClientCancels, TimePasses, chans, buffers
<1>16. ASSUME NEW n \in BatchSizes, PluginProduces(n)
       PROVE  ErrorsInOrder'
  BY <1>1, <1>16 DEF PluginProduces, chans, buffers
<1>17. ASSUME NEW r \in Requests, RecvReads(r)
       PROVE  ErrorsInOrder'
  BY <1>1, <1>17 DEF RecvReads, Remember, chans
<1>18. CASE UNCHANGED vars
  BY <1>1, <1>18 DEF vars, chans, buffers
<1>19. QED
  BY <1>2, <1>3, <1>4, <1>5, <1>6, <1>7, <1>8, <1>9, <1>10, <1>11, <1>12, <1>13, <1>14,
     <1>15, <1>16, <1>17, <1>18 DEF Next, Step, ErrorSend, DoPuts, Environment

(***************************************************************************)
(* Requests, from streamRecv's Read to the plugin's get_metrics_in.        *)
(***************************************************************************)
LEMMA RequestsStep ==
    ASSUME CollectorInv, RequestsInOrder, [Next]_vars
    PROVE  RequestsInOrder'
<1>0. /\ hist.asked \in Seq(Request) /\ recvMets \in Seq(Request)
      /\ recvChan \in ChannelOf(Request) /\ recvChan.queue \in Seq(Request)
      /\ recvMets \o recvChan.queue \in Seq(Request)
  BY ChannelFields, ConcatProperties DEF CollectorInv, TypeOK, ChannelsOK, LocalsOK, HistoryOK
<1>1. CASE /\ hist'.asked = hist.asked /\ recvMets' = recvMets
           /\ plugin'.metsIn = plugin.metsIn
           /\ pc["doPuts"] = "threw" => pc'["doPuts"] = "threw"
           /\ recvChan'.queue = recvChan.queue /\ RequestInHand' = RequestInHand
  BY <1>1 DEF RequestsInOrder
<1>2. ASSUME NEW r \in Requests, RecvReads(r), r.hasMetrics
      PROVE  RequestsInOrder'
  <2>0. reads' \in Request
    BY <1>2, BoundsAssumption DEF RecvReads, CollectorInv, TypeOK, LocalsOK, Request
  <2>1. /\ hist'.asked = Append(hist.asked, reads') /\ reads' \in Request
        /\ recvMets' = recvMets /\ recvChan' = recvChan /\ plugin' = plugin
        /\ RequestInHand = <<>> /\ RequestInHand' = <<reads'>>
        /\ pc'["doPuts"] = pc["doPuts"]
    <3>1. /\ pc["streamRecv"] = "read" /\ pc'["streamRecv"] = "put" /\ arg' = reads'
          /\ pc'["doPuts"] = pc["doPuts"]
      BY <1>2 DEF RecvReads, Go, CollectorInv, TypeOK, PlacesOK, Threads
    <3>2. hist'.asked = Append(hist.asked, reads')
      BY <1>2 DEF RecvReads, Remember, CollectorInv, TypeOK, HistoryOK
    <3>3. recvMets' = recvMets /\ recvChan' = recvChan /\ plugin' = plugin
      BY <1>2 DEF RecvReads, chans
    <3>4. QED
      BY <2>0, <3>1, <3>2, <3>3 DEF RequestInHand, When
  <2> DEFINE x == reads'
             q == recvChan.queue
  <2>2. hist.asked = recvMets \o q \o <<>>
    BY <2>1 DEF RequestsInOrder
  <2>3. hist'.asked = Append(hist.asked, x) /\ x \in Request /\ q \in Seq(Request)
    BY <1>0, <2>1
  <2>4. hist'.asked = recvMets \o q \o <<x>> => RequestsInOrder'
    BY <2>1 DEF RequestsInOrder
  <2> HIDE DEF x, q
  <2>5. Append(recvMets \o q \o <<>>, x) = recvMets \o q \o <<x>>
    BY <1>0, <2>3, Arrive
  <2>6. QED
    BY <2>2, <2>3, <2>4, <2>5
<1>3. CASE RecvPuts /\ ~recvChan.closed
  <2>1. /\ hist' = hist /\ recvMets' = recvMets /\ plugin' = plugin
        /\ recvChan' = Pushed(recvChan, arg) /\ arg \in Request
        /\ RequestInHand = <<arg>> /\ RequestInHand' = <<>>
        /\ pc'["doPuts"] = pc["doPuts"]
    BY <1>3, BoundsAssumption
       DEF RecvPuts, RequestInHand, When, Go, CollectorInv, TypeOK, PlacesOK, LocalsOK,
           Threads, locals, Request
  <2>2. recvChan'.queue = Append(recvChan.queue, arg)
    BY <1>0, <2>1, PushedFacts
  <2>3. recvMets \o recvChan.queue \o <<arg>> = recvMets \o Append(recvChan.queue, arg) \o <<>>
    <3> DEFINE q == recvChan.queue
    <3>1. q \in Seq(Request) /\ arg \in Request
      BY <1>0, <2>1
    <3> HIDE DEF q
    <3>2. recvMets \o q \o <<arg>> = recvMets \o Append(q, arg) \o <<>>
      BY <1>0, <3>1, MoveIn
    <3>3. QED
      BY <3>2 DEF q
  <2>4. QED
    BY <2>1, <2>2, <2>3 DEF RequestsInOrder
<1>4. CASE PutsRecv /\ ~IsEmpty(recvChan)
  <2>1. /\ hist' = hist /\ recvChan.queue # <<>> /\ recvChan' = Popped(recvChan)
        /\ recvMets' = Append(recvMets, Head(recvChan.queue))
        /\ plugin'.metsIn = recvMets' /\ RequestInHand' = RequestInHand
    BY <1>4 DEF PutsRecv, HandsOver, Front, IsEmpty, RequestInHand, When, Go, CollectorInv,
                TypeOK, PlacesOK, PluginOK, Threads
  <2>2. recvChan'.queue = Tail(recvChan.queue)
    BY <1>0, <2>1, PoppedFacts DEF IsEmpty
  <2>3. recvMets \o recvChan.queue = recvMets' \o recvChan'.queue
    BY <1>0, <2>1, <2>2, MoveOn
  <2>4. QED
    BY <2>1, <2>3 DEF RequestsInOrder
<1>18. CASE PutsRecvThrows
  <2>1. /\ hist' = hist /\ recvChan.queue # <<>> /\ recvChan' = Popped(recvChan)
        /\ recvMets' = Append(recvMets, Head(recvChan.queue))
        /\ pc'["doPuts"] = "threw" /\ RequestInHand' = RequestInHand
    BY <1>18 DEF PutsRecvThrows, HandsOver, Front, IsEmpty, RequestInHand, When, Go,
                 CollectorInv, TypeOK, PlacesOK, Threads
  <2>2. recvChan'.queue = Tail(recvChan.queue)
    BY <1>0, <2>1, PoppedFacts DEF IsEmpty
  <2>3. recvMets \o recvChan.queue = recvMets' \o recvChan'.queue
    BY <1>0, <2>1, <2>2, MoveOn
  <2>4. QED
    BY <2>1, <2>3 DEF RequestsInOrder
<1>5. CASE StartStream
  <2>1. /\ hist'.asked = recvChan.queue /\ recvMets' = <<>> /\ recvChan' = recvChan
        /\ RequestInHand' = <<>>
    BY <1>5 DEF StartStream, RequestInHand, When, CollectorInv, TypeOK, HistoryOK, chans,
                Threads
  <2>2. <<>> \o recvChan.queue \o <<>> = recvChan.queue
    BY <1>0, ConcatEmptySeq
  <2>3. QED
    BY <2>1, <2>2 DEF RequestsInOrder
<1> USE DEF CollectorInv, TypeOK, PlacesOK, HistoryOK, PluginOK, RequestInHand, When, Go,
            Threads
<1>6. ASSUME NEW r \in Requests, RecvReads(r), ~r.hasMetrics
      PROVE  RequestsInOrder'
  BY <1>1, <1>6 DEF RecvReads, chans
<1>7. CASE RecvReadFails \/ (RecvPuts /\ recvChan.closed)
  BY <1>1, <1>7 DEF RecvReadFails, RecvPuts, chans, locals
<1>8. ASSUME NEW t \in Threads, Enter(t)
      PROVE  RequestsInOrder'
  BY <1>1, <1>8 DEF Enter, FirstPlace, chans, locals
<1>9. ASSUME NEW t \in Threads, Leave(t)
      PROVE  RequestsInOrder'
  BY <1>0, <1>1, <1>9, ClosedFacts DEF Leave, locals
<1>10. ASSUME NEW t \in Threads, Tell(t) \/ TellThrows(t)
       PROVE  RequestsInOrder'
  BY <1>1, <1>10 DEF Tell, TellThrows, chans, locals
<1>11. CASE MetricSend
  BY <1>1, <1>11 DEF MetricSend, SendGets, AddMetric, WriteFull, BatchDone, DurationTest,
                     Clear, SendReply, chans, locals
<1>12. CASE ErrorSend
  BY <1>1, <1>12 DEF ErrorSend, ErrGets, ErrWrites, Remember, chans, locals
<1>13. CASE \/ PutsMets \/ ClearsMets \/ PutsErr \/ ClearsErr
            \/ (PutsRecv /\ IsEmpty(recvChan))
  BY <1>1, <1>13 DEF PutsMets, ClearsMets, PutsErr, ClearsErr, PutsRecv, chans, locals
<1>14. CASE \/ HandlerEnds \/ PluginReturns \/ PluginThrows \/ PutsCallbackThrows
            \/ ClientCancels \/ TimePasses
  BY <1>1, <1>14 DEF HandlerEnds, PluginReturns, PluginThrows, PutsCallbackThrows,
                     ClientCancels, TimePasses, chans, locals
<1>15. CASE PluginRaises \/ \E n \in BatchSizes: PluginProduces(n)
  BY <1>1, <1>15 DEF PluginRaises, PluginProduces, Remember, chans, locals
<1>16. CASE UNCHANGED vars
  BY <1>1, <1>16 DEF vars, chans, locals
<1>17. QED
  BY <1>2, <1>3, <1>4, <1>5, <1>6, <1>7, <1>8, <1>9, <1>10, <1>11, <1>12, <1>13, <1>14,
     <1>15, <1>16, <1>18 DEF Next, Step, DoPuts, Environment

-----------------------------------------------------------------------------
\* No metric is lost, sent twice by metricSend or overtaken between the plugin
\* and metricSend's Write, whatever the threads do and whatever callback throws,
\* but for a batch that the plugin itself replaced, or showed before its flag was
\* lowered (metricSend, doPuts).
THEOREM MetricsKeptInOrder == Spec => []MetricsInOrder
<1>1. Init => MetricsInOrder
  BY DEF Init, MetricsInOrder, BatchesInOrder, UnpackedInOrder, ShownBatch, Unsent, When,
         NewChannel, Threads
<1>2. CollectorInv /\ FlagInv /\ MetricsInOrder /\ [Next]_vars => MetricsInOrder'
  BY BatchesStep, UnpackedStep DEF MetricsInOrder
<1>3. QED
  BY <1>1, <1>2, CollectorInvariant, FlagInvariant, PTL DEF Spec

\* No error is lost, reported twice by errorSend or overtaken between the
\* plugin and errorSend's Write, with the same exceptions (errorSend, doPuts).
THEOREM ErrorsKeptInOrder == Spec => []ErrorsInOrder
<1>1. Init => ErrorsInOrder
  BY DEF Init, ErrorsInOrder, ErrorInHand, ShownError, When, NewChannel, Threads
<1>2. CollectorInv /\ FlagInv /\ ErrorsInOrder /\ [Next]_vars => ErrorsInOrder'
  BY ErrorsStep
<1>3. QED
  BY <1>1, <1>2, CollectorInvariant, FlagInvariant, PTL DEF Spec

\* What Snap asks for reaches the plugin's get_metrics_in whole and in the order
\* asked, in every stream of the object (streamRecv, doPuts).
THEOREM RequestsKeptInOrder == Spec => []RequestsInOrder
<1>1. Init => RequestsInOrder
  BY DEF Init, RequestsInOrder, RequestInHand, When, NewChannel, Threads
<1>2. CollectorInv /\ RequestsInOrder /\ [Next]_vars => RequestsInOrder'
  BY RequestsStep
<1>3. QED
  BY <1>1, <1>2, CollectorInvariant, PTL DEF Spec

-----------------------------------------------------------------------------
(***************************************************************************)
(* Runs of numbers, and sequences of runs that follow on one another.      *)
(***************************************************************************)
LEMMA RunFacts ==
    ASSUME NEW a \in Nat, NEW b \in Nat, a <= b
    PROVE  /\ Replies!Run(a, b) \in Seq(Nat) /\ Len(Replies!Run(a, b)) = b - a
           /\ \A i \in 1..b - a: Replies!Run(a, b)[i] = a + i
<1>1. b - a \in Nat
  OBVIOUS
<1>2. QED
  BY <1>1 DEF Replies!Run

LEMMA RunGrows ==
    ASSUME NEW a \in Nat, NEW b \in Nat, a <= b
    PROVE  Replies!Run(a, b + 1) = Append(Replies!Run(a, b), b + 1)
<1> DEFINE r == Replies!Run(a, b)
           s == Replies!Run(a, b + 1)
<1>0. b + 1 \in Nat /\ a <= b + 1
  OBVIOUS
<1>r. r \in Seq(Nat) /\ Len(r) = b - a /\ \A i \in 1..b - a: r[i] = a + i
  BY <1>0, RunFacts
<1>s. s \in Seq(Nat) /\ Len(s) = b + 1 - a /\ \A i \in 1..b + 1 - a: s[i] = a + i
  BY <1>0, RunFacts
<1> HIDE DEF r, s
<1>2. Append(r, b + 1) \in Seq(Nat) /\ Len(Append(r, b + 1)) = Len(s)
  BY <1>r, <1>s
<1>3. \A i \in 1..Len(s): s[i] = Append(r, b + 1)[i]
  BY <1>r, <1>s
<1>4. QED
  BY <1>r, <1>s, <1>2, <1>3, SeqEqual DEF r, s

LEMMA RunShrinks ==
    ASSUME NEW a \in Nat, NEW b \in Nat, a < b
    PROVE  Head(Replies!Run(a, b)) = a + 1 /\ Tail(Replies!Run(a, b)) = Replies!Run(a + 1, b)
<1> DEFINE r == Replies!Run(a, b)
           s == Replies!Run(a + 1, b)
<1>0. a <= b /\ a + 1 \in Nat /\ a + 1 <= b
  OBVIOUS
<1>r. r \in Seq(Nat) /\ Len(r) = b - a /\ \A i \in 1..b - a: r[i] = a + i
  BY <1>0, RunFacts
<1>s. s \in Seq(Nat) /\ Len(s) = b - (a + 1) /\ \A i \in 1..b - (a + 1): s[i] = (a + 1) + i
  BY <1>0, RunFacts
<1> HIDE DEF r, s
<1>2. r # <<>> /\ Tail(r) \in Seq(Nat) /\ Len(Tail(r)) = Len(s)
  BY <1>r, <1>s
<1>3. \A i \in 1..Len(s): s[i] = Tail(r)[i]
  BY <1>r, <1>s, <1>2
<1>4. Head(r) = a + 1
  BY <1>r, <1>s, <1>2
<1>5. QED
  BY <1>r, <1>s, <1>2, <1>3, <1>4, SeqEqual DEF r, s

LEMMA NoRun ==
    ASSUME NEW a \in Nat
    PROVE  Replies!Run(a, a) = <<>>
BY RunFacts

\* A reply whose metrics begin at most one past what is known and end past it.
LEMMA HasGrows ==
    ASSUME NEW s \in Seq(Nat), NEW a \in Nat, NEW known \in Nat, NEW b \in Nat,
           a <= known, known <= b, Replies!Has(s, known)
    PROVE  Replies!Has(s \o Replies!Run(a, b), b)
<1> DEFINE r == Replies!Run(a, b)
<1>0. a <= b
  OBVIOUS
<1>1. r \in Seq(Nat) /\ Len(r) = b - a /\ \A i \in 1..b - a: r[i] = a + i
  BY <1>0, RunFacts
<1>2. {s[i]: i \in 1..Len(s)} = 1..known
  BY DEF Replies!Has
<1> HIDE DEF r
<1>3. s \o r \in Seq(Nat) /\ Len(s \o r) = Len(s) + (b - a)
  BY <1>1
<1>4. ASSUME NEW i \in 1..Len(s \o r)
      PROVE  (s \o r)[i] \in 1..b
  <2>1. CASE i <= Len(s)
    <3>1. i \in 1..Len(s) /\ (s \o r)[i] = s[i]
      BY <1>1, <1>3, <2>1
    <3>2. s[i] \in 1..known
      BY <1>2, <3>1
    <3>3. QED
      BY <3>1, <3>2
  <2>2. CASE i > Len(s)
    BY <1>1, <1>3, <2>2
  <2>3. QED
    BY <1>3, <2>1, <2>2
<1>5. ASSUME NEW n \in 1..b
      PROVE  \E i \in 1..Len(s \o r): (s \o r)[i] = n
  <2>1. CASE n <= known
    <3>n. n \in 1..known
      BY <2>1
    <3>0. n \in {s[i]: i \in 1..Len(s)}
      BY <1>2, <3>n
    <3>1. PICK i \in 1..Len(s): s[i] = n
      BY <3>0
    <3>2. i \in 1..Len(s \o r) /\ (s \o r)[i] = n
      BY <1>1, <1>3, <3>1
    <3>3. QED
      BY <3>2
  <2>2. CASE n > known
    <3>1. /\ Len(s) + (n - a) \in 1..Len(s \o r)
          /\ (s \o r)[Len(s) + (n - a)] = r[n - a] /\ n - a \in 1..b - a
      BY <1>1, <1>3, <2>2
    <3>2. r[n - a] = n
      BY <1>1, <3>1
    <3>3. QED
      BY <3>1, <3>2
  <2>3. QED
    BY <2>1, <2>2
<1>6. DOMAIN (s \o r) = 1..Len(s \o r)
  BY <1>3
<1>7. QED
  BY <1>4, <1>5, <1>6 DEF Replies!Has, r

LEMMA HasNext ==
    ASSUME NEW s \in Seq(Nat), NEW e \in Nat, NEW told \in Nat, e \in {told, told + 1},
           e # 0, Replies!Has(s, told)
    PROVE  Replies!Has(Append(s, e), e)
<1>1. CASE e = told + 1
  <2>1. Replies!Run(told, e) = <<e>>
    <3>0. told <= told
      OBVIOUS
    <3>1. Replies!Run(told, told + 1) = Append(Replies!Run(told, told), told + 1)
      BY <3>0, RunGrows
    <3>2. Replies!Run(told, told) = <<>>
      BY NoRun
    <3>3. Append(<<>>, e) = <<e>>
      OBVIOUS
    <3>4. QED
      BY <1>1, <3>1, <3>2, <3>3
  <2>2. Replies!Has(s \o <<e>>, e)
    BY <1>1, <2>1, HasGrows
  <2>3. QED
    BY <2>2, AppendIsConcat
<1>2. CASE e = told
  <2> DEFINE a == e - 1
  <2>1. a \in Nat /\ a + 1 = e
    BY <1>2
  <2> HIDE DEF a
  <2>2. Replies!Run(a, e) = <<e>>
    <3>0. a <= a
      BY <2>1
    <3>1. Replies!Run(a, a + 1) = Append(Replies!Run(a, a), a + 1)
      BY <2>1, <3>0, RunGrows
    <3>2. Replies!Run(a, a) = <<>>
      BY <2>1, NoRun
    <3>3. Append(<<>>, e) = <<e>>
      OBVIOUS
    <3>4. QED
      BY <2>1, <3>1, <3>2, <3>3
  <2>3. Replies!Has(s \o <<e>>, e)
    BY <1>2, <2>1, <2>2, HasGrows
  <2>4. QED
    BY <2>3, AppendIsConcat
<1>3. QED
  BY <1>1, <1>2

\* The sequences q, one after the other, are the run from a to b.
Chained(q, a, b) ==
    \E f \in [0..Len(q) -> Nat]:
        /\ f[0] = a /\ f[Len(q)] = b
        /\ \A i, j \in 0..Len(q): i <= j => f[i] <= f[j]
        /\ \A i \in 1..Len(q): q[i] = Replies!Run(f[i - 1], f[i])

LEMMA ChainedNone ==
    ASSUME NEW a \in Nat
    PROVE  Chained(<<>>, a, a)
<1> DEFINE f == [i \in 0..0 |-> a]
<1>1. /\ f \in [0..Len(<<>>) -> Nat] /\ f[0] = a
  OBVIOUS
<1>2. /\ \A i, j \in 0..Len(<<>>): i <= j => f[i] <= f[j]
      /\ f[Len(<<>>)] = a /\ 1..Len(<<>>) = {}
  OBVIOUS
<1> HIDE DEF f
<1>3. QED
  BY <1>1, <1>2 DEF Chained

LEMMA ChainedMore ==
    ASSUME NEW T, NEW q \in Seq(T), NEW x \in T, NEW a, NEW b \in Nat, NEW c \in Nat,
           b <= c, x = Replies!Run(b, c), Chained(q, a, b)
    PROVE  Chained(Append(q, x), a, c)
<1>1. PICK f \in [0..Len(q) -> Nat]:
          /\ f[0] = a /\ f[Len(q)] = b
          /\ \A i, j \in 0..Len(q): i <= j => f[i] <= f[j]
          /\ \A i \in 1..Len(q): q[i] = Replies!Run(f[i - 1], f[i])
  BY DEF Chained
<1> DEFINE n == Len(q)
           g == [i \in 0..n + 1 |-> IF i <= n THEN f[i] ELSE c]
           p == Append(q, x)
<1>2. n \in Nat /\ Len(p) = n + 1 /\ p[n + 1] = x /\ \A i \in 1..n: p[i] = q[i]
  OBVIOUS
<1> HIDE DEF n, p
<1>3. \A i \in 0..n: i \in 0..n + 1 /\ g[i] = f[i] /\ f[i] \in Nat /\ f[i] <= b
  BY <1>1, <1>2 DEF n
<1>4. n + 1 \in 0..n + 1 /\ g[n + 1] = c
  BY <1>2
<1>5. g \in [0..n + 1 -> Nat]
  BY <1>1, <1>2 DEF n
<1> HIDE DEF g
<1>6. ASSUME NEW i \in 0..n + 1, NEW j \in 0..n + 1, i <= j
      PROVE  g[i] <= g[j]
  <2>1. CASE j = n + 1
    BY <1>2, <1>3, <1>4, <2>1
  <2>2. CASE j # n + 1
    BY <1>1, <1>2, <1>3, <1>6, <2>2 DEF n
  <2>3. QED
    BY <2>1, <2>2
<1>7. ASSUME NEW i \in 1..n + 1
      PROVE  p[i] = Replies!Run(g[i - 1], g[i])
  <2>1. CASE i = n + 1
    <3>1. n \in 0..n /\ i - 1 = n /\ f[n] = b
      BY <1>1, <1>2, <2>1 DEF n
    <3>2. g[i - 1] = b /\ g[i] = c
      BY <1>3, <1>4, <2>1, <3>1
    <3>3. QED
      BY <1>2, <2>1, <3>2
  <2>2. CASE i # n + 1
    <3>1. i \in 1..n /\ i \in 0..n /\ i - 1 \in 0..n
      BY <1>2, <2>2
    <3>2. g[i - 1] = f[i - 1] /\ g[i] = f[i]
      BY <1>3, <3>1
    <3>3. QED
      BY <1>1, <1>2, <3>1, <3>2 DEF n
  <2>3. QED
    BY <2>1, <2>2
<1>8. g[0] = a /\ g[n + 1] = c
  BY <1>1, <1>2, <1>3, <1>4
<1>9. Chained(p, a, c)
  BY <1>2, <1>5, <1>6, <1>7, <1>8 DEF Chained
<1>10. QED
  BY <1>9 DEF p

LEMMA ChainedFirst ==
    ASSUME NEW T, NEW q \in Seq(T), NEW a \in Nat, NEW b \in Nat, q # <<>>, Chained(q, a, b)
    PROVE  \E c \in Nat: /\ a <= c /\ c <= b
                         /\ Head(q) = Replies!Run(a, c) /\ Chained(Tail(q), c, b)
<1>1. PICK f \in [0..Len(q) -> Nat]:
          /\ f[0] = a /\ f[Len(q)] = b
          /\ \A i, j \in 0..Len(q): i <= j => f[i] <= f[j]
          /\ \A i \in 1..Len(q): q[i] = Replies!Run(f[i - 1], f[i])
  BY DEF Chained
<1> DEFINE n == Len(q)
           p == Tail(q)
           g == [i \in 0..n - 1 |-> f[i + 1]]
<1>2. /\ n \in Nat /\ n >= 1 /\ Len(p) = n - 1 /\ Head(q) = q[1]
      /\ \A i \in 1..n - 1: p[i] = q[i + 1]
  OBVIOUS
<1> HIDE DEF n, p
<1>3. \A i \in 0..n - 1: i + 1 \in 0..n /\ f[i + 1] \in Nat /\ g[i] = f[i + 1]
  BY <1>1, <1>2 DEF n
<1>4. g \in [0..n - 1 -> Nat]
  BY <1>3
<1> HIDE DEF g
<1>5. g[0] = f[1] /\ g[n - 1] = b /\ f[1] \in Nat
  <2>1. 0 \in 0..n - 1 /\ n - 1 \in 0..n - 1 /\ (n - 1) + 1 = n /\ 0 + 1 = 1
    BY <1>2
  <2>2. g[0] = f[0 + 1] /\ g[n - 1] = f[(n - 1) + 1] /\ f[0 + 1] \in Nat
    BY <1>3, <2>1
  <2>3. QED
    BY <1>1, <2>1, <2>2 DEF n
<1>6. ASSUME NEW i \in 0..n - 1, NEW j \in 0..n - 1, i <= j
      PROVE  g[i] <= g[j]
  BY <1>1, <1>2, <1>3, <1>6 DEF n
<1>7. ASSUME NEW i \in 1..n - 1
      PROVE  p[i] = Replies!Run(g[i - 1], g[i])
  <2>1. /\ i - 1 \in 0..n - 1 /\ i \in 0..n - 1 /\ i + 1 \in 1..n
        /\ (i - 1) + 1 = i /\ (i + 1) - 1 = i
    BY <1>2
  <2>2. g[i - 1] = f[i] /\ g[i] = f[i + 1]
    BY <1>3, <2>1
  <2>3. q[i + 1] = Replies!Run(f[i], f[i + 1])
    BY <1>1, <2>1 DEF n
  <2>4. QED
    BY <1>2, <2>2, <2>3
<1>8. Chained(p, f[1], b)
  BY <1>2, <1>4, <1>5, <1>6, <1>7 DEF Chained
<1>9. a <= f[1] /\ f[1] <= b /\ q[1] = Replies!Run(a, f[1])
  <2>1. 0 \in 0..n /\ 1 \in 0..n /\ n \in 0..n /\ 1 \in 1..n /\ 1 - 1 = 0
    BY <1>2
  <2>2. f[0] <= f[1] /\ f[1] <= f[n]
    BY <1>1, <1>2, <2>1 DEF n
  <2>3. q[1] = Replies!Run(f[1 - 1], f[1])
    BY <1>1, <2>1 DEF n
  <2>4. QED
    BY <1>1, <2>1, <2>2, <2>3 DEF n
<1>10. QED
  BY <1>2, <1>5, <1>8, <1>9 DEF p

LEMMA ChainedAscends ==
    ASSUME NEW T, NEW q \in Seq(T), NEW a, NEW b, Chained(q, a, b)
    PROVE  a \in Nat /\ b \in Nat /\ a <= b
<1>1. 0 \in 0..Len(q) /\ Len(q) \in 0..Len(q) /\ 0 <= Len(q)
  OBVIOUS
<1>2. QED
  BY <1>1 DEF Chained

(***************************************************************************)
(* What is on its way: the batches that wait are consecutive runs, and so  *)
(* are send_mets and the buffer; of the latter a part may have been in a   *)
(* reply, which all of what came before it has.                            *)
(***************************************************************************)
InFlight == sendChan.queue \o ShownBatch
InFlightFed == Chained(InFlight, Len(hist.unpacked), Len(hist.made))

Buffered == Len(hist.unpacked) - Len(batch)
Cleared == Buffered - Len(metricsReply)

MetricsFed ==
    /\ Cleared \in Nat
    /\ batch = Replies!Run(Buffered, Len(hist.unpacked))
    /\ metricsReply = Replies!Run(Cleared, Buffered)
    /\ \E known \in Cleared..Buffered:
          /\ Replies!Has(wire.mets, known)
          /\ pc["metricSend"] \in Clearing => known = Buffered

\* errReply is the error reported last, or the one after it that is in hand.
ErrorsFed ==
    /\ hist.raised = Replies!Run(0, Len(hist.raised))
    /\ errReply = Len(hist.reported) + Len(ErrorInHand)
    /\ errReply <= Len(hist.raised)
    /\ \E told \in {errReply - Len(ErrorInHand), errReply}: Replies!Has(wire.errs, told)

FeedInv == InFlightFed /\ MetricsFed /\ ErrorsFed

LEMMA FeedTypes ==
    ASSUME CollectorInv
    PROVE  /\ Len(hist.unpacked) \in Nat /\ Len(hist.made) \in Nat
           /\ Len(hist.raised) \in Nat /\ Len(hist.reported) \in Nat
           /\ Len(batch) \in Nat /\ Len(metricsReply) \in Nat /\ errReply \in Nat
           /\ wire.mets \in Seq(Nat) /\ wire.errs \in Seq(Nat)
           /\ sendChan.queue \in Seq(Seq(Metric)) /\ InFlight \in Seq(Seq(Metric))
           /\ ShownBatch \in Seq(Seq(Metric))
<1>1. sendChan.queue \in Seq(Seq(Metric)) /\ ShownBatch \in Seq(Seq(Metric))
  BY ChannelFields DEF CollectorInv, TypeOK, ChannelsOK, PluginOK, ShownBatch, When
<1>2. Metric \subseteq Nat /\ Error \subseteq Nat
  BY DEF Metric, Error
<1>3. wire.mets \in Seq(Metric) /\ wire.errs \in Seq(Error)
  BY DEF CollectorInv, TypeOK, HistoryOK
<1>4. wire.mets \in Seq(Nat) /\ wire.errs \in Seq(Nat)
  BY <1>2, <1>3, SeqMonotonic
<1>5. errReply \in Nat
  BY <1>2 DEF CollectorInv, TypeOK, BuffersOK, NoError
<1>6. QED
  BY <1>1, <1>4, <1>5, ConcatProperties
     DEF CollectorInv, TypeOK, HistoryOK, LocalsOK, BuffersOK, InFlight

LEMMA TailOfConcat ==
    ASSUME NEW T, NEW a \in Seq(T), NEW b \in Seq(T), a # <<>>
    PROVE  /\ a \o b # <<>> /\ Head(a \o b) = Head(a) /\ Tail(a \o b) = Tail(a) \o b
<1>1. Head(a) \in T /\ Tail(a) \in Seq(T) /\ a = <<Head(a)>> \o Tail(a)
  OBVIOUS
<1>2. a \o b = <<Head(a)>> \o (Tail(a) \o b)
  BY <1>1, ConcatAssociative
<1>3. Tail(a) \o b \in Seq(T)
  BY <1>1, ConcatProperties
<1>4. QED
  BY <1>1, <1>2, <1>3

\* The next batch follows on what metricSend has unpacked.
LEMMA FrontFollows ==
    ASSUME CollectorInv, InFlightFed, ~IsEmpty(sendChan)
    PROVE  \E c \in Nat: /\ Len(hist.unpacked) <= c
                         /\ Front(sendChan) = Replies!Run(Len(hist.unpacked), c)
                         /\ Chained(Tail(sendChan.queue) \o ShownBatch, c, Len(hist.made))
<1>1. /\ sendChan.queue # <<>> /\ Front(sendChan) = Head(sendChan.queue)
      /\ Len(hist.unpacked) \in Nat /\ Len(hist.made) \in Nat /\ InFlight \in Seq(Seq(Metric))
      /\ sendChan.queue \in Seq(Seq(Metric)) /\ ShownBatch \in Seq(Seq(Metric))
  BY FeedTypes DEF IsEmpty, Front
<1>2. /\ InFlight # <<>> /\ Head(InFlight) = Head(sendChan.queue)
      /\ Tail(InFlight) = Tail(sendChan.queue) \o ShownBatch
  BY <1>1, TailOfConcat DEF InFlight
<1>3. \E c \in Nat: /\ Len(hist.unpacked) <= c /\ c <= Len(hist.made)
                    /\ Head(InFlight) = Replies!Run(Len(hist.unpacked), c)
                    /\ Chained(Tail(InFlight), c, Len(hist.made))
  BY <1>1, <1>2, ChainedFirst DEF InFlightFed
<1>4. QED
  BY <1>1, <1>2, <1>3

LEMMA InFlightStep ==
    ASSUME PluginWaits, CollectorInv, FlagInv, InFlightFed, [Next]_vars
    PROVE  InFlightFed'
<1>0. /\ sendChan \in ChannelOf(Seq(Metric)) /\ plugin.metsOut \in Seq(Metric)
      /\ sendChan.queue \in Seq(Seq(Metric)) /\ ShownBatch \in Seq(Seq(Metric))
  BY FeedTypes DEF CollectorInv, TypeOK, ChannelsOK, PluginOK
<1>1. CASE /\ hist'.unpacked = hist.unpacked /\ hist'.made = hist.made
           /\ sendChan'.queue = sendChan.queue /\ ShownBatch' = ShownBatch
  BY <1>1 DEF InFlightFed, InFlight
<1>2. CASE PutsMets /\ plugin.putMets /\ ~sendChan.closed
  <2>1. /\ ShownBatch = <<plugin.metsOut>> /\ ShownBatch' = <<>>
        /\ hist'.unpacked = hist.unpacked /\ hist'.made = hist.made
        /\ sendChan' = Pushed(sendChan, plugin.metsOut)
    BY <1>2 DEF PutsMets, ShownBatch, When, FlagInv, CollectorInv, TypeOK, HistoryOK
  <2>2. sendChan'.queue = Append(sendChan.queue, plugin.metsOut)
    BY <1>0, <2>1, PushedFacts
  <2>3. sendChan.queue \o <<plugin.metsOut>> = Append(sendChan.queue, plugin.metsOut) \o <<>>
    BY <1>0, MoveInNext
  <2>4. QED
    BY <2>1, <2>2, <2>3 DEF InFlightFed, InFlight
<1>3. CASE SendGets /\ ~IsEmpty(sendChan)
  <2>1. PICK c \in Nat: /\ Len(hist.unpacked) <= c
                        /\ Front(sendChan) = Replies!Run(Len(hist.unpacked), c)
                        /\ Chained(Tail(sendChan.queue) \o ShownBatch, c, Len(hist.made))
    BY <1>3, FrontFollows
  <2>2. /\ hist'.made = hist.made /\ hist'.unpacked = hist.unpacked \o Front(sendChan)
        /\ sendChan' = Popped(sendChan) /\ ShownBatch' = ShownBatch
    BY <1>3 DEF SendGets, ShownBatch, When, Go, CollectorInv, TypeOK, PlacesOK, HistoryOK,
                Threads
  <2>3. sendChan'.queue = Tail(sendChan.queue)
    BY <1>0, <1>3, <2>2, PoppedFacts
  <2>4. Front(sendChan) \in Seq(Nat) /\ Len(Front(sendChan)) = c - Len(hist.unpacked)
    BY <2>1, FeedTypes, RunFacts
  <2>5. Len(hist'.unpacked) = c
    BY <2>1, <2>2, <2>4 DEF CollectorInv, TypeOK, HistoryOK
  <2>6. QED
    BY <2>1, <2>2, <2>3, <2>5 DEF InFlightFed, InFlight
<1>4. ASSUME NEW n \in BatchSizes, PluginProduces(n)
      PROVE  InFlightFed'
  <2> DEFINE made == Len(hist.made)
             b == [i \in 1..n |-> made + i]
  <2>1. n \in Nat /\ made \in Nat /\ made + n <= MaxMetrics
    BY <1>4, BoundsAssumption DEF CollectorInv, TypeOK, HistoryOK, PluginProduces
  <2>2. b \in Seq(Metric) /\ Len(b) = n /\ b = Replies!Run(made, made + n)
    <3>1. (made + n) - made = n
      BY <2>1
    <3>2. QED
      BY <2>1, <3>1, BatchType DEF Replies!Run
  <2>3. /\ hist'.made = hist.made \o b /\ hist'.unpacked = hist.unpacked
        /\ sendChan' = sendChan /\ plugin'.metsOut = b
        /\ ~plugin.putMets /\ hist'.newBatch
    BY <1>4 DEF PluginProduces, CollectorInv, TypeOK, HistoryOK, PluginOK, chans
  <2>4. ShownBatch = <<>> /\ ShownBatch' = <<b>>
    BY <2>3 DEF ShownBatch, When, CollectorInv, ControlOK
  <2> HIDE DEF b
  <2>5. Len(hist'.made) = made + n
    BY <2>2, <2>3 DEF CollectorInv, TypeOK, HistoryOK
  <2>6. InFlight = sendChan.queue /\ InFlight' = Append(sendChan.queue, b)
    BY <1>0, <2>2, <2>3, <2>4, ConcatEmptySeq, AppendIsConcat DEF InFlight
  <2>7. made <= made + n /\ made + n \in Nat
    BY <2>1
  <2>8. Chained(sendChan.queue, Len(hist.unpacked), made)
    BY <2>6 DEF InFlightFed
  <2> HIDE DEF made
  <2>9. Chained(Append(sendChan.queue, b), Len(hist.unpacked), made + n)
    BY <1>0, <2>1, <2>2, <2>7, <2>8, ChainedMore
  <2>10. QED
    BY <2>3, <2>5, <2>6, <2>9 DEF InFlightFed
<1> USE DEF CollectorInv, TypeOK, PlacesOK, HistoryOK, PluginOK, ShownBatch, When, Go,
            Threads, chans
<1>5. CASE ClearsMets
  BY <1>1, <1>5 DEF ClearsMets, FlagInv
<1>6. CASE StartStream
  BY <1>1, <1>6 DEF StartStream, Joined, ControlOK
<1>7. ASSUME NEW t \in Threads, Enter(t)
      PROVE  InFlightFed'
  BY <1>1, <1>7 DEF Enter, FirstPlace
<1>8. ASSUME NEW t \in Threads, Leave(t)
      PROVE  InFlightFed'
  BY <1>0, <1>1, <1>8, ClosedFacts DEF Leave
<1>9. ASSUME NEW t \in Threads, Tell(t) \/ TellThrows(t)
      PROVE  InFlightFed'
  BY <1>1, <1>9 DEF Tell, TellThrows
<1>10. CASE MetricSend /\ ~(SendGets /\ ~IsEmpty(sendChan))
  BY <1>1, <1>10 DEF MetricSend, SendGets, AddMetric, WriteFull, BatchDone, DurationTest,
                     Clear, SendReply
<1>11. CASE ErrorSend
  BY <1>1, <1>11 DEF ErrorSend, ErrGets, ErrWrites, Remember
<1>12. CASE RecvReadFails \/ RecvPuts
  BY <1>1, <1>12 DEF RecvReadFails, RecvPuts
<1>13. CASE PutsErr \/ ClearsErr \/ PutsRecv \/ (PutsMets /\ ~(plugin.putMets /\ ~sendChan.closed))
  BY <1>1, <1>13 DEF PutsErr, ClearsErr, PutsRecv, PutsMets
<1>14. CASE HandlerEnds \/ PluginReturns \/ PluginThrows \/ PutsCallbackThrows
            \/ PutsRecvThrows \/ ClientCancels \/ TimePasses
  BY <1>1, <1>14 DEF HandlerEnds, PluginReturns, PluginThrows, PutsCallbackThrows,
                     PutsRecvThrows, ClientCancels, TimePasses, environment
<1>15. CASE PluginRaises
  BY <1>1, <1>15 DEF PluginRaises, Remember, environment
<1>16. ASSUME NEW r \in Requests, RecvReads(r)
       PROVE  InFlightFed'
  BY <1>1, <1>16 DEF RecvReads, Remember
<1>17. CASE UNCHANGED vars
  BY <1>1, <1>17 DEF vars, environment
<1>18. QED
  BY <1>2, <1>3, <1>4, <1>5, <1>6, <1>7, <1>8, <1>9, <1>10, <1>11, <1>12, <1>13, <1>14,
     <1>15, <1>16, <1>17 DEF Next, Step, MetricSend, DoPuts, Environment

\* A Write leaves in the replies all that has been buffered, whoever writes.
LEMMA WriteCovers ==
    ASSUME CollectorInv, MetricsFed, Write
    PROVE  Replies!Has(wire'.mets, Buffered)
<1>1. PICK known \in Cleared..Buffered: Replies!Has(wire.mets, known)
  BY DEF MetricsFed
<1>2. /\ Cleared \in Nat /\ Buffered \in Nat /\ known \in Nat
      /\ Cleared <= known /\ known <= Buffered /\ wire.mets \in Seq(Nat)
  <2>1. /\ Cleared \in Nat /\ Buffered \in Int /\ Len(metricsReply) \in Nat
        /\ Cleared = Buffered - Len(metricsReply)
    BY FeedTypes DEF MetricsFed, Buffered, Cleared
  <2>2. wire.mets \in Seq(Nat)
    BY FeedTypes
  <2>3. QED
    BY <1>1, <2>1, <2>2
<1>3. wire'.mets = wire.mets \o Replies!Run(Cleared, Buffered)
  BY DEF Write, MetricsFed
<1>4. QED
  BY <1>1, <1>2, <1>3, HasGrows

LEMMA MetricsFedStep ==
    ASSUME CollectorInv, InFlightFed, MetricsFed, [Next]_vars
    PROVE  MetricsFed'
<1>0. /\ Len(hist.unpacked) \in Nat /\ Len(batch) \in Nat /\ Len(metricsReply) \in Nat
      /\ Cleared \in Nat /\ Buffered \in Nat /\ Cleared <= Buffered
      /\ Buffered <= Len(hist.unpacked)
  BY FeedTypes DEF MetricsFed, Buffered, Cleared
<1>1. CASE /\ hist'.unpacked = hist.unpacked /\ batch' = batch
           /\ metricsReply' = metricsReply /\ wire' = wire
           /\ pc'["metricSend"] \in Clearing => pc["metricSend"] \in Clearing
  <2>1. PICK known \in Cleared..Buffered:
            /\ Replies!Has(wire.mets, known)
            /\ pc["metricSend"] \in Clearing => known = Buffered
    BY DEF MetricsFed
  <2>2. Cleared' = Cleared /\ Buffered' = Buffered
    BY <1>1 DEF Cleared, Buffered
  <2>3. \E k \in Cleared'..Buffered':
            /\ Replies!Has(wire'.mets, k)
            /\ pc'["metricSend"] \in Clearing => k = Buffered'
    BY <1>1, <2>1, <2>2
  <2>4. QED
    BY <1>1, <2>2, <2>3 DEF MetricsFed
<1>2. CASE SendGets /\ ~IsEmpty(sendChan)
  <2>1. PICK c \in Nat: /\ Len(hist.unpacked) <= c
                        /\ Front(sendChan) = Replies!Run(Len(hist.unpacked), c)
    BY <1>2, FrontFollows
  <2>2. /\ hist'.unpacked = hist.unpacked \o Front(sendChan)
        /\ batch = <<>> /\ batch' = Front(sendChan)
        /\ metricsReply' = metricsReply /\ wire' = wire
        /\ pc'["metricSend"] \notin Clearing
    BY <1>2 DEF SendGets, Go, buffers, Clearing, CollectorInv, TypeOK, PlacesOK, HistoryOK,
                ControlOK, Threads
  <2>3. Front(sendChan) \in Seq(Nat) /\ Len(Front(sendChan)) = c - Len(hist.unpacked)
    BY <2>1, FeedTypes, RunFacts
  <2>4. Len(hist'.unpacked) = c /\ Len(batch') = c - Len(hist.unpacked)
    BY <1>0, <2>1, <2>2, <2>3 DEF CollectorInv, TypeOK, HistoryOK
  <2>5. Buffered = Len(hist.unpacked) /\ Buffered' = Buffered /\ Cleared' = Cleared
    BY <1>0, <2>1, <2>2, <2>4 DEF Buffered, Cleared
  <2>6. PICK known \in Cleared..Buffered: Replies!Has(wire.mets, known)
    BY DEF MetricsFed
  <2>7. \E k \in Cleared'..Buffered':
            /\ Replies!Has(wire'.mets, k)
            /\ pc'["metricSend"] \in Clearing => k = Buffered'
    BY <2>2, <2>5, <2>6
  <2>8. batch' = Replies!Run(Buffered', Len(hist'.unpacked))
    BY <2>1, <2>2, <2>4, <2>5
  <2>9. QED
    BY <1>0, <2>2, <2>5, <2>7, <2>8 DEF MetricsFed
<1>3. CASE AddMetric
  <2>1. /\ hist' = hist /\ wire' = wire /\ batch # <<>>
        /\ metricsReply' = Append(metricsReply, Head(batch)) /\ batch' = Tail(batch)
        /\ pc'["metricSend"] \notin Clearing
    BY <1>3 DEF AddMetric, Go, Clearing, CollectorInv, TypeOK, PlacesOK, ControlOK, Threads
  <2>2. /\ Len(batch') = Len(batch) - 1 /\ Len(batch) > 0
        /\ Len(metricsReply') = Len(metricsReply) + 1
    BY <2>1 DEF CollectorInv, TypeOK, LocalsOK, BuffersOK
  <2>3. Buffered' = Buffered + 1 /\ Cleared' = Cleared /\ Buffered < Len(hist.unpacked)
    <3>1. Len(hist'.unpacked) = Len(hist.unpacked)
      BY <2>1
    <3>2. Buffered' = Buffered + 1 /\ Buffered < Len(hist.unpacked)
      BY <1>0, <2>2, <3>1 DEF Buffered
    <3>3. Cleared' = Cleared
      BY <1>0, <2>2, <3>2 DEF Cleared
    <3>4. QED
      BY <3>2, <3>3
  <2>4. /\ Head(batch) = Buffered + 1
        /\ Tail(batch) = Replies!Run(Buffered + 1, Len(hist.unpacked))
    BY <1>0, <2>3, RunShrinks DEF MetricsFed
  <2>5. Replies!Run(Cleared, Buffered + 1) = Append(Replies!Run(Cleared, Buffered), Buffered + 1)
    BY <1>0, RunGrows
  <2>6. PICK known \in Cleared..Buffered: Replies!Has(wire.mets, known)
    BY DEF MetricsFed
  <2>7. \E k \in Cleared'..Buffered':
            /\ Replies!Has(wire'.mets, k)
            /\ pc'["metricSend"] \in Clearing => k = Buffered'
    <3>1. known \in Cleared'..Buffered'
      BY <1>0, <2>3
    <3>2. QED
      BY <2>1, <2>6, <3>1
  <2>8. /\ batch' = Replies!Run(Buffered', Len(hist'.unpacked))
        /\ metricsReply' = Replies!Run(Cleared', Buffered')
    BY <2>1, <2>3, <2>4, <2>5 DEF MetricsFed
  <2>9. QED
    BY <1>0, <2>3, <2>7, <2>8 DEF MetricsFed
<1>4. CASE /\ pc'["metricSend"] \in Clearing
           /\ SendReply /\ UNCHANGED <<metricsReply, batch>>
  <2>1. hist'.unpacked = hist.unpacked
    BY <1>4 DEF SendReply, CollectorInv, TypeOK, HistoryOK
  <2>2. Cleared' = Cleared /\ Buffered' = Buffered
    BY <1>4, <2>1 DEF Cleared, Buffered
  <2>3. Replies!Has(wire'.mets, Buffered)
    <3>1. CASE metricsReply = <<>>
      <4>1. wire' = wire /\ Cleared = Buffered
        BY <1>0, <1>4, <3>1 DEF SendReply, Cleared
      <4>2. PICK known \in Cleared..Buffered: Replies!Has(wire.mets, known)
        BY DEF MetricsFed
      <4>3. known = Buffered
        BY <1>0, <4>1
      <4>4. QED
        BY <4>1, <4>2, <4>3
    <3>2. CASE metricsReply # <<>>
      BY <1>4, <3>2, WriteCovers DEF SendReply
    <3>3. QED
      BY <3>1, <3>2
  <2>4. Buffered \in Cleared..Buffered
    BY <1>0
  <2>5. QED
    BY <1>4, <2>1, <2>2, <2>3, <2>4 DEF MetricsFed
<1>5. CASE ErrWrites
  <2>1. /\ hist'.unpacked = hist.unpacked /\ batch' = batch
        /\ metricsReply' = metricsReply /\ pc'["metricSend"] = pc["metricSend"]
    BY <1>5 DEF ErrWrites, Remember, Go, buffers, locals, CollectorInv, TypeOK, PlacesOK,
                HistoryOK, Threads
  <2>2. Cleared' = Cleared /\ Buffered' = Buffered
    BY <2>1 DEF Cleared, Buffered
  <2>3. Replies!Has(wire'.mets, Buffered) /\ Buffered \in Cleared..Buffered
    BY <1>0, <1>5, WriteCovers DEF ErrWrites
  <2>4. QED
    BY <2>1, <2>2, <2>3 DEF MetricsFed
<1>6. CASE Clear
  <2>1. /\ hist' = hist /\ wire' = wire /\ batch' = batch /\ metricsReply' = <<>>
        /\ pc["metricSend"] \in Clearing
    BY <1>6 DEF Clear, EmptyBuffer, locals, Clearing
  <2>2. Buffered' = Buffered /\ Cleared' = Buffered
    BY <1>0, <2>1 DEF Buffered, Cleared
  <2>3. Replies!Has(wire.mets, Buffered)
    BY <2>1 DEF MetricsFed
  <2>4. metricsReply' = Replies!Run(Cleared', Buffered') /\ Buffered \in Buffered..Buffered
    BY <1>0, <2>1, <2>2, NoRun
  <2>5. QED
    BY <1>0, <2>1, <2>2, <2>3, <2>4 DEF MetricsFed
<1> USE DEF CollectorInv, TypeOK, PlacesOK, HistoryOK, Go, Threads, Clearing
<1>7. CASE WriteFull
  BY <1>4, <1>7 DEF WriteFull, buffers, locals
<1>8. CASE BatchDone
  BY <1>1, <1>4, <1>8 DEF BatchDone, buffers, locals
<1>9. CASE DurationTest
  BY <1>1, <1>4, <1>9 DEF DurationTest, buffers, locals
<1>10. CASE SendGets /\ IsEmpty(sendChan)
  BY <1>1, <1>10 DEF SendGets, buffers
<1>11. CASE StartStream
  BY <1>1, <1>11 DEF StartStream, Joined, ControlOK
<1>12. ASSUME NEW t \in Threads, Enter(t)
       PROVE  MetricsFed'
  BY <1>1, <1>12 DEF Enter, FirstPlace, buffers, locals
<1>13. ASSUME NEW t \in Threads, Leave(t) \/ Tell(t) \/ TellThrows(t)
       PROVE  MetricsFed'
  BY <1>1, <1>13 DEF Leave, Tell, TellThrows, buffers, locals
<1>14. CASE ErrGets
  BY <1>1, <1>14 DEF ErrGets, locals
<1>15. CASE RecvReadFails \/ RecvPuts
  BY <1>1, <1>15 DEF RecvReadFails, RecvPuts, buffers, locals
<1>16. CASE DoPuts
  BY <1>1, <1>16 DEF DoPuts, PutsMets, ClearsMets, PutsErr, ClearsErr, PutsRecv, buffers,
                     locals
<1>17. CASE \/ HandlerEnds \/ PluginReturns \/ PluginThrows \/ PutsCallbackThrows
            \/ PutsRecvThrows \/ ClientCancels \/ TimePasses
  BY <1>1, <1>17 DEF HandlerEnds, PluginReturns, PluginThrows, PutsCallbackThrows,
                     PutsRecvThrows, ClientCancels, TimePasses, buffers, locals
<1>18. CASE PluginRaises \/ \E n \in BatchSizes: PluginProduces(n)
  BY <1>1, <1>18 DEF PluginRaises, PluginProduces, Remember, buffers, locals
<1>19. ASSUME NEW r \in Requests, RecvReads(r)
       PROVE  MetricsFed'
  BY <1>1, <1>19 DEF RecvReads, Remember
<1>20. CASE UNCHANGED vars
  BY <1>1, <1>20 DEF vars, buffers, locals
<1>21. QED
  BY <1>2, <1>3, <1>5, <1>6, <1>7, <1>8, <1>9, <1>10, <1>11, <1>12, <1>13, <1>14, <1>15,
     <1>16, <1>17, <1>18, <1>19, <1>20 DEF Next, Step, MetricSend, ErrorSend, Environment

\* A Write leaves in the replies all errors up to the one in _err_reply.
LEMMA WriteTells ==
    ASSUME CollectorInv, ErrorsFed, Write
    PROVE  Replies!Has(wire'.errs, errReply)
<1>1. PICK told \in {errReply - Len(ErrorInHand), errReply}: Replies!Has(wire.errs, told)
  BY DEF ErrorsFed
<1>2. errReply \in Nat /\ wire.errs \in Seq(Nat)
  BY FeedTypes
<1>3. CASE errReply = NoError
  <2>1. ErrorInHand = <<>>
    BY <1>3 DEF ErrorInHand, When, CollectorInv, ControlOK
  <2>2. told = errReply
    BY <1>1, <1>2, <2>1
  <2>3. wire'.errs = wire.errs
    BY <1>3 DEF Write
  <2>4. QED
    BY <1>1, <2>2, <2>3
<1>4. CASE errReply # NoError
  <2>1. Len(ErrorInHand) \in {0, 1}
    BY DEF ErrorInHand, When
  <2>2. told \in Nat /\ errReply \in {told, told + 1} /\ errReply # 0
    <3>1. errReply # 0
      BY <1>4 DEF NoError
    <3>2. CASE Len(ErrorInHand) = 0
      BY <1>1, <1>2, <3>1, <3>2
    <3>3. CASE Len(ErrorInHand) = 1
      BY <1>1, <1>2, <3>1, <3>3
    <3>4. QED
      BY <2>1, <3>2, <3>3
  <2>3. wire'.errs = Append(wire.errs, errReply)
    BY <1>4 DEF Write
  <2>4. QED
    BY <1>1, <1>2, <2>2, <2>3, HasNext
<1>5. QED
  BY <1>3, <1>4

LEMMA ErrorsFedStep ==
    ASSUME PluginWaits, CollectorInv, ErrorsInOrder, ErrorsFed, [Next]_vars
    PROVE  ErrorsFed'
<1>0. /\ errReply \in Nat /\ Len(hist.raised) \in Nat /\ Len(hist.reported) \in Nat
      /\ hist.raised \in Seq(Error) /\ hist.reported \in Seq(Error)
      /\ errChan \in ChannelOf(Error) /\ errChan.queue \in Seq(Error)
  BY FeedTypes, ChannelFields DEF CollectorInv, TypeOK, ChannelsOK, HistoryOK
<1>1. CASE /\ hist'.raised = hist.raised /\ hist'.reported = hist.reported
           /\ errReply' = errReply /\ ErrorInHand' = ErrorInHand /\ wire' = wire
  BY <1>1 DEF ErrorsFed
<1>2. CASE ErrGets /\ ~IsEmpty(errChan)
  <2>1. /\ ErrorInHand = <<>> /\ ErrorInHand' = <<errReply'>> /\ wire' = wire
        /\ hist' = hist /\ errChan.queue # <<>> /\ errReply' = Head(errChan.queue)
    BY <1>2 DEF ErrGets, ErrorInHand, When, Go, Front, IsEmpty, CollectorInv, TypeOK,
                PlacesOK, Threads
  <2> DEFINE r == hist.reported
             s == errChan.queue \o ShownError
  <2>2. ShownError \in Seq(Error)
    BY DEF CollectorInv, TypeOK, PluginOK, ControlOK, ShownError, When
  <2>3. s \in Seq(Error) /\ s # <<>> /\ Head(s) = errReply' /\ r \in Seq(Error)
    BY <1>0, <2>1, <2>2, ConcatProperties, TailOfConcat
  <2>4. hist.raised = r \o s
    <3>1. r \o <<>> = r
      BY <1>0, ConcatEmptySeq
    <3>2. QED
      BY <2>1, <3>1 DEF ErrorsInOrder
  <2> HIDE DEF r, s
  <2>5. /\ Len(hist.raised) = Len(r) + Len(s) /\ Len(s) >= 1
        /\ hist.raised[Len(r) + 1] = Head(s) /\ Len(r) \in Nat /\ Len(s) \in Nat
    BY <2>3, <2>4
  <2>6. \A i \in 1..Len(hist.raised): hist.raised[i] = i
    <3>1. 0 <= Len(hist.raised) /\ Len(hist.raised) - 0 = Len(hist.raised)
      BY <1>0
    <3>2. \A i \in 1..Len(hist.raised) - 0: Replies!Run(0, Len(hist.raised))[i] = 0 + i
      BY <1>0, <3>1, RunFacts
    <3>3. QED
      BY <3>1, <3>2 DEF ErrorsFed
  <2>7. errReply' = Len(r) + 1 /\ errReply' <= Len(hist.raised)
    BY <2>3, <2>5, <2>6
  <2>8. errReply = Len(r)
    BY <1>0, <2>1 DEF ErrorsFed, r
  <2>9. Replies!Has(wire.errs, errReply)
    BY <1>0, <2>1 DEF ErrorsFed
  <2>10. errReply = errReply' - Len(ErrorInHand') /\ Len(ErrorInHand') = 1
    BY <2>1, <2>5, <2>7, <2>8
  <2>11. errReply' = Len(hist'.reported) + Len(ErrorInHand')
    BY <2>1, <2>7, <2>10 DEF r
  <2>12. QED
    BY <2>1, <2>7, <2>9, <2>10, <2>11 DEF ErrorsFed
<1>3. CASE ErrWrites
  <2>1. /\ hist'.raised = hist.raised /\ hist'.reported = Append(hist.reported, errReply)
        /\ errReply' = errReply /\ ErrorInHand = <<errReply>> /\ ErrorInHand' = <<>>
    BY <1>3 DEF ErrWrites, Remember, ErrorInHand, When, Go, CollectorInv, TypeOK, PlacesOK,
                HistoryOK, buffers, Threads
  <2>2. Replies!Has(wire'.errs, errReply)
    BY <1>3, WriteTells DEF ErrWrites
  <2>3. /\ Len(hist'.reported) = Len(hist.reported) + 1
        /\ Len(ErrorInHand) = 1 /\ Len(ErrorInHand') = 0
    BY <1>0, <2>1
  <2>4. QED
    BY <1>0, <2>1, <2>2, <2>3 DEF ErrorsFed
<1>4. CASE SendReply /\ UNCHANGED <<errReply, ErrorInHand>>
  <2>1. hist'.raised = hist.raised /\ hist'.reported = hist.reported
    BY <1>4 DEF SendReply, CollectorInv, TypeOK, HistoryOK
  <2>2. CASE wire' = wire
    BY <1>1, <1>4, <2>1, <2>2
  <2>3. CASE Write
    BY <1>4, <2>1, <2>3, WriteTells DEF ErrorsFed
  <2>4. QED
    BY <1>4, <2>2, <2>3 DEF SendReply
<1>5. CASE PluginRaises
  <2> DEFINE n == Len(hist.raised)
  <2>1. /\ hist'.raised = Append(hist.raised, n + 1) /\ hist'.reported = hist.reported
        /\ errReply' = errReply /\ ErrorInHand' = ErrorInHand /\ wire' = wire
    BY <1>5 DEF PluginRaises, Remember, ErrorInHand, When, CollectorInv, TypeOK, HistoryOK,
                buffers
  <2>2. n \in Nat /\ 0 <= n
    BY <1>0
  <2>3. hist.raised = Replies!Run(0, n)
    BY DEF ErrorsFed
  <2>4. Len(hist'.raised) = n + 1
    BY <1>0, <2>1
  <2> HIDE DEF n
  <2>5. Replies!Run(0, n + 1) = Append(Replies!Run(0, n), n + 1)
    BY <2>2, RunGrows
  <2>6. errReply <= n + 1
    BY <1>0, <2>2 DEF ErrorsFed, n
  <2>7. QED
    BY <2>1, <2>3, <2>4, <2>5, <2>6 DEF ErrorsFed
<1> USE DEF CollectorInv, TypeOK, PlacesOK, HistoryOK, ErrorInHand, When, Go, Threads
<1>6. CASE StartStream
  BY <1>1, <1>6 DEF StartStream, Joined, ControlOK
<1>7. ASSUME NEW t \in Threads, Enter(t)
      PROVE  ErrorsFed'
  BY <1>1, <1>7 DEF Enter, FirstPlace, buffers
<1>8. ASSUME NEW t \in Threads, Leave(t) \/ Tell(t) \/ TellThrows(t)
      PROVE  ErrorsFed'
  BY <1>1, <1>8 DEF Leave, Tell, TellThrows, buffers
<1>9. CASE WriteFull \/ (BatchDone /\ SendAtOnce) \/ (DurationTest /\ overdue)
  BY <1>4, <1>9 DEF WriteFull, BatchDone, DurationTest, buffers
<1>10. CASE \/ SendGets \/ AddMetric \/ Clear
            \/ (BatchDone /\ ~SendAtOnce) \/ (DurationTest /\ ~overdue)
  BY <1>1, <1>10 DEF SendGets, AddMetric, Clear, BatchDone, DurationTest, buffers
<1>11. CASE ErrGets /\ IsEmpty(errChan)
  BY <1>1, <1>11 DEF ErrGets
<1>12. CASE RecvReadFails \/ RecvPuts
  BY <1>1, <1>12 DEF RecvReadFails, RecvPuts, buffers
<1>13. CASE DoPuts
  <2>1. hist'.raised = hist.raised /\ hist'.reported = hist.reported
    BY <1>13 DEF DoPuts, PutsErr, ClearsMets, PutsRecv, PutsMets, ClearsErr
  <2>2. pc'["errorSend"] = pc["errorSend"] /\ errReply' = errReply /\ wire' = wire
    BY <1>13 DEF DoPuts, PutsErr, ClearsMets, PutsRecv, PutsMets, ClearsErr, buffers
  <2>3. QED
    BY <1>1, <2>1, <2>2
<1>14. CASE \/ HandlerEnds \/ PluginReturns \/ PluginThrows \/ PutsCallbackThrows
            \/ PutsRecvThrows \/ ClientCancels \/ TimePasses
  BY <1>1, <1>14 DEF HandlerEnds, PluginReturns, PluginThrows, PutsCallbackThrows,
                     PutsRecvThrows, ClientCancels, TimePasses, buffers
<1>15. ASSUME NEW n \in BatchSizes, PluginProduces(n)
       PROVE  ErrorsFed'
  BY <1>1, <1>15 DEF PluginProduces, buffers
<1>16. ASSUME NEW r \in Requests, RecvReads(r)
       PROVE  ErrorsFed'
  BY <1>1, <1>16 DEF RecvReads, Remember
<1>17. CASE UNCHANGED vars
  BY <1>1, <1>17 DEF vars, buffers
<1>18. QED
  BY <1>2, <1>3, <1>5, <1>6, <1>7, <1>8, <1>9, <1>10, <1>11, <1>12, <1>13, <1>14, <1>15,
     <1>16, <1>17 DEF Next, Step, MetricSend, ErrorSend, Environment

LEMMA FeedInvariant == PluginWaits => (Spec => []FeedInv)
<1> SUFFICES ASSUME PluginWaits
             PROVE  Spec => []FeedInv
  OBVIOUS
<1>1. Init => FeedInv
  <2> SUFFICES ASSUME Init
               PROVE  FeedInv
    OBVIOUS
  <2>1. /\ InFlight = <<>> /\ Len(hist.unpacked) = 0 /\ Len(hist.made) = 0
        /\ Len(batch) = 0 /\ Len(metricsReply) = 0 /\ Len(hist.raised) = 0
        /\ Len(hist.reported) = 0 /\ ErrorInHand = <<>>
    BY DEF Init, InFlight, ShownBatch, ErrorInHand, When, NewChannel, Threads
  <2>2. InFlightFed
    BY <2>1, ChainedNone DEF InFlightFed
  <2>3. Buffered = 0 /\ Cleared = 0 /\ Replies!Run(0, 0) = <<>>
    BY <2>1, NoRun DEF Buffered, Cleared
  <2>4. Replies!Has(<<>>, 0)
    BY DEF Replies!Has
  <2>5. MetricsFed
    BY <2>1, <2>3, <2>4 DEF MetricsFed, Init
  <2>6. ErrorsFed
    BY <2>1, <2>3, <2>4 DEF ErrorsFed, Init, NoError
  <2>7. QED
    BY <2>2, <2>5, <2>6 DEF FeedInv
<1>2. CollectorInv /\ FlagInv /\ ErrorsInOrder /\ FeedInv /\ [Next]_vars => FeedInv'
  BY InFlightStep, MetricsFedStep, ErrorsFedStep DEF FeedInv
<1>3. QED
  BY <1>1, <1>2, CollectorInvariant, FlagInvariant, ErrorsKeptInOrder, PTL DEF Spec

\* Any Write is a reply that was promised.
LEMMA WriteReplies ==
    ASSUME CollectorInv, FeedInv, Write, Len(hist'.made) = Len(hist.made),
           Len(hist'.raised) = Len(hist.raised)
    PROVE  Replies!Reply
<1>1. PICK known \in Cleared..Buffered: Replies!Has(wire.mets, known)
  BY DEF FeedInv, MetricsFed
<1>2. PICK told \in {errReply - Len(ErrorInHand), errReply}: Replies!Has(wire.errs, told)
  BY DEF FeedInv, ErrorsFed
<1>3. Replies!CarriesMetrics
  <2>1. /\ Len(hist.unpacked) \in Nat /\ Len(hist.made) \in Nat
        /\ Len(batch) \in Nat /\ Len(metricsReply) \in Nat
    BY FeedTypes
  <2>2. Len(hist.unpacked) <= Len(hist.made)
    BY FeedTypes, ChainedAscends DEF FeedInv, InFlightFed
  <2>3. Cleared \in Nat /\ Buffered \in Nat /\ Buffered <= Len(hist.made)
    <3>1. Buffered \in Int /\ Buffered <= Len(hist.made)
      BY <2>1, <2>2 DEF Buffered
    <3>2. Cleared \in Nat /\ Cleared = Buffered - Len(metricsReply)
      BY DEF FeedInv, MetricsFed, Cleared
    <3>3. QED
      BY <2>1, <3>1, <3>2
  <2>4. /\ known \in 0..Len(hist.made) /\ Cleared \in 0..known
        /\ Buffered \in 0..Len(hist.made)
    BY <1>1, <2>1, <2>3
  <2>5. wire'.mets = wire.mets \o Replies!Run(Cleared, Buffered)
    BY DEF Write, FeedInv, MetricsFed
  <2>6. QED
    BY <1>1, <2>4, <2>5 DEF Replies!CarriesMetrics
<1>4. Replies!CarriesError \/ wire'.errs = wire.errs
  <2>1. CASE errReply = NoError
    BY <2>1 DEF Write
  <2>2. CASE errReply # NoError
    <3>1. wire'.errs = Append(wire.errs, errReply)
      BY <2>2 DEF Write
    <3>2. /\ errReply \in Nat /\ Len(hist.raised) \in Nat /\ errReply <= Len(hist.raised)
          /\ Len(ErrorInHand) \in {0, 1}
      BY FeedTypes DEF FeedInv, ErrorsFed, ErrorInHand, When
    <3>3. /\ told \in 0..Len(hist.raised)
          /\ errReply \in {told, told + 1} \cap 1..Len(hist.raised)
      <4>1. errReply # 0
        BY <2>2 DEF NoError
      <4>2. CASE Len(ErrorInHand) = 0
        BY <1>2, <3>2, <4>1, <4>2
      <4>3. CASE Len(ErrorInHand) = 1
        BY <1>2, <3>2, <4>1, <4>3
      <4>4. QED
        BY <3>2, <4>2, <4>3
    <3>4. QED
      BY <1>2, <3>1, <3>3 DEF Replies!CarriesError
  <2>3. QED
    BY <2>1, <2>2
<1>5. QED
  BY <1>3, <1>4 DEF Replies!Reply

LEMMA RepliesStep ==
    ASSUME CollectorInv, FeedInv, [Next]_vars
    PROVE  [Replies!Next]_Replies!vars
<1>1. CASE hist'.made = hist.made /\ hist'.raised = hist.raised /\ wire' = wire
  BY <1>1 DEF Replies!vars
<1>2. CASE hist'.made = hist.made /\ hist'.raised = hist.raised /\ Write
  BY <1>2, WriteReplies DEF Replies!Next
<1>3. ASSUME NEW n \in BatchSizes, PluginProduces(n)
      PROVE  [Replies!Next]_Replies!vars
  <2> DEFINE b == [i \in 1..n |-> Len(hist.made) + i]
  <2>1. n \in Nat /\ Len(hist.made) \in Nat /\ Len(hist.made) + n <= MaxMetrics
    BY <1>3, BoundsAssumption DEF CollectorInv, TypeOK, HistoryOK, PluginProduces
  <2>2. b \in Seq(Metric) /\ Len(b) = n
    BY <2>1, BatchType
  <2>3. hist'.made = hist.made \o b /\ hist'.raised = hist.raised /\ wire' = wire
    BY <1>3 DEF PluginProduces, CollectorInv, TypeOK, HistoryOK
  <2> HIDE DEF b
  <2>4. hist.made \in Seq(Metric)
    BY DEF CollectorInv, TypeOK, HistoryOK
  <2>5. Len(hist'.made) = Len(hist.made) + n
    BY <2>2, <2>3, <2>4, ConcatProperties
  <2>6. QED
    BY <2>3, <2>5 DEF Replies!Next, Replies!Make
<1>4. CASE PluginRaises
  <2>1. /\ hist'.made = hist.made /\ wire' = wire
        /\ hist'.raised = Append(hist.raised, Len(hist.raised) + 1)
    BY <1>4 DEF PluginRaises, Remember, CollectorInv, TypeOK, HistoryOK
  <2>2. Len(hist'.raised) = Len(hist.raised) + 1
    BY <2>1 DEF CollectorInv, TypeOK, HistoryOK
  <2>3. QED
    BY <2>1, <2>2 DEF Replies!Next, Replies!Raise
<1>5. CASE SendReply
  BY <1>1, <1>2, <1>5 DEF SendReply, CollectorInv, TypeOK, HistoryOK
<1>6. CASE ErrWrites
  BY <1>2, <1>6 DEF ErrWrites, Remember, CollectorInv, TypeOK, HistoryOK
<1> USE DEF CollectorInv, TypeOK, HistoryOK
<1>7. CASE StartStream
  BY <1>1, <1>7 DEF StartStream
<1>8. ASSUME NEW t \in Threads, Enter(t) \/ Leave(t) \/ Tell(t) \/ TellThrows(t)
      PROVE  [Replies!Next]_Replies!vars
  BY <1>1, <1>8 DEF Enter, Leave, Tell, TellThrows
<1>9. CASE MetricSend /\ ~SendReply
  BY <1>1, <1>9 DEF MetricSend, SendGets, AddMetric, WriteFull, BatchDone, DurationTest,
                    Clear
<1>10. CASE ErrGets \/ RecvReadFails \/ RecvPuts
  BY <1>1, <1>10 DEF ErrGets, RecvReadFails, RecvPuts
<1>11. CASE DoPuts
  BY <1>1, <1>11 DEF DoPuts, PutsMets, ClearsMets, PutsErr, ClearsErr, PutsRecv
<1>12. CASE \/ HandlerEnds \/ PluginReturns \/ PluginThrows \/ PutsCallbackThrows
            \/ PutsRecvThrows \/ ClientCancels \/ TimePasses
  BY <1>1, <1>12 DEF HandlerEnds, PluginReturns, PluginThrows, PutsCallbackThrows,
                     PutsRecvThrows, ClientCancels, TimePasses
<1>13. ASSUME NEW r \in Requests, RecvReads(r)
       PROVE  [Replies!Next]_Replies!vars
  BY <1>1, <1>13 DEF RecvReads, Remember
<1>14. CASE UNCHANGED vars
  BY <1>1, <1>14 DEF vars
<1>15. QED
  BY <1>3, <1>4, <1>5, <1>6, <1>7, <1>8, <1>9, <1>10, <1>11, <1>12, <1>13, <1>14
     DEF Next, Step, ErrorSend, Environment

\* The replies are those promised to Snap when the plugin waits for its flags
\* to be lowered, whichever of metricSend and errorSend writes them and whatever
\* callback throws (sendReply, errorSend): metrics come in order with none
\* skipped, and no error is skipped or comes after a later one.
THEOREM RepliesAsPromised == PluginWaits => (Spec => ImplementsReplies)
<1> SUFFICES ASSUME PluginWaits
             PROVE  Spec => ImplementsReplies
  OBVIOUS
<1>1. Init => Replies!Init
  BY DEF Init, Replies!Init
<1>2. CollectorInv /\ FeedInv /\ [Next]_vars => [Replies!Next]_Replies!vars
  BY RepliesStep
<1>3. Spec => []FeedInv
  BY FeedInvariant
<1>4. QED
  BY <1>1, <1>2, <1>3, CollectorInvariant, PTL DEF Spec, ImplementsReplies, Replies!Spec
=============================================================================
