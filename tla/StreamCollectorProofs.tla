----------------------- MODULE StreamCollectorProofs ------------------------
(***************************************************************************)
(* Proofs about StreamCollector: its types, when its channels are closed,  *)
(* how large its buffer grows.  For any number of metrics, errors,         *)
(* requests and streams, any sizes of batches and buffers.                 *)
(***************************************************************************)
EXTENDS StreamCollector, ChannelLemmas, TLAPS

(***************************************************************************)
(* Types and control.                                                      *)
(***************************************************************************)
LEMMA BatchType ==
    ASSUME NEW n \in Nat, NEW made \in Nat, made + n <= MaxMetrics
    PROVE  /\ [i \in 1..n |-> made + i] \in Seq(Metric)
           /\ Len([i \in 1..n |-> made + i]) = n
<1>1. MaxMetrics \in Nat
  BY BoundsAssumption
<1>2. [i \in 1..n |-> made + i] \in [1..n -> Metric]
  BY <1>1 DEF Metric
<1>3. [i \in 1..n |-> made + i] \in Seq(Metric)
  BY <1>2, SeqDef
<1>4. QED
  BY <1>3, LenProperties

LEMMA InitCollectorInv == Init => CollectorInv
<1> SUFFICES ASSUME Init PROVE CollectorInv
  OBVIOUS
<1>1. /\ 0 \in 0..MaxStreams /\ 0 \in 0..MaxRequests /\ InitBuffer \in Nat
      /\ MaxMetrics \in Nat /\ MaxErrors \in Nat
  BY BoundsAssumption
<1>2. NewChannel \in ChannelOf(Seq(Metric)) /\ NewChannel \in ChannelOf(Error)
      /\ NewChannel \in ChannelOf(Request)
  BY NewChannelType
<1>3. PlacesOK /\ ControlOK
  BY <1>1 DEF Init, PlacesOK, ControlOK, Threads, Joined, Loop, SendPlaces, ErrPlaces,
              RecvPlaces, PutsPlaces, NoError
<1>4. <<>> \in Seq(Metric) /\ <<>> \in Seq(Request)
  OBVIOUS
<1>5. ChannelsOK
  BY <1>2 DEF Init, ChannelsOK
<1>6. PluginOK
  BY <1>4 DEF Init, PluginOK, NoError
<1>7. BuffersOK
  BY <1>1, <1>4 DEF Init, BuffersOK, NoError
<1>8. LocalsOK
  BY <1>1 DEF Init, LocalsOK, Threads
<1>9. HistoryOK
  BY <1>1 DEF Init, HistoryOK
<1>10. QED
  BY <1>3, <1>5, <1>6, <1>7, <1>8, <1>9 DEF CollectorInv, TypeOK

LEMMA UnhiddenType ==
    ASSUME HistoryOK
    PROVE  BatchesUnhidden \in Seq(Seq(Metric)) /\ ErrorsUnhidden \in Seq(Error)
<1>1. ASSUME NEW T, NEW s \in Seq(T)
      PROVE  AllButLast(s) \in Seq(T)
  <2>1. Len(s) \in Nat /\ Len(s) - 1 <= Len(s) /\ \A i \in 1..Len(s) - 1: s[i] \in T
    OBVIOUS
  <2>2. QED
    BY <2>1, SubSeqProperties DEF AllButLast
<1>2. QED
  BY <1>1 DEF HistoryOK, BatchesUnhidden, ErrorsUnhidden

\* What get hands out of each channel.
LEMMA Fronts ==
    ASSUME CollectorInv
    PROVE  /\ ~IsEmpty(sendChan) => /\ Front(sendChan) \in Seq(Metric)
                                    /\ Popped(sendChan) \in ChannelOf(Seq(Metric))
           /\ ~IsEmpty(errChan) => /\ Front(errChan) \in Error
                                   /\ Popped(errChan) \in ChannelOf(Error)
           /\ ~IsEmpty(recvChan) => /\ Front(recvChan) \in Request
                                    /\ Popped(recvChan) \in ChannelOf(Request)
BY PoppedFacts DEF CollectorInv, TypeOK, ChannelsOK

\* What Write and sendReply add to what Snap has received.
LEMMA WriteType ==
    ASSUME HistoryOK, BuffersOK, Write
    PROVE  wire' \in [mets: Seq(Metric), errs: Seq(Error)]
<1>1. wire.mets \o metricsReply \in Seq(Metric)
  BY ConcatProperties DEF HistoryOK, BuffersOK
<1>2. errReply # NoError => Append(wire.errs, errReply) \in Seq(Error)
  BY DEF HistoryOK, BuffersOK
<1>3. QED
  BY <1>1, <1>2 DEF Write, HistoryOK

LEMMA SendReplyType ==
    ASSUME HistoryOK, BuffersOK, SendReply
    PROVE  HistoryOK'
<1>1. CASE metricsReply = <<>>
  BY <1>1 DEF SendReply, HistoryOK
<1>2. CASE metricsReply # <<>>
  <2>1. hist.sent \o metricsReply \in Seq(Metric)
    BY ConcatProperties DEF HistoryOK, BuffersOK
  <2>2. hist' = [hist EXCEPT !.sent = hist.sent \o metricsReply]
    BY <1>2 DEF SendReply
  <2>3. Write
    BY <1>2 DEF SendReply
  <2>4. QED
    BY <2>1, <2>2, <2>3, WriteType DEF HistoryOK
<1>3. QED
  BY <1>1, <1>2

(***************************************************************************)
(* One lemma per action.  In each, what the action leaves alone is one     *)
(* step, and every part of the invariant that it touches is another.       *)
(***************************************************************************)
LEMMA EnterInv ==
    ASSUME CollectorInv, NEW t \in Threads, Enter(t)
    PROVE  CollectorInv'
<1>1. PlacesOK'
  BY DEF CollectorInv, TypeOK, PlacesOK, Enter, Go, environment, Threads, Loop,
         Clearing, SendPlaces, ErrPlaces, RecvPlaces, PutsPlaces, FirstPlace
<1>2. ControlOK'
  BY DEF CollectorInv, TypeOK, PlacesOK, ControlOK, Enter, Go, environment,
         locals, buffers, Threads, Joined, PluginOK, NoError, FirstPlace
<1>3. LocalsOK'
  BY DEF CollectorInv, TypeOK, PlacesOK, LocalsOK, Enter, locals, Go, FirstPlace, Threads
<1>4. ChannelsOK' /\ PluginOK' /\ BuffersOK' /\ HistoryOK'
  BY DEF CollectorInv, TypeOK, ChannelsOK, PluginOK, BuffersOK, HistoryOK, Enter,
         chans, buffers
<1>5. QED
  BY <1>1, <1>2, <1>3, <1>4 DEF CollectorInv, TypeOK

LEMMA LeaveInv ==
    ASSUME CollectorInv, NEW t \in Threads, Leave(t)
    PROVE  CollectorInv'
<1>1. PlacesOK'
  BY DEF CollectorInv, TypeOK, PlacesOK, Leave, Go, environment, Threads, Loop,
         Clearing, SendPlaces, ErrPlaces, RecvPlaces, PutsPlaces
<1>2. ControlOK'
  BY DEF CollectorInv, TypeOK, PlacesOK, ControlOK, Leave, Go, environment,
         locals, buffers, Threads, Joined, PluginOK, NoError
<1>3. ChannelsOK'
  BY ClosedFacts DEF CollectorInv, TypeOK, ChannelsOK, Leave
<1>4. LocalsOK'
  BY DEF CollectorInv, TypeOK, PlacesOK, LocalsOK, Leave, locals, Go,
         environment, Threads, RecvPlaces, Loop
<1>5. PluginOK' /\ BuffersOK' /\ HistoryOK'
  BY DEF CollectorInv, TypeOK, PluginOK, BuffersOK, HistoryOK, Leave, buffers
<1>6. QED
  BY <1>1, <1>2, <1>3, <1>4, <1>5 DEF CollectorInv, TypeOK

LEMMA TellInv ==
    ASSUME CollectorInv, NEW t \in Threads, Tell(t)
    PROVE  CollectorInv'
<1>1. PlacesOK'
  BY DEF CollectorInv, TypeOK, PlacesOK, Tell, Go, environment, Threads, Loop,
         Clearing, SendPlaces, ErrPlaces, RecvPlaces, PutsPlaces
<1>2. ControlOK'
  BY DEF CollectorInv, TypeOK, PlacesOK, ControlOK, Tell, Go, environment,
         locals, buffers, Threads, Joined, PluginOK, NoError
<1>3. PluginOK'
  BY DEF CollectorInv, TypeOK, PluginOK, Tell
<1>4. LocalsOK'
  BY DEF CollectorInv, TypeOK, PlacesOK, LocalsOK, Tell, locals, Go, environment,
         Threads, RecvPlaces, Loop
<1>5. ChannelsOK' /\ BuffersOK' /\ HistoryOK'
  BY DEF CollectorInv, TypeOK, ChannelsOK, BuffersOK, HistoryOK, Tell, chans,
         buffers
<1>6. QED
  BY <1>1, <1>2, <1>3, <1>4, <1>5 DEF CollectorInv, TypeOK

LEMMA TellThrowsInv ==
    ASSUME CollectorInv, NEW t \in Threads, TellThrows(t)
    PROVE  CollectorInv'
<1>1. PlacesOK'
  BY DEF CollectorInv, TypeOK, PlacesOK, TellThrows, Go, environment, Threads, Loop,
         Clearing, SendPlaces, ErrPlaces, RecvPlaces, PutsPlaces
<1>2. ControlOK'
  BY DEF CollectorInv, TypeOK, PlacesOK, ControlOK, TellThrows, Go, environment,
         locals, buffers, Threads, Joined, PluginOK, NoError
<1>3. PluginOK'
  BY DEF CollectorInv, TypeOK, PluginOK, TellThrows
<1>4. LocalsOK'
  BY DEF CollectorInv, TypeOK, PlacesOK, LocalsOK, TellThrows, locals, Go, environment,
         Threads, RecvPlaces, Loop
<1>5. ChannelsOK' /\ BuffersOK' /\ HistoryOK'
  BY DEF CollectorInv, TypeOK, ChannelsOK, BuffersOK, HistoryOK, TellThrows, chans,
         buffers
<1>6. QED
  BY <1>1, <1>2, <1>3, <1>4, <1>5 DEF CollectorInv, TypeOK

LEMMA SendGetsInv ==
    ASSUME CollectorInv, SendGets
    PROVE  CollectorInv'
<1>1. PlacesOK'
  BY DEF CollectorInv, TypeOK, PlacesOK, SendGets, Go, environment, Threads,
         Loop, Clearing, SendPlaces, ErrPlaces, RecvPlaces, PutsPlaces
<1>2. ControlOK'
  BY DEF CollectorInv, TypeOK, PlacesOK, ControlOK, SendGets, Go, environment,
         locals, buffers, Threads, Joined, PluginOK, NoError,
         HistoryOK
<1>3. ChannelsOK'
  BY Fronts DEF CollectorInv, TypeOK, ChannelsOK, SendGets
<1>4. LocalsOK'
  BY Fronts DEF CollectorInv, TypeOK, PlacesOK, LocalsOK, SendGets, Go, Threads
<1>5. HistoryOK'
  <2>1. CASE IsEmpty(sendChan)
    BY <2>1 DEF SendGets, CollectorInv, TypeOK, HistoryOK
  <2>2. CASE ~IsEmpty(sendChan)
    <3> DEFINE b == Front(sendChan)
    <3>1. b \in Seq(Metric)
      BY <2>2, Fronts
    <3>2. hist.unpacked \o b \in Seq(Metric)
      BY <3>1, ConcatProperties DEF CollectorInv, TypeOK, HistoryOK
    <3>3. Append(hist.taken, b) \in Seq(Seq(Metric))
      BY <3>1 DEF CollectorInv, TypeOK, HistoryOK
    <3>4. /\ hist' = [hist EXCEPT !.taken = Append(hist.taken, b),
                                  !.unpacked = hist.unpacked \o b]
          /\ wire' = wire
      BY <2>2 DEF SendGets
    <3> HIDE DEF b
    <3>5. QED
      BY <3>2, <3>3, <3>4 DEF CollectorInv, TypeOK, HistoryOK
  <2>3. QED
    BY <2>1, <2>2
<1>6. PluginOK' /\ BuffersOK'
  BY DEF CollectorInv, TypeOK, PluginOK, BuffersOK, SendGets, buffers
<1>7. QED
  BY <1>1, <1>2, <1>3, <1>4, <1>5, <1>6 DEF CollectorInv, TypeOK

LEMMA AddMetricInv ==
    ASSUME CollectorInv, AddMetric
    PROVE  CollectorInv'
<1>1. PlacesOK'
  BY DEF CollectorInv, TypeOK, PlacesOK, AddMetric, Go, environment, Threads,
         Loop, Clearing, SendPlaces, ErrPlaces, RecvPlaces, PutsPlaces
<1>2. ControlOK'
  BY DEF CollectorInv, TypeOK, PlacesOK, ControlOK, AddMetric, Go, environment,
         locals, buffers, Threads, Joined, PluginOK, NoError
<1>3. BuffersOK'
  <2>1. batch # <<>> /\ batch \in Seq(Metric)
    BY DEF CollectorInv, TypeOK, ControlOK, LocalsOK, AddMetric
  <2>2. Head(batch) \in Metric
    BY <2>1, HeadTailProperties
  <2>3. QED
    BY <2>2 DEF CollectorInv, TypeOK, BuffersOK, AddMetric
<1>4. LocalsOK'
  <2>1. batch # <<>> /\ batch \in Seq(Metric)
    BY DEF CollectorInv, TypeOK, ControlOK, LocalsOK, AddMetric
  <2>2. Tail(batch) \in Seq(Metric)
    BY <2>1, HeadTailProperties
  <2>3. QED
    BY <2>2 DEF CollectorInv, TypeOK, PlacesOK, LocalsOK, AddMetric, Go, Threads
<1>5. ChannelsOK' /\ PluginOK' /\ HistoryOK'
  BY DEF CollectorInv, TypeOK, ChannelsOK, PluginOK, HistoryOK, AddMetric, chans
<1>6. QED
  BY <1>1, <1>2, <1>3, <1>4, <1>5 DEF CollectorInv, TypeOK

LEMMA WriteFullInv ==
    ASSUME CollectorInv, WriteFull
    PROVE  CollectorInv'
<1>1. PlacesOK'
  BY DEF CollectorInv, TypeOK, PlacesOK, WriteFull, Go, environment, Threads,
         Loop, Clearing, SendPlaces, ErrPlaces, RecvPlaces, PutsPlaces
<1>2. ControlOK'
  BY DEF CollectorInv, TypeOK, PlacesOK, ControlOK, WriteFull, Go, environment,
         locals, buffers, Threads, Joined, PluginOK, NoError,
         HistoryOK, SendReply
<1>3. HistoryOK'
  BY SendReplyType DEF CollectorInv, TypeOK, WriteFull
<1>4. ChannelsOK' /\ PluginOK' /\ BuffersOK' /\ LocalsOK'
  BY DEF CollectorInv, TypeOK, ChannelsOK, PluginOK, BuffersOK, LocalsOK,
         WriteFull, chans, buffers, locals, PlacesOK, environment, Go, Threads,
         RecvPlaces, Loop
<1>5. QED
  BY <1>1, <1>2, <1>3, <1>4 DEF CollectorInv, TypeOK

LEMMA BatchDoneInv ==
    ASSUME CollectorInv, BatchDone
    PROVE  CollectorInv'
<1>1. PlacesOK'
  BY DEF CollectorInv, TypeOK, PlacesOK, BatchDone, Go, environment, Threads,
         Loop, Clearing, SendPlaces, ErrPlaces, RecvPlaces, PutsPlaces
<1>2. ControlOK'
  BY DEF CollectorInv, TypeOK, PlacesOK, ControlOK, BatchDone, Go, environment,
         locals, buffers, Threads, Joined, PluginOK, NoError,
         HistoryOK, SendReply
<1>3. HistoryOK'
  BY SendReplyType DEF CollectorInv, TypeOK, BatchDone, HistoryOK
<1>4. ChannelsOK' /\ PluginOK' /\ BuffersOK' /\ LocalsOK'
  BY DEF CollectorInv, TypeOK, ChannelsOK, PluginOK, BuffersOK, LocalsOK,
         BatchDone, chans, buffers, locals, PlacesOK, environment, Go, Threads,
         RecvPlaces, Loop
<1>5. QED
  BY <1>1, <1>2, <1>3, <1>4 DEF CollectorInv, TypeOK

LEMMA DurationTestInv ==
    ASSUME CollectorInv, DurationTest
    PROVE  CollectorInv'
<1>1. PlacesOK'
  BY DEF CollectorInv, TypeOK, PlacesOK, DurationTest, Go, environment, Threads,
         Loop, Clearing, SendPlaces, ErrPlaces, RecvPlaces, PutsPlaces
<1>2. ControlOK'
  BY DEF CollectorInv, TypeOK, PlacesOK, ControlOK, DurationTest, Go,
         environment, locals, buffers, Threads, Joined, PluginOK, NoError,
         HistoryOK, SendReply
<1>3. HistoryOK'
  BY SendReplyType DEF CollectorInv, TypeOK, DurationTest, HistoryOK
<1>4. ChannelsOK' /\ PluginOK' /\ BuffersOK' /\ LocalsOK'
  BY DEF CollectorInv, TypeOK, ChannelsOK, PluginOK, BuffersOK, LocalsOK,
         DurationTest, chans, buffers, locals, PlacesOK, environment, Go,
         Threads, RecvPlaces, Loop
<1>5. QED
  BY <1>1, <1>2, <1>3, <1>4 DEF CollectorInv, TypeOK

LEMMA ClearInv ==
    ASSUME CollectorInv, Clear
    PROVE  CollectorInv'
<1>1. PlacesOK'
  BY DEF CollectorInv, TypeOK, PlacesOK, Clear, Go, environment, Threads, Loop,
         Clearing, SendPlaces, ErrPlaces, RecvPlaces, PutsPlaces, AfterClear,
         Clearing
<1>2. ControlOK'
  BY DEF CollectorInv, TypeOK, PlacesOK, ControlOK, Clear, Go, environment,
         locals, buffers, Threads, Joined, PluginOK, NoError, AfterClear,
         Clearing
<1>3. BuffersOK'
  <2>1. <<>> \in Seq(Metric)
    OBVIOUS
  <2>2. QED
    BY <2>1 DEF CollectorInv, TypeOK, BuffersOK, Clear, EmptyBuffer
<1>4. ChannelsOK' /\ PluginOK' /\ LocalsOK' /\ HistoryOK'
  BY DEF CollectorInv, TypeOK, ChannelsOK, PluginOK, LocalsOK, HistoryOK, Clear,
         chans, locals, PlacesOK, environment, Go, Threads, RecvPlaces, Loop
<1>5. QED
  BY <1>1, <1>2, <1>3, <1>4 DEF CollectorInv, TypeOK

LEMMA ErrGetsInv ==
    ASSUME CollectorInv, ErrGets
    PROVE  CollectorInv'
<1>1. PlacesOK'
  BY DEF CollectorInv, TypeOK, PlacesOK, ErrGets, Go, environment, Threads, Loop,
         Clearing, SendPlaces, ErrPlaces, RecvPlaces, PutsPlaces
<1>2. ControlOK'
  BY Fronts DEF CollectorInv, TypeOK, PlacesOK, ControlOK, ErrGets, Go, environment,
                locals, Threads, Joined, Error, NoError
<1>3. ChannelsOK'
  BY Fronts DEF CollectorInv, TypeOK, ChannelsOK, ErrGets
<1>4. BuffersOK'
  BY Fronts DEF CollectorInv, TypeOK, BuffersOK, ErrGets
<1>5. PluginOK' /\ LocalsOK' /\ HistoryOK'
  BY DEF CollectorInv, TypeOK, PluginOK, LocalsOK, HistoryOK, ErrGets, locals,
         PlacesOK, environment, Go, Threads, RecvPlaces, Loop
<1>6. QED
  BY <1>1, <1>2, <1>3, <1>4, <1>5 DEF CollectorInv, TypeOK

LEMMA ErrWritesInv ==
    ASSUME CollectorInv, ErrWrites
    PROVE  CollectorInv'
<1>1. PlacesOK'
  BY DEF CollectorInv, TypeOK, PlacesOK, ErrWrites, Go, environment, Threads,
         Loop, Clearing, SendPlaces, ErrPlaces, RecvPlaces, PutsPlaces
<1>2. ControlOK'
  BY DEF CollectorInv, TypeOK, PlacesOK, ControlOK, ErrWrites, Go, environment,
         locals, buffers, Threads, Joined, PluginOK, NoError,
         HistoryOK, Remember
<1>3. HistoryOK'
  <2>1. errReply \in Error
    BY DEF CollectorInv, TypeOK, BuffersOK, ControlOK, ErrWrites
  <2>2. Append(hist.reported, errReply) \in Seq(Error)
    BY <2>1 DEF CollectorInv, TypeOK, HistoryOK
  <2>3. QED
    BY <2>2, WriteType DEF CollectorInv, TypeOK, HistoryOK, ErrWrites, Remember
<1>4. ChannelsOK' /\ PluginOK' /\ BuffersOK' /\ LocalsOK'
  BY DEF CollectorInv, TypeOK, ChannelsOK, PluginOK, BuffersOK, LocalsOK,
         ErrWrites, chans, buffers, locals, PlacesOK, environment, Go, Threads,
         RecvPlaces, Loop
<1>5. QED
  BY <1>1, <1>2, <1>3, <1>4 DEF CollectorInv, TypeOK

LEMMA RecvReadFailsInv ==
    ASSUME CollectorInv, RecvReadFails
    PROVE  CollectorInv'
<1>1. PlacesOK'
  BY DEF CollectorInv, TypeOK, PlacesOK, RecvReadFails, Go, environment, Threads,
         Loop, Clearing, SendPlaces, ErrPlaces, RecvPlaces, PutsPlaces
<1>2. ControlOK'
  BY DEF CollectorInv, TypeOK, PlacesOK, ControlOK, RecvReadFails, Go,
         environment, locals, buffers, Threads, Joined, PluginOK, NoError
<1>3. LocalsOK'
  BY DEF CollectorInv, TypeOK, PlacesOK, LocalsOK, RecvReadFails, locals, Go,
         environment, Threads, RecvPlaces, Loop
<1>4. ChannelsOK' /\ PluginOK' /\ BuffersOK' /\ HistoryOK'
  BY DEF CollectorInv, TypeOK, ChannelsOK, PluginOK, BuffersOK, HistoryOK,
         RecvReadFails, chans, buffers
<1>5. QED
  BY <1>1, <1>2, <1>3, <1>4 DEF CollectorInv, TypeOK

LEMMA RecvPutsInv ==
    ASSUME CollectorInv, RecvPuts
    PROVE  CollectorInv'
<1>1. PlacesOK'
  BY DEF CollectorInv, TypeOK, PlacesOK, RecvPuts, Go, environment, Threads,
         Loop, Clearing, SendPlaces, ErrPlaces, RecvPlaces, PutsPlaces
<1>2. ControlOK'
  BY DEF CollectorInv, TypeOK, PlacesOK, ControlOK, RecvPuts, Go, environment,
         locals, buffers, Threads, Joined, PluginOK, NoError
<1>3. ChannelsOK'
  <2>1. arg \in Request
    BY BoundsAssumption DEF CollectorInv, TypeOK, LocalsOK, RecvPuts, Request
  <2>2. QED
    BY <2>1, PushedFacts DEF CollectorInv, TypeOK, ChannelsOK, RecvPuts
<1>4. LocalsOK'
  BY DEF CollectorInv, TypeOK, PlacesOK, LocalsOK, RecvPuts, locals, Go,
         environment, Threads, RecvPlaces, Loop
<1>5. PluginOK' /\ BuffersOK' /\ HistoryOK'
  BY DEF CollectorInv, TypeOK, PluginOK, BuffersOK, HistoryOK, RecvPuts, buffers
<1>6. QED
  BY <1>1, <1>2, <1>3, <1>4, <1>5 DEF CollectorInv, TypeOK

LEMMA PutsMetsInv ==
    ASSUME CollectorInv, PutsMets
    PROVE  CollectorInv'
<1>1. PlacesOK'
  BY DEF CollectorInv, TypeOK, PlacesOK, PutsMets, Go, environment, Threads,
         Loop, Clearing, SendPlaces, ErrPlaces, RecvPlaces, PutsPlaces
<1>2. ControlOK'
  BY DEF CollectorInv, TypeOK, PlacesOK, ControlOK, PutsMets, Go, environment,
         locals, buffers, Threads, Joined, PluginOK, NoError,
         HistoryOK
<1>3. ChannelsOK'
  BY PushedFacts DEF CollectorInv, TypeOK, ChannelsOK, PutsMets, PluginOK
<1>6. HistoryOK'
  BY DEF CollectorInv, TypeOK, HistoryOK, PutsMets
<1>4. PluginOK' /\ BuffersOK' /\ LocalsOK'
  BY DEF CollectorInv, TypeOK, PluginOK, BuffersOK, LocalsOK,
         PutsMets, buffers, locals, PlacesOK, environment, Go, Threads,
         RecvPlaces, Loop
<1>5. QED
  BY <1>1, <1>2, <1>3, <1>4, <1>6 DEF CollectorInv, TypeOK

LEMMA ClearsMetsInv ==
    ASSUME CollectorInv, ClearsMets
    PROVE  CollectorInv'
<1>1. PlacesOK'
  BY DEF CollectorInv, TypeOK, PlacesOK, ClearsMets, Go, environment, Threads,
         Loop, Clearing, SendPlaces, ErrPlaces, RecvPlaces, PutsPlaces
<1>2. ControlOK'
  BY DEF CollectorInv, TypeOK, PlacesOK, ControlOK, ClearsMets, Go, environment,
         locals, buffers, Threads, Joined, PluginOK, NoError
<1>3. PluginOK'
  BY DEF CollectorInv, TypeOK, PluginOK, ClearsMets
<1>6. HistoryOK'
  BY UnhiddenType DEF CollectorInv, TypeOK, HistoryOK, ClearsMets
<1>4. ChannelsOK' /\ BuffersOK' /\ LocalsOK'
  BY DEF CollectorInv, TypeOK, ChannelsOK, BuffersOK, LocalsOK,
         ClearsMets, chans, buffers, locals, PlacesOK, environment, Go, Threads,
         RecvPlaces, Loop
<1>5. QED
  BY <1>1, <1>2, <1>3, <1>4, <1>6 DEF CollectorInv, TypeOK

LEMMA PutsErrInv ==
    ASSUME CollectorInv, PutsErr
    PROVE  CollectorInv'
<1>1. PlacesOK'
  BY DEF CollectorInv, TypeOK, PlacesOK, PutsErr, Go, environment, Threads, Loop,
         Clearing, SendPlaces, ErrPlaces, RecvPlaces, PutsPlaces
<1>2. ControlOK'
  BY DEF CollectorInv, TypeOK, PlacesOK, ControlOK, PutsErr, Go, environment,
         locals, buffers, Threads, Joined, PluginOK, NoError,
         HistoryOK
<1>3. ChannelsOK'
  BY PushedFacts DEF CollectorInv, TypeOK, ControlOK, ChannelsOK, PutsErr, PluginOK
<1>6. HistoryOK'
  BY DEF CollectorInv, TypeOK, HistoryOK, PutsErr
<1>4. PluginOK' /\ BuffersOK' /\ LocalsOK'
  BY DEF CollectorInv, TypeOK, PluginOK, BuffersOK, LocalsOK, PutsErr,
         buffers, locals, PlacesOK, environment, Go, Threads, RecvPlaces, Loop
<1>5. QED
  BY <1>1, <1>2, <1>3, <1>4, <1>6 DEF CollectorInv, TypeOK

LEMMA ClearsErrInv ==
    ASSUME CollectorInv, ClearsErr
    PROVE  CollectorInv'
<1>1. PlacesOK'
  BY DEF CollectorInv, TypeOK, PlacesOK, ClearsErr, Go, environment, Threads,
         Loop, Clearing, SendPlaces, ErrPlaces, RecvPlaces, PutsPlaces
<1>2. ControlOK'
  BY DEF CollectorInv, TypeOK, PlacesOK, ControlOK, ClearsErr, Go, environment,
         locals, buffers, Threads, Joined, PluginOK, NoError
<1>3. PluginOK'
  BY DEF CollectorInv, TypeOK, PluginOK, ClearsErr
<1>6. HistoryOK'
  BY UnhiddenType DEF CollectorInv, TypeOK, HistoryOK, ClearsErr
<1>4. ChannelsOK' /\ BuffersOK' /\ LocalsOK'
  BY DEF CollectorInv, TypeOK, ChannelsOK, BuffersOK, LocalsOK,
         ClearsErr, chans, buffers, locals, PlacesOK, environment, Go, Threads,
         RecvPlaces, Loop
<1>5. QED
  BY <1>1, <1>2, <1>3, <1>4, <1>6 DEF CollectorInv, TypeOK

LEMMA PutsRecvInv ==
    ASSUME CollectorInv, PutsRecv
    PROVE  CollectorInv'
<1>1. PlacesOK'
  BY DEF CollectorInv, TypeOK, PlacesOK, PutsRecv, Go, environment, Threads,
         Loop, Clearing, SendPlaces, ErrPlaces, RecvPlaces, PutsPlaces
<1>2. ControlOK'
  BY DEF CollectorInv, TypeOK, PlacesOK, ControlOK, PutsRecv, Go, environment,
         locals, buffers, Threads, Joined, PluginOK, NoError
<1>3. ChannelsOK'
  BY Fronts DEF CollectorInv, TypeOK, ChannelsOK, PutsRecv
<1>4. PluginOK'
  <2>1. ~IsEmpty(recvChan) => Append(recvMets, Front(recvChan)) \in Seq(Request)
    BY Fronts DEF CollectorInv, TypeOK, LocalsOK
  <2>2. QED
    BY <2>1 DEF CollectorInv, TypeOK, PluginOK, PutsRecv, HandsOver
<1>5. LocalsOK'
  <2>1. ~IsEmpty(recvChan) => Append(recvMets, Front(recvChan)) \in Seq(Request)
    BY Fronts DEF CollectorInv, TypeOK, LocalsOK
  <2>2. QED
    BY <2>1 DEF CollectorInv, TypeOK, PlacesOK, LocalsOK, PutsRecv, HandsOver, Go, Threads
<1>6. BuffersOK' /\ HistoryOK'
  BY DEF CollectorInv, TypeOK, BuffersOK, HistoryOK, PutsRecv, buffers
<1>7. QED
  BY <1>1, <1>2, <1>3, <1>4, <1>5, <1>6 DEF CollectorInv, TypeOK

LEMMA HandlerEndsInv ==
    ASSUME CollectorInv, HandlerEnds
    PROVE  CollectorInv'
<1>1. PlacesOK'
  BY DEF CollectorInv, TypeOK, PlacesOK, HandlerEnds, Go, environment, Threads,
         Loop, Clearing, SendPlaces, ErrPlaces, RecvPlaces, PutsPlaces
<1>2. ControlOK'
  BY DEF CollectorInv, TypeOK, PlacesOK, ControlOK, HandlerEnds, Go, environment,
         locals, buffers, Threads, Joined, PluginOK, NoError
<1>3. ChannelsOK' /\ PluginOK' /\ BuffersOK' /\ LocalsOK' /\ HistoryOK'
  BY DEF CollectorInv, TypeOK, ChannelsOK, PluginOK, BuffersOK, LocalsOK,
         HistoryOK, HandlerEnds, chans, buffers, locals, PlacesOK, environment,
         Go, Threads, RecvPlaces, Loop
<1>4. QED
  BY <1>1, <1>2, <1>3 DEF CollectorInv, TypeOK

LEMMA StartStreamInv ==
    ASSUME CollectorInv, StartStream
    PROVE  CollectorInv'
<1>1. PlacesOK'
  <2>1. streams + 1 \in 0..MaxStreams
    BY BoundsAssumption DEF CollectorInv, TypeOK, PlacesOK, StartStream
  <2>2. QED
    BY <2>1 DEF CollectorInv, TypeOK, PlacesOK, StartStream, Threads, Loop, SendPlaces,
                ErrPlaces, RecvPlaces, PutsPlaces
<1>2. ControlOK'
  BY DEF CollectorInv, TypeOK, PlacesOK, ControlOK, StartStream, Go, environment,
         locals, buffers, Threads, Joined, PluginOK, NoError
<1>3. BuffersOK'
  BY DEF CollectorInv, TypeOK, BuffersOK, StartStream
<1>4. LocalsOK'
  BY DEF CollectorInv, TypeOK, PlacesOK, LocalsOK, StartStream, locals, Go,
         environment, Threads, RecvPlaces, Loop
<1>5. HistoryOK'
  <2>1. recvChan.queue \in Seq(Request)
    BY ChannelFields DEF CollectorInv, TypeOK, ChannelsOK
  <2>2. QED
    BY <2>1 DEF CollectorInv, TypeOK, HistoryOK, StartStream
<1>6. ChannelsOK' /\ PluginOK'
  BY DEF CollectorInv, TypeOK, ChannelsOK, PluginOK, StartStream, chans
<1>7. QED
  BY <1>1, <1>2, <1>3, <1>4, <1>5, <1>6 DEF CollectorInv, TypeOK

LEMMA PluginReturnsInv ==
    ASSUME CollectorInv, PluginReturns
    PROVE  CollectorInv'
<1>1. PlacesOK'
  BY DEF CollectorInv, TypeOK, PlacesOK, PluginReturns, Go, environment, Threads,
         Loop, Clearing, SendPlaces, ErrPlaces, RecvPlaces, PutsPlaces
<1>2. ControlOK'
  BY DEF CollectorInv, TypeOK, PlacesOK, ControlOK, PluginReturns, Go,
         environment, locals, buffers, Threads, Joined, PluginOK, NoError
<1>3. ChannelsOK' /\ PluginOK' /\ BuffersOK' /\ LocalsOK' /\ HistoryOK'
  BY DEF CollectorInv, TypeOK, ChannelsOK, PluginOK, BuffersOK, LocalsOK,
         HistoryOK, PluginReturns, chans, buffers, locals, PlacesOK, environment,
         Go, Threads, RecvPlaces, Loop
<1>4. QED
  BY <1>1, <1>2, <1>3 DEF CollectorInv, TypeOK

LEMMA PluginThrowsInv ==
    ASSUME CollectorInv, PluginThrows
    PROVE  CollectorInv'
<1>1. PlacesOK'
  BY DEF CollectorInv, TypeOK, PlacesOK, PluginThrows, Go, environment, Threads,
         Loop, Clearing, SendPlaces, ErrPlaces, RecvPlaces, PutsPlaces
<1>2. ControlOK'
  BY DEF CollectorInv, TypeOK, PlacesOK, ControlOK, PluginThrows, Go,
         environment, locals, buffers, Threads, Joined, PluginOK, NoError
<1>3. ChannelsOK' /\ PluginOK' /\ BuffersOK' /\ LocalsOK' /\ HistoryOK'
  BY DEF CollectorInv, TypeOK, ChannelsOK, PluginOK, BuffersOK, LocalsOK,
         HistoryOK, PluginThrows, chans, buffers, locals, PlacesOK, environment,
         Go, Threads, RecvPlaces, Loop
<1>4. QED
  BY <1>1, <1>2, <1>3 DEF CollectorInv, TypeOK

LEMMA PluginRaisesInv ==
    ASSUME CollectorInv, PluginRaises
    PROVE  CollectorInv'
<1>1. PlacesOK'
  BY DEF CollectorInv, TypeOK, PlacesOK, PluginRaises, Go, environment, Threads,
         Loop, Clearing, SendPlaces, ErrPlaces, RecvPlaces, PutsPlaces
<1>2. ControlOK'
  BY DEF CollectorInv, TypeOK, PlacesOK, ControlOK, PluginRaises, Go,
         environment, locals, buffers, Threads, Joined, PluginOK, NoError
<1>3. PluginOK'
  <2>1. Len(hist.raised) + 1 \in Error
    BY BoundsAssumption DEF CollectorInv, TypeOK, HistoryOK, PluginRaises, Error
  <2>2. QED
    BY <2>1 DEF CollectorInv, TypeOK, PluginOK, PluginRaises
<1>4. HistoryOK'
  <2>1. Len(hist.raised) + 1 \in Error
    BY BoundsAssumption DEF CollectorInv, TypeOK, HistoryOK, PluginRaises, Error
  <2>2. /\ Append(hist.raised, Len(hist.raised) + 1) \in Seq(Error)
        /\ Len(Append(hist.raised, Len(hist.raised) + 1)) <= MaxErrors
    BY <2>1 DEF CollectorInv, TypeOK, HistoryOK, PluginRaises
  <2>3. Append(ErrorsUnhidden, Len(hist.raised) + 1) \in Seq(Error)
    BY <2>1, UnhiddenType DEF CollectorInv, TypeOK
  <2>4. QED
    BY <2>2, <2>3 DEF CollectorInv, TypeOK, HistoryOK, PluginRaises
<1>5. ChannelsOK' /\ BuffersOK' /\ LocalsOK'
  BY DEF CollectorInv, TypeOK, ChannelsOK, BuffersOK, LocalsOK, PluginRaises,
         chans, buffers, locals, PlacesOK, environment, Go, Threads, RecvPlaces,
         Loop
<1>6. QED
  BY <1>1, <1>2, <1>3, <1>4, <1>5 DEF CollectorInv, TypeOK

LEMMA PutsCallbackThrowsInv ==
    ASSUME CollectorInv, PutsCallbackThrows
    PROVE  CollectorInv'
<1>1. PlacesOK'
  BY DEF CollectorInv, TypeOK, PlacesOK, PutsCallbackThrows, Go, environment,
         Threads, Loop, Clearing, SendPlaces, ErrPlaces, RecvPlaces, PutsPlaces
<1>2. ControlOK'
  BY DEF CollectorInv, TypeOK, PlacesOK, ControlOK, PutsCallbackThrows, Go,
         environment, locals, buffers, Threads, Joined, PluginOK, NoError
<1>3. ChannelsOK' /\ PluginOK' /\ BuffersOK' /\ LocalsOK' /\ HistoryOK'
  BY DEF CollectorInv, TypeOK, ChannelsOK, PluginOK, BuffersOK, LocalsOK,
         HistoryOK, PutsCallbackThrows, chans, buffers, locals, PlacesOK,
         environment, Go, Threads, RecvPlaces, Loop
<1>4. QED
  BY <1>1, <1>2, <1>3 DEF CollectorInv, TypeOK

LEMMA PutsRecvThrowsInv ==
    ASSUME CollectorInv, PutsRecvThrows
    PROVE  CollectorInv'
<1>1. PlacesOK'
  BY DEF CollectorInv, TypeOK, PlacesOK, PutsRecvThrows, Go, environment, Threads,
         Loop, Clearing, SendPlaces, ErrPlaces, RecvPlaces, PutsPlaces
<1>2. ControlOK'
  BY DEF CollectorInv, TypeOK, PlacesOK, ControlOK, PutsRecvThrows, Go, environment,
         locals, buffers, Threads, Joined, PluginOK, NoError
<1>3. ChannelsOK'
  BY Fronts DEF CollectorInv, TypeOK, ChannelsOK, PutsRecvThrows
<1>4. LocalsOK'
  <2>1. Append(recvMets, Front(recvChan)) \in Seq(Request)
    BY Fronts DEF CollectorInv, TypeOK, LocalsOK, PutsRecvThrows
  <2>2. QED
    BY <2>1 DEF CollectorInv, TypeOK, PlacesOK, LocalsOK, PutsRecvThrows, HandsOver, Go,
                Threads
<1>5. PluginOK' /\ BuffersOK' /\ HistoryOK'
  BY DEF CollectorInv, TypeOK, PluginOK, BuffersOK, HistoryOK, PutsRecvThrows, buffers
<1>6. QED
  BY <1>1, <1>2, <1>3, <1>4, <1>5 DEF CollectorInv, TypeOK

LEMMA ClientCancelsInv ==
    ASSUME CollectorInv, ClientCancels
    PROVE  CollectorInv'
<1>1. PlacesOK'
  BY DEF CollectorInv, TypeOK, PlacesOK, ClientCancels, Go, environment, Threads,
         Loop, Clearing, SendPlaces, ErrPlaces, RecvPlaces, PutsPlaces
<1>2. ControlOK'
  BY DEF CollectorInv, TypeOK, PlacesOK, ControlOK, ClientCancels, Go,
         environment, locals, buffers, Threads, Joined, PluginOK, NoError
<1>3. ChannelsOK' /\ PluginOK' /\ BuffersOK' /\ LocalsOK' /\ HistoryOK'
  BY DEF CollectorInv, TypeOK, ChannelsOK, PluginOK, BuffersOK, LocalsOK,
         HistoryOK, ClientCancels, chans, buffers, locals, PlacesOK, environment,
         Go, Threads, RecvPlaces, Loop
<1>4. QED
  BY <1>1, <1>2, <1>3 DEF CollectorInv, TypeOK

LEMMA TimePassesInv ==
    ASSUME CollectorInv, TimePasses
    PROVE  CollectorInv'
<1>1. PlacesOK'
  BY DEF CollectorInv, TypeOK, PlacesOK, TimePasses, Go, environment, Threads,
         Loop, Clearing, SendPlaces, ErrPlaces, RecvPlaces, PutsPlaces
<1>2. ControlOK'
  BY DEF CollectorInv, TypeOK, PlacesOK, ControlOK, TimePasses, Go, environment,
         locals, buffers, Threads, Joined, PluginOK, NoError
<1>3. BuffersOK'
  BY DEF CollectorInv, TypeOK, BuffersOK, TimePasses
<1>4. ChannelsOK' /\ PluginOK' /\ LocalsOK' /\ HistoryOK'
  BY DEF CollectorInv, TypeOK, ChannelsOK, PluginOK, LocalsOK, HistoryOK,
         TimePasses, chans, locals, PlacesOK, environment, Go, Threads,
         RecvPlaces, Loop
<1>5. QED
  BY <1>1, <1>2, <1>3, <1>4 DEF CollectorInv, TypeOK

LEMMA PluginProducesInv ==
    ASSUME CollectorInv, NEW n \in BatchSizes, PluginProduces(n)
    PROVE  CollectorInv'
<1>1. PlacesOK'
  BY DEF CollectorInv, TypeOK, PlacesOK, PluginProduces, Go, environment,
         Threads, Loop, Clearing, SendPlaces, ErrPlaces, RecvPlaces, PutsPlaces
<1>2. ControlOK'
  BY DEF CollectorInv, TypeOK, PlacesOK, ControlOK, PluginProduces, Go,
         environment, locals, buffers, Threads, Joined, PluginOK, NoError
<1>3. PluginOK'
  <2>1. n \in Nat /\ Len(hist.made) \in Nat /\ Len(hist.made) + n <= MaxMetrics
    BY BoundsAssumption DEF CollectorInv, TypeOK, HistoryOK, PluginProduces
  <2>2. [i \in 1..n |-> Len(hist.made) + i] \in Seq(Metric)
    BY <2>1, BatchType
  <2>3. QED
    BY <2>2 DEF CollectorInv, TypeOK, PluginOK, PluginProduces
<1>4. HistoryOK'
  <2> DEFINE b == [i \in 1..n |-> Len(hist.made) + i]
  <2>1. n \in Nat /\ Len(hist.made) \in Nat /\ Len(hist.made) + n <= MaxMetrics
    BY BoundsAssumption DEF CollectorInv, TypeOK, HistoryOK, PluginProduces
  <2>2. b \in Seq(Metric) /\ Len(b) = n
    BY <2>1, BatchType
  <2>3. /\ hist.made \o b \in Seq(Metric)
        /\ Len(hist.made \o b) = Len(hist.made) + n
    <3>1. hist.made \in Seq(Metric)
      BY DEF CollectorInv, TypeOK, HistoryOK
    <3> HIDE DEF b
    <3>2. QED
      BY <2>2, <3>1, ConcatProperties
  <2>4. /\ Append(hist.batches, b) \in Seq(Seq(Metric))
        /\ Append(BatchesUnhidden, b) \in Seq(Seq(Metric))
    BY <2>2, UnhiddenType DEF CollectorInv, TypeOK, HistoryOK
  <2>5. /\ hist' = [hist EXCEPT !.made = hist.made \o b,
                                !.batches = Append(hist.batches, b),
                                !.keptBatches = Append(BatchesUnhidden, b),
                                !.newBatch = TRUE]
        /\ wire' = wire
    BY DEF PluginProduces
  <2> HIDE DEF b
  <2>6. QED
    BY <2>1, <2>3, <2>4, <2>5 DEF CollectorInv, TypeOK, HistoryOK
<1>5. ChannelsOK' /\ BuffersOK' /\ LocalsOK'
  BY DEF CollectorInv, TypeOK, ChannelsOK, BuffersOK, LocalsOK, PluginProduces,
         chans, buffers, locals, PlacesOK, environment, Go, Threads, RecvPlaces,
         Loop
<1>6. QED
  BY <1>1, <1>2, <1>3, <1>4, <1>5 DEF CollectorInv, TypeOK

LEMMA RecvReadsInv ==
    ASSUME CollectorInv, NEW r \in Requests, RecvReads(r)
    PROVE  CollectorInv'
<1>1. PlacesOK'
  BY DEF CollectorInv, TypeOK, PlacesOK, RecvReads, Go, environment, Threads,
         Loop, Clearing, SendPlaces, ErrPlaces, RecvPlaces, PutsPlaces
<1>2. ControlOK'
  BY DEF CollectorInv, TypeOK, PlacesOK, ControlOK, RecvReads, Go, environment,
         locals, buffers, Threads, Joined, PluginOK, NoError,
         HistoryOK, Remember
<1>3. BuffersOK'
  BY RequestsAssumption DEF CollectorInv, TypeOK, BuffersOK, RecvReads
<1>4. LocalsOK'
  <2>1. reads + 1 \in 0..MaxRequests /\ reads \in Nat
    BY BoundsAssumption DEF CollectorInv, TypeOK, LocalsOK, RecvReads
  <2>2. QED
    BY <2>1 DEF CollectorInv, TypeOK, PlacesOK, LocalsOK, RecvReads, Go, Threads
<1>5. HistoryOK'
  <2>1. reads + 1 \in Request
    BY BoundsAssumption DEF CollectorInv, TypeOK, LocalsOK, RecvReads, Request
  <2>2. Append(hist.asked, reads + 1) \in Seq(Request)
    BY <2>1 DEF CollectorInv, TypeOK, HistoryOK
  <2>3. QED
    BY <2>2 DEF CollectorInv, TypeOK, HistoryOK, RecvReads, Remember
<1>6. ChannelsOK' /\ PluginOK'
  BY DEF CollectorInv, TypeOK, ChannelsOK, PluginOK, RecvReads, chans
<1>7. QED
  BY <1>1, <1>2, <1>3, <1>4, <1>5, <1>6 DEF CollectorInv, TypeOK

LEMMA StutterInv == CollectorInv /\ UNCHANGED vars => CollectorInv'
BY DEF vars, environment, chans, buffers, locals, CollectorInv, TypeOK, PlacesOK,
       ChannelsOK, PluginOK, BuffersOK, LocalsOK, HistoryOK, ControlOK, Joined

\* The variables keep their types, the threads run only while a call is being
\* handled, and a thread is where its locals and the plugin's flags say it is.
THEOREM CollectorInvariant == Spec => []CollectorInv
<1>1. CollectorInv /\ [Next]_vars => CollectorInv'
  <2> SUFFICES ASSUME CollectorInv, [Next]_vars
               PROVE  CollectorInv'
    OBVIOUS
  <2>1. ASSUME NEW t \in Threads, Step(t)
        PROVE  CollectorInv'
    <3>1. CASE Enter(t) \/ Leave(t) \/ Tell(t)
      BY <3>1, EnterInv, LeaveInv, TellInv
    <3>2. CASE MetricSend
      BY <3>2, SendGetsInv, AddMetricInv, WriteFullInv, BatchDoneInv,
         DurationTestInv, ClearInv DEF MetricSend
    <3>3. CASE ErrorSend
      BY <3>3, ErrGetsInv, ErrWritesInv DEF ErrorSend
    <3>4. CASE RecvReadFails \/ RecvPuts
      BY <3>4, RecvReadFailsInv, RecvPutsInv
    <3>5. CASE DoPuts
      BY <3>5, PutsMetsInv, ClearsMetsInv, PutsErrInv, ClearsErrInv, PutsRecvInv
         DEF DoPuts
    <3>6. QED
      BY <2>1, <3>1, <3>2, <3>3, <3>4, <3>5 DEF Step
  <2>2. CASE HandlerEnds
    BY <2>2, HandlerEndsInv
  <2>3. CASE Environment
    BY <2>3, StartStreamInv, PluginReturnsInv, PluginThrowsInv, PluginRaisesInv,
       PutsCallbackThrowsInv, PutsRecvThrowsInv, TellThrowsInv, ClientCancelsInv,
       TimePassesInv, PluginProducesInv, RecvReadsInv DEF Environment
  <2>4. CASE UNCHANGED vars
    BY <2>4, StutterInv
  <2>5. QED
    BY <2>1, <2>2, <2>3, <2>4 DEF Next
<1>2. QED
  BY <1>1, InitCollectorInv, PTL DEF Spec

-----------------------------------------------------------------------------
(***************************************************************************)
(* A channel of the first stream is closed only once it was cancelled.     *)
(* Inductive with: no call was cancelled before the first one began, and a *)
(* thread that has left its loop has seen the cancellation.                *)
(***************************************************************************)
CancelInv ==
    /\ CancelledBeforeClosed
    /\ streams = 0 <=> handler = "idle"
    /\ streams = 0 => ~cancelled
    /\ \A t \in Threads: pc[t] = "tell" => cancelled

LEMMA CancelStep ==
    ASSUME CollectorInv, CancelInv, [Next]_vars
    PROVE  CancelInv'
<1> USE DEF CancelInv, CancelledBeforeClosed, CollectorInv, TypeOK, PlacesOK, Go, Threads
<1>0. streams \in Nat
  BY BoundsAssumption
<1>1. CASE /\ UNCHANGED <<streams, cancelled, sendChan, errChan, recvChan, pc, plugin>>
           /\ handler' = "idle" <=> handler = "idle"
  BY <1>1
<1>2. CASE StartStream
  <2>1. streams' = streams + 1 /\ handler' = "streaming"
    BY <1>2 DEF StartStream
  <2>2. \A t \in Threads: pc'[t] = "check"
    BY <1>2 DEF StartStream
  <2>3. UNCHANGED <<sendChan, errChan, recvChan, plugin>>
    BY <1>2 DEF StartStream, chans
  <2>4. CASE streams = 0
    BY <1>0, <2>1, <2>2, <2>3, <2>4
  <2>5. CASE streams # 0
    BY <1>0, <2>1, <2>2, <2>5
  <2>6. QED
    BY <2>4, <2>5
<1>3. ASSUME NEW t \in Threads, Enter(t)
      PROVE  CancelInv'
  BY <1>3 DEF Enter, FirstPlace, environment, chans
<1>4. ASSUME NEW t \in Threads, Leave(t)
      PROVE  CancelInv'
  <2>1. /\ cancelled /\ UNCHANGED <<streams, handler, cancelled, plugin>>
        /\ pc[t] = "check" /\ pc' = [pc EXCEPT ![t] = "tell"]
        /\ sendChan' = IF t = "metricSend" THEN Closed(sendChan) ELSE sendChan
        /\ errChan' = IF t = "errorSend" THEN Closed(errChan) ELSE errChan
        /\ recvChan' = IF t = "streamRecv" THEN Closed(recvChan) ELSE recvChan
    BY <1>4 DEF Leave, KeepRunning, environment
  <2>2. QED
    BY <2>1
<1>5. ASSUME NEW t \in Threads, Tell(t)
      PROVE  CancelInv'
  <2>1. /\ cancelled /\ UNCHANGED <<streams, handler, cancelled, sendChan, errChan, recvChan>>
        /\ pc[t] = "tell" /\ pc' = [pc EXCEPT ![t] = "done"]
    BY <1>5 DEF Tell, environment, chans
  <2>2. QED
    BY <2>1
<1>15. ASSUME NEW t \in Threads, TellThrows(t)
       PROVE  CancelInv'
  <2>1. /\ cancelled /\ UNCHANGED <<streams, handler, cancelled, sendChan, errChan, recvChan>>
        /\ pc[t] = "tell" /\ plugin'.cancelled = plugin.cancelled
        /\ pc' = [pc EXCEPT ![t] = IF t = "doPuts" THEN "threw" ELSE "done"]
    BY <1>15 DEF TellThrows, environment, chans, PluginOK
  <2>2. QED
    BY <2>1
<1>6. CASE MetricSend
  <2>1. pc["metricSend"] \notin {"tell", "done"} /\ pc'["metricSend"] # "tell"
    BY <1>6 DEF MetricSend, SendGets, AddMetric, WriteFull, BatchDone, DurationTest, Clear,
                AfterClear
  <2>2. \A t \in Threads \ {"metricSend"}: pc'[t] = pc[t]
    BY <1>6 DEF MetricSend, SendGets, AddMetric, WriteFull, BatchDone, DurationTest, Clear
  <2>3. /\ UNCHANGED <<streams, handler, cancelled, errChan, recvChan, plugin>>
        /\ sendChan'.closed => sendChan.closed
    BY <1>6, ChannelFields, PoppedFacts
       DEF MetricSend, SendGets, AddMetric, WriteFull, BatchDone, DurationTest, Clear,
           environment, chans, ChannelsOK
  <2>4. QED
    BY <2>1, <2>2, <2>3
<1>7. CASE ErrorSend
  <2>1. pc["errorSend"] \notin {"tell", "done"} /\ pc'["errorSend"] # "tell"
    BY <1>7 DEF ErrorSend, ErrGets, ErrWrites
  <2>2. \A t \in Threads \ {"errorSend"}: pc'[t] = pc[t]
    BY <1>7 DEF ErrorSend, ErrGets, ErrWrites
  <2>3. /\ UNCHANGED <<streams, handler, cancelled, sendChan, recvChan, plugin>>
        /\ errChan'.closed => errChan.closed
    BY <1>7, PoppedFacts DEF ErrorSend, ErrGets, ErrWrites, environment, chans, ChannelsOK
  <2>4. QED
    BY <2>1, <2>2, <2>3
<1>8. CASE RecvReadFails \/ RecvPuts \/ \E r \in Requests: RecvReads(r)
  <2>1. pc["streamRecv"] \notin {"tell", "done"} /\ pc'["streamRecv"] # "tell"
    BY <1>8 DEF RecvReadFails, RecvPuts, RecvReads
  <2>2. \A t \in Threads \ {"streamRecv"}: pc'[t] = pc[t]
    BY <1>8 DEF RecvReadFails, RecvPuts, RecvReads
  <2>3. /\ UNCHANGED <<streams, handler, cancelled, sendChan, errChan, plugin>>
        /\ recvChan'.closed => recvChan.closed
    BY <1>8 DEF RecvReadFails, RecvPuts, RecvReads, environment, chans, Pushed, ChannelsOK,
                ChannelOf
  <2>4. QED
    BY <2>1, <2>2, <2>3
<1>9. CASE DoPuts \/ PutsCallbackThrows \/ PutsRecvThrows
  <2>1. pc'["doPuts"] # "tell" /\ \A t \in Threads \ {"doPuts"}: pc'[t] = pc[t]
    BY <1>9 DEF DoPuts, PutsMets, ClearsMets, PutsErr, ClearsErr, PutsRecv,
                PutsCallbackThrows, PutsRecvThrows
  <2>2. UNCHANGED <<streams, handler, cancelled>> /\ plugin'.cancelled = plugin.cancelled
    BY <1>9 DEF DoPuts, PutsMets, ClearsMets, PutsErr, ClearsErr, PutsRecv,
                PutsCallbackThrows, PutsRecvThrows, environment, PluginOK
  <2>3. sendChan'.closed = sendChan.closed /\ errChan'.closed = errChan.closed
    BY <1>9 DEF DoPuts, PutsMets, ClearsMets, PutsErr, ClearsErr, PutsRecv,
                PutsCallbackThrows, PutsRecvThrows, chans, Pushed, ChannelsOK, ChannelOf
  <2>4. recvChan'.closed = recvChan.closed
    BY <1>9 DEF DoPuts, PutsMets, ClearsMets, PutsErr, ClearsErr, PutsRecv,
                PutsCallbackThrows, PutsRecvThrows, chans, Popped, ChannelsOK, ChannelOf
  <2>5. pc'["doPuts"] = "threw" => sendChan.closed \/ errChan.closed \/ PluginMayThrow
    BY <1>9 DEF DoPuts, PutsMets, ClearsMets, PutsErr, ClearsErr, PutsRecv,
                PutsCallbackThrows, PutsRecvThrows
  <2>6. QED
    BY <2>1, <2>2, <2>3, <2>4, <2>5
<1>10. CASE HandlerEnds \/ PluginReturns \/ PluginThrows
  BY <1>1, <1>10 DEF HandlerEnds, PluginReturns, PluginThrows, chans
<1>11. CASE TimePasses \/ UNCHANGED vars
  BY <1>1, <1>11 DEF TimePasses, vars, environment, chans
<1>12. CASE ClientCancels
  BY <1>0, <1>12 DEF ClientCancels, chans
<1>13. CASE PluginRaises \/ \E n \in BatchSizes: PluginProduces(n)
  <2>1. /\ UNCHANGED <<streams, handler, cancelled, pc, sendChan, errChan, recvChan>>
        /\ plugin'.cancelled = plugin.cancelled
    BY <1>13 DEF PluginRaises, PluginProduces, environment, chans, PluginOK
  <2>2. QED
    BY <2>1
<1>14. QED
  BY <1>2, <1>3, <1>4, <1>5, <1>6, <1>7, <1>8, <1>9, <1>10, <1>11, <1>12, <1>13,
     <1>15 DEF Next, Step, Environment

\* In the first stream of an object no channel is closed, and the plugin is not
\* told of a cancellation, before the call is cancelled (the loops' exits).
THEOREM ClosedOnlyWhenCancelled == Spec => []CancelledBeforeClosed
<1>1. Init => CancelInv
  BY DEF Init, CancelInv, CancelledBeforeClosed, NewChannel, Threads
<1>2. CollectorInv /\ CancelInv /\ [Next]_vars => CancelInv'
  BY CancelStep
<1>3. CancelInv => CancelledBeforeClosed
  BY DEF CancelInv
<1>4. QED
  BY <1>1, <1>2, <1>3, CollectorInvariant, PTL DEF Spec

-----------------------------------------------------------------------------
(***************************************************************************)
(* The buffer.  Where metricsReply, maxBuffer and the place of metricSend  *)
(* change is all that matters; LeavesBuffer says that they do not.         *)
(***************************************************************************)
LeavesBuffer ==
    /\ UNCHANGED <<metricsReply, maxBuffer>>
    /\ \/ pc'["metricSend"] = pc["metricSend"]
       \/ /\ pc["metricSend"] \in Loop \cup {"get", "due"}
          /\ pc'["metricSend"] \in Loop \cup {"get", "due", "add", "clear_due"}

SetsLimit ==
    /\ pc'["metricSend"] = pc["metricSend"] /\ metricsReply' = metricsReply
    /\ \/ maxBuffer' = maxBuffer
       \/ \E r \in Requests: r.buffer > 0 /\ maxBuffer' = r.buffer

\* The actions of metricSend that do more than that, and streamRecv's Read.
LEMMA BufferActions ==
    ASSUME CollectorInv, [Next]_vars
    PROVE  LeavesBuffer \/ SetsLimit \/ AddMetric \/ WriteFull \/ BatchDone \/ Clear
<1> USE DEF CollectorInv, TypeOK, PlacesOK, Go, Threads
<1> USE DEF LeavesBuffer, Loop
<1>1. CASE StartStream
  BY <1>1 DEF StartStream, Joined, ControlOK, SendPlaces, Clearing
<1>2. ASSUME NEW t \in Threads, Enter(t) \/ Leave(t) \/ Tell(t) \/ TellThrows(t)
      PROVE  LeavesBuffer
  BY <1>2 DEF Enter, Leave, Tell, TellThrows, FirstPlace, buffers
<1>3. CASE SendGets \/ DurationTest
  BY <1>3 DEF SendGets, DurationTest, buffers
<1>4. CASE ErrorSend \/ RecvReadFails \/ RecvPuts
  BY <1>4 DEF ErrorSend, ErrGets, ErrWrites, RecvReadFails, RecvPuts, buffers
<1>5. CASE DoPuts \/ PutsCallbackThrows \/ PutsRecvThrows
  BY <1>5 DEF DoPuts, PutsMets, ClearsMets, PutsErr, ClearsErr, PutsRecv,
              PutsCallbackThrows, PutsRecvThrows, buffers
<1>6. CASE \/ HandlerEnds \/ PluginReturns \/ PluginThrows \/ ClientCancels \/ TimePasses
           \/ PluginRaises \/ (\E n \in BatchSizes: PluginProduces(n)) \/ UNCHANGED vars
  BY <1>6 DEF HandlerEnds, PluginReturns, PluginThrows, ClientCancels, TimePasses,
              PluginRaises, PluginProduces, vars, buffers
<1>7. ASSUME NEW r \in Requests, RecvReads(r)
      PROVE  SetsLimit
  BY <1>7 DEF RecvReads, SetsLimit
<1>8. QED
  BY <1>1, <1>2, <1>3, <1>4, <1>5, <1>6, <1>7 DEF Next, Step, MetricSend, Environment

\* Without a buffer size nothing is held back while metricSend waits for the
\* next batch: the size never becomes zero again once Snap has set another
\* (metricSend, streamRecv).
THEOREM ImmediateSend == Spec => []ZeroBufferSendsAtOnce
<1>1. Init => ZeroBufferSendsAtOnce
  BY DEF Init, ZeroBufferSendsAtOnce
<1>2. CollectorInv /\ ZeroBufferSendsAtOnce /\ [Next]_vars => ZeroBufferSendsAtOnce'
  <2> SUFFICES ASSUME CollectorInv, ZeroBufferSendsAtOnce, [Next]_vars
               PROVE  ZeroBufferSendsAtOnce'
    OBVIOUS
  <2> USE DEF ZeroBufferSendsAtOnce, CollectorInv, TypeOK, PlacesOK, BuffersOK, Go, Threads
  <2>1. CASE LeavesBuffer
    BY <2>1 DEF LeavesBuffer, Loop
  <2>2. CASE SetsLimit
    BY <2>2, RequestsAssumption DEF SetsLimit
  <2>3. CASE AddMetric
    BY <2>3 DEF AddMetric
  <2>4. CASE WriteFull \/ BatchDone
    BY <2>4 DEF WriteFull, BatchDone, SendAtOnce, buffers
  <2>5. CASE Clear
    BY <2>5 DEF Clear, EmptyBuffer
  <2>6. QED
    BY <2>1, <2>2, <2>3, <2>4, <2>5, BufferActions
<1>3. QED
  BY <1>1, <1>2, CollectorInvariant, PTL DEF Spec

-----------------------------------------------------------------------------
(***************************************************************************)
(* The comparison with the maximum is an equality.  What Snap may not do   *)
(* is name a size that the buffer has already reached, unless it is about  *)
(* to be emptied; raising the size, or lowering it above what is buffered, *)
(* is harmless at any time, in mid-batch too.                              *)
(***************************************************************************)
Emptying == pc["metricSend"] \in Clearing \cup {"write_full"}

BufferInv == maxBuffer > 0 /\ ~Emptying => Len(metricsReply) < maxBuffer

NewSizeFits == maxBuffer' # maxBuffer => Emptying \/ Len(metricsReply) < maxBuffer'

LEMMA BufferStep ==
    ASSUME CollectorInv, BufferInv, [Next]_vars, NewSizeFits
    PROVE  /\ BufferInv'
           /\ Len(metricsReply') > Len(metricsReply) /\ maxBuffer > 0
                  => Len(metricsReply') <= maxBuffer
<1> USE DEF BufferInv, Emptying, Clearing, CollectorInv, TypeOK, PlacesOK, BuffersOK, Go,
            Threads
<1>0. maxBuffer \in Nat /\ Len(metricsReply) \in Nat
  OBVIOUS
<1>1. CASE LeavesBuffer
  BY <1>0, <1>1 DEF LeavesBuffer, Loop
<1>2. CASE SetsLimit
  BY <1>0, <1>2 DEF SetsLimit, NewSizeFits
<1>3. CASE AddMetric
  <2>1. Len(metricsReply') = Len(metricsReply) + 1
    <3>1. metricsReply' = Append(metricsReply, Head(batch)) /\ Head(batch) \in Metric
      BY <1>3, HeadTailProperties DEF AddMetric, ControlOK, LocalsOK
    <3>2. QED
      BY <3>1, AppendProperties
  <2>2. /\ maxBuffer' = maxBuffer /\ pc["metricSend"] = "add"
        /\ pc'["metricSend"] = IF Len(metricsReply') = maxBuffer THEN "write_full"
                               ELSE IF batch' = <<>> THEN "batch_done" ELSE "add"
    BY <1>3 DEF AddMetric, BufferFull
  <2>3. QED
    BY <1>0, <2>1, <2>2
<1>4. CASE WriteFull
  BY <1>0, <1>4 DEF WriteFull, buffers
<1>5. CASE BatchDone
  BY <1>0, <1>5 DEF BatchDone, buffers
<1>6. CASE Clear
  <2>1. metricsReply' = <<>> /\ maxBuffer' = maxBuffer /\ Len(<<>>) = 0
    BY <1>6 DEF Clear, EmptyBuffer
  <2>2. QED
    BY <1>0, <2>1
<1>7. QED
  BY <1>1, <1>2, <1>3, <1>4, <1>5, <1>6, BufferActions

\* Whatever sizes Snap names and whenever it does, the buffer never holds more
\* than the maximum as long as no new size is one the buffer has reached while
\* metricSend is adding or waiting (metricSend's ==, streamRecv's limit); what
\* the code does otherwise is the counterexample to BufferNeverOvergrows.
THEOREM BufferBounded == Spec /\ [][NewSizeFits]_vars => BufferNeverOvergrows
<1>1. Init => BufferInv
  BY BoundsAssumption DEF Init, BufferInv
<1>2. CollectorInv /\ BufferInv /\ [Next]_vars /\ [NewSizeFits]_vars
      => /\ BufferInv'
         /\ [Len(metricsReply') > Len(metricsReply) /\ maxBuffer > 0
                => Len(metricsReply') <= maxBuffer]_vars
  <2>1. ASSUME CollectorInv, UNCHANGED vars
        PROVE  NewSizeFits
    BY <2>1 DEF vars, buffers, NewSizeFits
  <2>2. QED
    BY <2>1, BufferStep
<1>3. QED
  BY <1>1, <1>2, CollectorInvariant, PTL DEF Spec, BufferNeverOvergrows
=============================================================================
