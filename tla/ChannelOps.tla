----------------------------- MODULE ChannelOps -----------------------------
(***************************************************************************)
(* The data of StreamCollectorImpl::StreamChannel<T>: a list of items and  *)
(* the flag _closed.  A channel is the record [queue, closed]; what the    *)
(* member functions do to it while they hold its mutex is written here as  *)
(* operators, so that the model of the channel itself (StreamChannel) and  *)
(* the model of the proxy that uses three of them (StreamCollector) agree. *)
(***************************************************************************)
EXTENDS Sequences

\* A channel as its constructor leaves it.
NewChannel == [queue |-> <<>>, closed |-> FALSE]

ChannelOf(T) == [queue: Seq(T), closed: BOOLEAN]

\* _queue.push_front(in): the slip the checks tell from the line below.
PushedFront(c, v) == [c EXCEPT !.queue = <<v>> \o @]

\* _queue.push_back(in)
Pushed(c, v) == [c EXCEPT !.queue = Append(@, v)]

Front(c) == Head(c.queue)

\* _queue.pop_front()
Popped(c) == [c EXCEPT !.queue = Tail(@)]

Closed(c) == [c EXCEPT !.closed = TRUE]

IsEmpty(c) == c.queue = <<>>

\* The predicate get(out, true) waits for.
ReadyToGet(c) == c.closed \/ ~IsEmpty(c)
=============================================================================
