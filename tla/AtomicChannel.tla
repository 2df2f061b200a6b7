--------------------------- MODULE AtomicChannel ----------------------------
(***************************************************************************)
(* What StreamCollectorImpl::StreamChannel<T> promises its callers: put,   *)
(* get, close and is_closed take effect at one instant between the call    *)
(* and the return.  The locking and the waiting are not seen here; the     *)
(* module StreamChannel adds them and is shown to implement this one.      *)
(***************************************************************************)
EXTENDS ChannelOps

CONSTANTS Threads,  \* the callers
          Values,   \* the items put into the channel
          Nothing   \* "no call" and "no answer yet"

VARIABLES chan,   \* the channel
          call,   \* call[t]: the operation thread t is in, or Nothing
          answer  \* answer[t]: what the operation returns, once it is decided

vars == <<chan, call, answer>>

\* get(out, true) is "get", get(out, false) is "try_get".
Calls == [op: {"put"}, val: Values]
             \cup [op: {"get", "try_get", "close", "is_closed"}]

\* A get that returns true hands back the item; false is "none".
Answers == [ok: {"got"}, val: Values]
               \cup [ok: {"done", "throws", "none", "yes", "no"}]

Undecided(t, op) == call[t] # Nothing /\ call[t].op = op /\ answer[t] = Nothing

Decide(t, a) == answer' = [answer EXCEPT ![t] = a] /\ UNCHANGED call

Invoke(t, c) ==
    /\ call[t] = Nothing
    /\ call' = [call EXCEPT ![t] = c]
    /\ UNCHANGED <<chan, answer>>

Put(t) ==
    /\ Undecided(t, "put")
    /\ \/ /\ ~chan.closed
          /\ chan' = Pushed(chan, call[t].val)
          /\ Decide(t, [ok |-> "done"])
       \/ /\ chan.closed
          /\ Decide(t, [ok |-> "throws"])
          /\ UNCHANGED chan

\* Either form of get takes the oldest item; it fails on an empty channel,
\* the waiting form only once the channel is closed.
Get(t) ==
    \E op \in {"get", "try_get"}:
        /\ Undecided(t, op)
        /\ \/ /\ ~IsEmpty(chan)
              /\ Decide(t, [ok |-> "got", val |-> Front(chan)])
              /\ chan' = Popped(chan)
           \/ /\ IsEmpty(chan)
              /\ op = "get" => chan.closed
              /\ Decide(t, [ok |-> "none"])
              /\ UNCHANGED chan

Close(t) ==
    /\ Undecided(t, "close")
    /\ chan' = Closed(chan)
    /\ Decide(t, [ok |-> "done"])

Query(t) ==
    /\ Undecided(t, "is_closed")
    /\ Decide(t, [ok |-> IF chan.closed THEN "yes" ELSE "no"])
    /\ UNCHANGED chan

Return(t) ==
    /\ answer[t] # Nothing
    /\ call' = [call EXCEPT ![t] = Nothing]
    /\ answer' = [answer EXCEPT ![t] = Nothing]
    /\ UNCHANGED chan

Init ==
    /\ chan = NewChannel
    /\ call = [t \in Threads |-> Nothing]
    /\ answer = [t \in Threads |-> Nothing]

Next ==
    \E t \in Threads:
        \/ \E c \in Calls: Invoke(t, c)
        \/ Put(t) \/ Get(t) \/ Close(t) \/ Query(t) \/ Return(t)

Spec == Init /\ [][Next]_vars
=============================================================================
