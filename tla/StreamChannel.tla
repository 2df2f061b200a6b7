--------------------------- MODULE StreamChannel ----------------------------
(***************************************************************************)
(* StreamCollectorImpl::StreamChannel<T> (stream_collector_proxy.cc, lines *)
(* 266-303) as its threads execute it: every member function takes the     *)
(* mutex _m, get(out, true) sleeps on the condition variable _cv until its *)
(* predicate holds, put notifies one sleeper and close all of them.  The   *)
(* instants at which an operation takes effect are those of AtomicChannel. *)
(***************************************************************************)
EXTENDS ChannelOps, FiniteSets, Naturals

CONSTANTS Threads, Values, Nothing,
          Capacity   \* bound: no put is called on a longer queue

VARIABLES chan,    \* _queue and _closed
          call,    \* call[t]: the operation t is in, or Nothing
          answer,  \* answer[t]: what it will return, or Nothing
          mutex,   \* the holder of _m, or Nothing
          out,     \* out[t]: the item get has copied but not yet popped
          pc       \* where t is inside the member function

vars == <<chan, call, answer, mutex, out, pc>>

Abstract == INSTANCE AtomicChannel

Calls == Abstract!Calls
Answers == Abstract!Answers

ASSUME NothingAssumption == Nothing \notin Calls \cup Answers
                                           \cup Threads \cup Values
ASSUME CapacityAssumption == Capacity \in Nat
ASSUME ThreadsAssumption == IsFiniteSet(Threads)

Places == {"idle",      \* outside the channel
           "lock",      \* constructing the unique_lock
           "locked",    \* holds _m, has not looked at the channel yet
           "notify",    \* put has pushed, notify_one comes next
           "notify_all",\* close has set _closed
           "copied",    \* get has copied the front, pop_front comes next
           "asleep",    \* in _cv.wait, in the condition variable's wait set
           "relock",    \* woken inside _cv.wait, must take _m again
           "unlock"}    \* the answer is decided, the lock is released on exit

Asleep == {t \in Threads: pc[t] = "asleep"}

Go(t, place) == pc' = [pc EXCEPT ![t] = place]

Decide(t, a) == answer' = [answer EXCEPT ![t] = a]

InCall(t, place, op) == pc[t] = place /\ call[t].op = op

(***************************************************************************)
(* Forms of the operators below that a plausible slip would have written.  *)
(***************************************************************************)
LockNotExclusive(t) == pc[t] \in {"lock", "relock"}
NotifyNobody == {{}}
PredicateIgnoresClose(c) == ~IsEmpty(c)
NeverWaits(c) == TRUE
NotifyAllWakesOne == {{t}: t \in Asleep}

-----------------------------------------------------------------------------
\* A thread may take _m when nobody holds it.
MayLock(t) == pc[t] \in {"lock", "relock"} /\ mutex = Nothing

\* The sets of sleepers notify_one may wake: any single one, none if none sleeps.
NotifyOne == IF Asleep = {} THEN {{}} ELSE {{t}: t \in Asleep}

NotifyAll == {Asleep}

\* The predicate of _cv.wait.
WaitOver(c) == ReadyToGet(c)
-----------------------------------------------------------------------------
Invoke(t, c) ==
    /\ pc[t] = "idle"
    /\ c.op = "put" => Len(chan.queue) < Capacity
    /\ call' = [call EXCEPT ![t] = c]
    /\ Go(t, "lock")
    /\ UNCHANGED <<chan, answer, mutex, out>>

Lock(t) ==
    /\ MayLock(t)
    /\ mutex' = t
    /\ Go(t, "locked")
    /\ UNCHANGED <<chan, call, answer, out>>

\* put to a closed channel throws std::logic_error and the lock is released.
PutThrows(t) ==
    /\ InCall(t, "locked", "put")
    /\ chan.closed
    /\ Decide(t, [ok |-> "throws"])
    /\ Go(t, "unlock")
    /\ UNCHANGED <<chan, call, mutex, out>>

PutPushes(t) ==
    /\ InCall(t, "locked", "put")
    /\ ~chan.closed
    /\ chan' = Pushed(chan, call[t].val)
    /\ Decide(t, [ok |-> "done"])
    /\ Go(t, "notify")
    /\ UNCHANGED <<call, mutex, out>>

CloseSets(t) ==
    /\ InCall(t, "locked", "close")
    /\ chan' = Closed(chan)
    /\ Decide(t, [ok |-> "done"])
    /\ Go(t, "notify_all")
    /\ UNCHANGED <<call, mutex, out>>

\* The woken threads leave the wait set; each still has to take _m.
Notify(t) ==
    /\ pc[t] \in {"notify", "notify_all"}
    /\ \E woken \in IF pc[t] = "notify" THEN NotifyOne ELSE NotifyAll:
          pc' = [u \in Threads |-> IF u = t THEN "unlock"
                                   ELSE IF u \in woken THEN "relock" ELSE pc[u]]
    /\ UNCHANGED <<chan, call, answer, mutex, out>>

\* wait releases _m and joins the wait set in one step.
GetSleeps(t) ==
    /\ InCall(t, "locked", "get")
    /\ ~WaitOver(chan)
    /\ mutex' = Nothing
    /\ Go(t, "asleep")
    /\ UNCHANGED <<chan, call, answer, out>>

\* A condition variable may return from wait without a notification.
SpuriousWake(t) ==
    /\ pc[t] = "asleep"
    /\ Go(t, "relock")
    /\ UNCHANGED <<chan, call, answer, mutex, out>>

GetPastWait(t) == \/ InCall(t, "locked", "get") /\ WaitOver(chan)
                  \/ InCall(t, "locked", "try_get")

GetFindsNothing(t) ==
    /\ GetPastWait(t)
    /\ IsEmpty(chan)
    /\ Decide(t, [ok |-> "none"])
    /\ Go(t, "unlock")
    /\ UNCHANGED <<chan, call, mutex, out>>

GetCopies(t) ==
    /\ GetPastWait(t)
    /\ ~IsEmpty(chan)
    /\ out' = [out EXCEPT ![t] = Front(chan)]
    /\ Go(t, "copied")
    /\ UNCHANGED <<chan, call, answer, mutex>>

GetPops(t) ==
    /\ pc[t] = "copied"
    /\ chan' = Popped(chan)
    /\ Decide(t, [ok |-> "got", val |-> out[t]])
    /\ out' = [out EXCEPT ![t] = Nothing]
    /\ Go(t, "unlock")
    /\ UNCHANGED <<call, mutex>>

IsClosed(t) ==
    /\ InCall(t, "locked", "is_closed")
    /\ Decide(t, [ok |-> IF chan.closed THEN "yes" ELSE "no"])
    /\ Go(t, "unlock")
    /\ UNCHANGED <<chan, call, mutex, out>>

\* The unique_lock goes out of scope and the call returns.
Unlock(t) ==
    /\ pc[t] = "unlock"
    /\ mutex' = Nothing
    /\ call' = [call EXCEPT ![t] = Nothing]
    /\ answer' = [answer EXCEPT ![t] = Nothing]
    /\ Go(t, "idle")
    /\ UNCHANGED <<chan, out>>

Init ==
    /\ chan = NewChannel
    /\ call = [t \in Threads |-> Nothing]
    /\ answer = [t \in Threads |-> Nothing]
    /\ mutex = Nothing
    /\ out = [t \in Threads |-> Nothing]
    /\ pc = [t \in Threads |-> "idle"]

\* What a thread inside a member function does next.
Step(t) ==
    \/ Lock(t)
    \/ PutThrows(t) \/ PutPushes(t) \/ CloseSets(t) \/ Notify(t)
    \/ GetSleeps(t) \/ GetFindsNothing(t) \/ GetCopies(t) \/ GetPops(t)
    \/ IsClosed(t) \/ Unlock(t)

Next ==
    \E t \in Threads: (\E c \in Calls: Invoke(t, c)) \/ Step(t) \/ SpuriousWake(t)

Spec == Init /\ [][Next]_vars

\* A thread that can run inside the channel does: the scheduler's fairness.
\* Nothing is assumed of calls, of spurious wake-ups, or of who wins the mutex.
FairSpec == Spec /\ \A t \in Threads: WF_vars(Step(t))
-----------------------------------------------------------------------------
TypeOK ==
    /\ chan \in ChannelOf(Values)
    /\ call \in [Threads -> Calls \cup {Nothing}]
    /\ answer \in [Threads -> Answers \cup {Nothing}]
    /\ mutex \in Threads \cup {Nothing}
    /\ out \in [Threads -> Values \cup {Nothing}]
    /\ pc \in [Threads -> Places]

(***************************************************************************)
(* The inductive invariant, by parts.                                      *)
(***************************************************************************)
Holding == {"locked", "notify", "notify_all", "copied", "unlock"}

\* A thread is at a place where it owns _m exactly if it is the holder.
LockDiscipline == \A t \in Threads: pc[t] \in Holding <=> mutex = t

\* Which operation brings a thread to which place, and when its answer is known.
CallDiscipline ==
    \A t \in Threads:
        /\ pc[t] = "idle" <=> call[t] = Nothing
        /\ pc[t] \in {"notify", "notify_all", "unlock"} <=> answer[t] # Nothing
        /\ pc[t] \in {"asleep", "relock"} => call[t].op = "get"

\* Between the copy and the pop of get the front of the queue does not change,
\* so that the item handed out is the item removed.
CopyIsFront ==
    \A t \in Threads: pc[t] = "copied" =>
        /\ call[t].op \in {"get", "try_get"}
        /\ ~IsEmpty(chan)
        /\ out[t] = Front(chan)

ChannelInv == TypeOK /\ LockDiscipline /\ CallDiscipline /\ CopyIsFront

\* close sets _closed and notifies all sleepers without letting go of _m, and
\* get tests _closed under _m before it sleeps: no thread is left asleep on a
\* closed channel, unless the notify_all that will wake it is still to come.
ClosedWakesAll ==
    chan.closed /\ Asleep # {} => \E t \in Threads: pc[t] = "notify_all"

\* The threads an item may count on: a get that is awake and has not taken its
\* item yet, or a put whose notification is still to come.
Takers == {t \in Threads: \/ pc[t] = "notify"
                          \/ /\ pc[t] \in {"lock", "relock", "locked", "copied"}
                             /\ call[t].op = "get"}

\* No wake-up is lost: while some thread sleeps in get, the items in the
\* channel never outnumber those who are on their way to take them, although
\* put notifies a single sleeper and any other get may steal the item from it.
ItemsAreCovered == Asleep # {} => Len(chan.queue) <= Cardinality(Takers)

\* With its mutex and its condition variable the channel is indistinguishable,
\* to its callers, from one whose operations are instantaneous.
ImplementsAtomicChannel == Abstract!Spec

\* Closing the channel ends every wait (close calls notify_all).
CloseWakesSleepers ==
    \A t \in Threads: pc[t] = "asleep" /\ chan.closed ~> pc[t] # "asleep"

\* Once its callers make no more calls, the channel settles with no thread
\* asleep beside an item: every item put reaches a get that waits for one.
ItemsReachSleepers ==
    <>[][~\E t \in Threads: pc[t] = "idle" /\ pc'[t] # "idle"]_vars
        => <>[](Asleep = {} \/ IsEmpty(chan))
=============================================================================
