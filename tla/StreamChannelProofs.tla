------------------------ MODULE StreamChannelProofs -------------------------
(***************************************************************************)
(* Proofs about StreamChannel, for any finite set of callers and any set   *)
(* of items: the inductive invariant ChannelInv, that closing a channel    *)
(* leaves nobody asleep, and that the channel implements AtomicChannel.    *)
(***************************************************************************)
EXTENDS StreamChannel, ChannelLemmas, FiniteSetTheorems, TLAPS


(***************************************************************************)
(* Calls and answers are never Nothing.                                    *)
(***************************************************************************)
LEMMA CallFacts ==
    ASSUME NEW c \in Calls
    PROVE  /\ c # Nothing
           /\ c.op \in {"put", "get", "try_get", "close", "is_closed"}
           /\ c.op = "put" => c.val \in Values
BY NothingAssumption DEF Calls, Abstract!Calls

LEMMA AnswerFacts ==
    /\ \A a \in Answers: a # Nothing
    /\ \A k \in {"done", "throws", "none", "yes", "no"}: [ok |-> k] \in Answers
    /\ \A v \in Values: [ok |-> "got", val |-> v] \in Answers
BY NothingAssumption DEF Answers, Abstract!Answers

(***************************************************************************)
(* The invariant.                                                          *)
(***************************************************************************)
LEMMA InitChannelInv == Init => ChannelInv
BY NothingAssumption, NewChannelType
   DEF Init, ChannelInv, TypeOK, LockDiscipline, CallDiscipline, CopyIsFront,
       Places, Holding

LEMMA InvokeChannelInv ==
    ASSUME ChannelInv, NEW t \in Threads, NEW c \in Calls, Invoke(t, c)
    PROVE  ChannelInv'
BY CallFacts
   DEF ChannelInv, TypeOK, LockDiscipline, CallDiscipline, CopyIsFront,
       Places, Holding, Invoke, Go, IsEmpty, Front

LEMMA StepChannelInv ==
    ASSUME ChannelInv, NEW t \in Threads, Step(t)
    PROVE  ChannelInv'
<1>0. /\ chan \in ChannelOf(Values)
      /\ ~IsEmpty(chan) => Front(chan) \in Values /\ Popped(chan) \in ChannelOf(Values)
  BY PoppedFacts DEF ChannelInv, TypeOK
<1> USE AnswerFacts, NothingAssumption
        DEF ChannelInv, TypeOK, LockDiscipline, CallDiscipline, CopyIsFront,
            Places, Holding, Go, InCall, Decide
<1>1. CASE Lock(t)
  BY <1>1 DEF Lock, MayLock
<1>2. CASE PutThrows(t)
  BY <1>2 DEF PutThrows
<1>3. CASE PutPushes(t)
  <2>1. call[t] \in Calls /\ call[t].val \in Values
    BY <1>3, CallFacts DEF PutPushes
  <2>2. QED
    BY <1>3, <2>1, PushedFacts DEF PutPushes
<1>4. CASE CloseSets(t)
  BY <1>4, ClosedFacts DEF CloseSets
<1>5. CASE Notify(t)
  BY <1>5 DEF Notify, NotifyOne, NotifyAll, Asleep
<1>6. CASE GetSleeps(t)
  BY <1>6 DEF GetSleeps
<1>7. CASE GetFindsNothing(t)
  BY <1>7 DEF GetFindsNothing, GetPastWait
<1>8. CASE GetCopies(t)
  BY <1>0, <1>8 DEF GetCopies, GetPastWait
<1>9. CASE GetPops(t)
  <2>1. chan' \in ChannelOf(Values) /\ out[t] \in Values
    BY <1>0, <1>9 DEF GetPops
  <2>2. \A u \in Threads: pc'[u] # "copied"
    BY <1>9 DEF GetPops
  <2>3. QED
    BY <1>9, <2>1, <2>2 DEF GetPops
<1>10. CASE IsClosed(t)
  BY <1>10 DEF IsClosed
<1>11. CASE Unlock(t)
  BY <1>11 DEF Unlock
<1>12. QED
  BY <1>1, <1>2, <1>3, <1>4, <1>5, <1>6, <1>7, <1>8, <1>9, <1>10, <1>11 DEF Step

LEMMA StutterChannelInv == ChannelInv /\ UNCHANGED vars => ChannelInv'
BY DEF vars, ChannelInv, TypeOK, LockDiscipline, CallDiscipline, CopyIsFront

\* _m is held by one thread at a time, calls get an answer exactly once, and a
\* get removes the very item it copied out (put, get, close, is_closed).
THEOREM ChannelInvariant == Spec => []ChannelInv
<1>1. ChannelInv /\ [Next]_vars => ChannelInv'
  <2> SUFFICES ASSUME ChannelInv, [Next]_vars
               PROVE  ChannelInv'
    OBVIOUS
  <2>1. ASSUME NEW t \in Threads, NEW c \in Calls, Invoke(t, c)
        PROVE  ChannelInv'
    BY <2>1, InvokeChannelInv
  <2>2. ASSUME NEW t \in Threads, Step(t)
        PROVE  ChannelInv'
    BY <2>2, StepChannelInv
  <2>3. ASSUME NEW t \in Threads, SpuriousWake(t)
        PROVE  ChannelInv'
    BY <2>3, NothingAssumption
       DEF ChannelInv, TypeOK, LockDiscipline, CallDiscipline, CopyIsFront,
           Places, Holding, SpuriousWake, Go
  <2>4. CASE UNCHANGED vars
    BY <2>4, StutterChannelInv
  <2>5. QED
    BY <2>1, <2>2, <2>3, <2>4 DEF Next
<1>2. QED
  BY <1>1, InitChannelInv, PTL DEF Spec

(***************************************************************************)
(* Nobody is left asleep on a closed channel.                              *)
(***************************************************************************)

\* close sets _closed under the mutex get sleeps with, and wakes every sleeper.
THEOREM ClosedChannelWakesAll == Spec => []ClosedWakesAll
<1>1. Init => ClosedWakesAll
  BY DEF Init, ClosedWakesAll, NewChannel
<1>2. ChannelInv /\ ClosedWakesAll /\ [Next]_vars => ClosedWakesAll'
  <2> SUFFICES ASSUME ChannelInv, ClosedWakesAll, [Next]_vars
               PROVE  ClosedWakesAll'
    OBVIOUS
  <2> USE DEF ClosedWakesAll, Asleep, Go, InCall, ChannelInv, TypeOK, Places
  <2>1. ASSUME NEW t \in Threads, NEW c \in Calls, Invoke(t, c)
        PROVE  ClosedWakesAll'
    BY <2>1 DEF Invoke
  <2>2. ASSUME NEW t \in Threads, Step(t)
        PROVE  ClosedWakesAll'
    <3>1. CASE Lock(t)
      BY <3>1 DEF Lock, MayLock
    <3>2. CASE PutThrows(t)
      BY <3>2 DEF PutThrows
    <3>3. CASE PutPushes(t)
      BY <3>3, PushedFacts DEF PutPushes, Pushed
    <3>4. CASE CloseSets(t)
      BY <3>4 DEF CloseSets
    <3>5. CASE Notify(t)
      <4>1. CASE pc[t] = "notify_all"
        BY <3>5, <4>1 DEF Notify, NotifyAll
      <4>2. CASE pc[t] = "notify"
        BY <3>5, <4>2 DEF Notify, LockDiscipline, Holding
      <4>3. QED
        BY <3>5, <4>1, <4>2 DEF Notify
    <3>6. CASE GetSleeps(t)
      BY <3>6 DEF GetSleeps, WaitOver, ReadyToGet
    <3>7. CASE GetFindsNothing(t)
      BY <3>7 DEF GetFindsNothing, GetPastWait
    <3>8. CASE GetCopies(t)
      BY <3>8 DEF GetCopies, GetPastWait
    <3>9. CASE GetPops(t)
      BY <3>9 DEF GetPops, Popped
    <3>10. CASE IsClosed(t)
      BY <3>10 DEF IsClosed
    <3>11. CASE Unlock(t)
      BY <3>11 DEF Unlock
    <3>12. QED
      BY <2>2, <3>1, <3>2, <3>3, <3>4, <3>5, <3>6, <3>7, <3>8, <3>9, <3>10, <3>11
         DEF Step
  <2>3. ASSUME NEW t \in Threads, SpuriousWake(t)
        PROVE  ClosedWakesAll'
    BY <2>3 DEF SpuriousWake
  <2>4. CASE UNCHANGED vars
    BY <2>4 DEF vars
  <2>5. QED
    BY <2>1, <2>2, <2>3, <2>4 DEF Next
<1>3. QED
  BY <1>1, <1>2, ChannelInvariant, PTL DEF Spec

(***************************************************************************)
(* No wake-up is lost.  The count of Takers changes by at most one in a    *)
(* step, so the proof says for each step how the set itself changes.       *)
(***************************************************************************)
LEMMA TakersFinite ==
    /\ IsFiniteSet(Takers) /\ Cardinality(Takers) \in Nat
    /\ IsFiniteSet(Takers') /\ Cardinality(Takers') \in Nat
<1>1. Takers \subseteq Threads /\ Takers' \subseteq Threads
  BY DEF Takers
<1>2. QED
  BY <1>1, ThreadsAssumption, FS_Subset, FS_CardinalityType

\* A step that loses no taker, adds no item and puts nobody to sleep.
LEMMA MoreTakers ==
    ASSUME ChannelInv, ItemsAreCovered, chan'.queue = chan.queue,
           Asleep' \subseteq Asleep, Takers \subseteq Takers'
    PROVE  ItemsAreCovered'
<1>1. Cardinality(Takers) <= Cardinality(Takers')
  BY TakersFinite, FS_Subset
<1>2. Len(chan.queue) \in Nat
  BY ChannelFields, LenProperties DEF ChannelInv, TypeOK
<1>3. QED
  BY <1>1, <1>2, TakersFinite DEF ItemsAreCovered

LEMMA StepCovers ==
    ASSUME ChannelInv, ItemsAreCovered, NEW t \in Threads, Step(t)
    PROVE  ItemsAreCovered'
<1>0. /\ chan \in ChannelOf(Values)
      /\ chan.queue \in Seq(Values)
      /\ Len(chan.queue) \in Nat
      /\ IsEmpty(chan) <=> Len(chan.queue) = 0
  BY ChannelFields, LenProperties DEF ChannelInv, TypeOK
<1>a. /\ call \in [Threads -> Calls \cup {Nothing}]
      /\ pc \in [Threads -> Places]
      /\ LockDiscipline /\ CallDiscipline /\ CopyIsFront
  BY DEF ChannelInv, TypeOK
<1>1. CASE \/ Lock(t) \/ PutThrows(t) \/ CloseSets(t)
           \/ GetFindsNothing(t) \/ IsClosed(t) \/ Unlock(t) \/ GetCopies(t)
  <2>1. CASE GetFindsNothing(t)
    <3>1. Len(chan'.queue) = 0
      BY <1>0, <2>1 DEF GetFindsNothing
    <3>2. QED
      BY <3>1, TakersFinite DEF ItemsAreCovered
  <2>2. CASE ~GetFindsNothing(t)
    <3>1. chan'.queue = chan.queue
      BY <1>0, <1>1, <2>2, ClosedFacts
         DEF Lock, PutThrows, CloseSets, IsClosed, Unlock, GetCopies
    <3>2. Asleep' \subseteq Asleep
      BY <1>1, <1>a, <2>2
         DEF Lock, PutThrows, CloseSets, IsClosed, Unlock, GetCopies, Asleep, Go
    <3>3. Takers \subseteq Takers'
      BY <1>1, <1>a, <2>2
         DEF Lock, MayLock, PutThrows, CloseSets, IsClosed, Unlock, GetCopies,
             GetPastWait, Takers, Go, InCall
    <3>4. QED
      BY <3>1, <3>2, <3>3, MoreTakers
  <2>3. QED
    BY <2>1, <2>2
<1>2. CASE PutPushes(t)
  <2>1. call[t].val \in Values
    BY <1>2, <1>a, CallFacts DEF PutPushes, InCall, CallDiscipline
  <2>2. Len(chan'.queue) = Len(chan.queue) + 1
    BY <1>0, <1>2, <2>1, PushedFacts DEF PutPushes
  <2>3. Takers' = Takers \cup {t} /\ t \notin Takers
    BY <1>2, <1>a DEF PutPushes, Takers, Go, InCall
  <2>4. Cardinality(Takers') = Cardinality(Takers) + 1
    BY <2>3, TakersFinite, FS_AddElement
  <2>5. Asleep' = Asleep
    BY <1>2, <1>a DEF PutPushes, Asleep, Go, InCall
  <2>6. QED
    BY <1>0, <2>2, <2>4, <2>5, TakersFinite DEF ItemsAreCovered
<1>3. CASE Notify(t) /\ Asleep' # {}
  <2>1. PICK u \in Threads:
            /\ pc[t] = "notify" /\ pc[u] = "asleep"
            /\ pc' = [w \in Threads |-> IF w = t THEN "unlock"
                                        ELSE IF w \in {u} THEN "relock" ELSE pc[w]]
    BY <1>3, <1>a DEF Notify, NotifyOne, NotifyAll, Asleep
  <2>2. call' = call /\ chan' = chan
    BY <1>3 DEF Notify
  <2>3. call[u].op = "get"
    BY <2>1, <1>a DEF CallDiscipline
  <2>4. u # t /\ t \in Takers /\ u \notin Takers
    BY <2>1 DEF Takers
  <2>5. Takers' = (Takers \ {t}) \cup {u}
    BY <2>1, <2>2, <2>3 DEF Takers
  <2>6. Cardinality(Takers \ {t}) = Cardinality(Takers) - 1
    BY <2>4, TakersFinite, FS_RemoveElement
  <2>7. Cardinality(Takers') = Cardinality(Takers \ {t}) + 1
    BY <2>4, <2>5, TakersFinite, FS_RemoveElement, FS_AddElement
  <2>8. Asleep # {}
    BY <2>1 DEF Asleep
  <2>9. QED
    BY <1>0, <2>2, <2>6, <2>7, <2>8, TakersFinite DEF ItemsAreCovered
<1>4. CASE GetSleeps(t)
  <2>1. Len(chan'.queue) = 0
    BY <1>0, <1>4 DEF GetSleeps, WaitOver, ReadyToGet
  <2>2. QED
    BY <2>1, TakersFinite DEF ItemsAreCovered
<1>5. CASE GetPops(t)
  <2>1. Len(chan'.queue) = Len(chan.queue) - 1
    BY <1>0, <1>5, <1>a, PoppedFacts DEF GetPops, CopyIsFront
  <2>2. Takers' = Takers \ {t}
    BY <1>5, <1>a DEF GetPops, Takers, Go
  <2>3. Cardinality(Takers') >= Cardinality(Takers) - 1
    BY <2>2, TakersFinite, FS_RemoveElement
  <2>4. Asleep' = Asleep
    BY <1>5, <1>a DEF GetPops, Asleep, Go
  <2>5. QED
    BY <1>0, <2>1, <2>3, <2>4, TakersFinite DEF ItemsAreCovered
<1>6. CASE Asleep' = {}
  BY <1>6 DEF ItemsAreCovered
<1>7. QED
  BY <1>1, <1>2, <1>3, <1>4, <1>5, <1>6 DEF Step

\* put wakes one sleeper per item, and a get that overtakes it can only have
\* taken an item of its own: no item waits beside a sleeper nobody will wake.
THEOREM NoLostWakeUp == Spec => []ItemsAreCovered
<1>1. Init => ItemsAreCovered
  BY DEF Init, ItemsAreCovered, Asleep
<1>2. ChannelInv /\ ItemsAreCovered /\ [Next]_vars => ItemsAreCovered'
  <2> SUFFICES ASSUME ChannelInv, ItemsAreCovered, [Next]_vars
               PROVE  ItemsAreCovered'
    OBVIOUS
  <2>1. ASSUME NEW t \in Threads, NEW c \in Calls, Invoke(t, c)
        PROVE  ItemsAreCovered'
    <3>1. /\ chan'.queue = chan.queue
          /\ Asleep' \subseteq Asleep
          /\ Takers \subseteq Takers'
      BY <2>1 DEF Invoke, Asleep, Takers, Go, ChannelInv, TypeOK
    <3>2. QED
      BY <3>1, MoreTakers
  <2>2. ASSUME NEW t \in Threads, Step(t)
        PROVE  ItemsAreCovered'
    BY <2>2, StepCovers
  <2>3. ASSUME NEW t \in Threads, SpuriousWake(t)
        PROVE  ItemsAreCovered'
    <3>1. /\ chan'.queue = chan.queue
          /\ Asleep' \subseteq Asleep
          /\ Takers \subseteq Takers'
      BY <2>3 DEF SpuriousWake, Asleep, Takers, Go, ChannelInv, TypeOK
    <3>2. QED
      BY <3>1, MoreTakers
  <2>4. CASE UNCHANGED vars
    BY <2>4 DEF vars, ItemsAreCovered, Asleep, Takers
  <2>5. QED
    BY <2>1, <2>2, <2>3, <2>4 DEF Next
<1>3. QED
  BY <1>1, <1>2, ChannelInvariant, PTL DEF Spec

(***************************************************************************)
(* The channel implements AtomicChannel.                                   *)
(***************************************************************************)
LEMMA StepImplements ==
    ASSUME ChannelInv, NEW t \in Threads, Step(t)
    PROVE  [Abstract!Next]_Abstract!vars
<1> USE NothingAssumption
    DEF ChannelInv, TypeOK, LockDiscipline, CallDiscipline, Holding, Places,
        Go, InCall, Decide, Abstract!Next, Abstract!vars, Abstract!Undecided,
        Abstract!Decide, Abstract!IsEmpty, Abstract!Front, Abstract!Pushed,
        Abstract!Popped, Abstract!Closed, IsEmpty, Front, Pushed, Popped, Closed
<1>1. CASE Lock(t) \/ Notify(t) \/ GetSleeps(t) \/ GetCopies(t)
  BY <1>1 DEF Lock, Notify, GetSleeps, GetCopies
<1>2. CASE PutThrows(t) \/ PutPushes(t)
  BY <1>2 DEF PutThrows, PutPushes, Abstract!Put
<1>3. CASE CloseSets(t)
  BY <1>3 DEF CloseSets, Abstract!Close
<1>4. CASE GetFindsNothing(t)
  BY <1>4 DEF GetFindsNothing, GetPastWait, WaitOver, ReadyToGet, Abstract!Get
<1>5. CASE GetPops(t)
  BY <1>5 DEF GetPops, CopyIsFront, Abstract!Get
<1>6. CASE IsClosed(t)
  BY <1>6 DEF IsClosed, Abstract!Query
<1>7. CASE Unlock(t)
  BY <1>7 DEF Unlock, Abstract!Return
<1>8. QED
  BY <1>1, <1>2, <1>3, <1>4, <1>5, <1>6, <1>7 DEF Step

\* To its callers the channel with its mutex and its condition variable is one
\* whose put, get, close and is_closed take effect at a single instant.
THEOREM ChannelImplementsAtomicChannel == Spec => ImplementsAtomicChannel
<1>1. Init => Abstract!Init
  BY DEF Init, Abstract!Init, NewChannel, Abstract!NewChannel
<1>2. ChannelInv /\ [Next]_vars => [Abstract!Next]_Abstract!vars
  <2> SUFFICES ASSUME ChannelInv, [Next]_vars
               PROVE  [Abstract!Next]_Abstract!vars
    OBVIOUS
  <2>1. ASSUME NEW t \in Threads, NEW c \in Calls, Invoke(t, c)
        PROVE  [Abstract!Next]_Abstract!vars
    BY <2>1 DEF Invoke, Go, Calls, Abstract!Next, Abstract!Invoke,
                ChannelInv, CallDiscipline
  <2>2. ASSUME NEW t \in Threads, Step(t)
        PROVE  [Abstract!Next]_Abstract!vars
    BY <2>2, StepImplements
  <2>3. ASSUME NEW t \in Threads, SpuriousWake(t)
        PROVE  [Abstract!Next]_Abstract!vars
    BY <2>3 DEF SpuriousWake, Abstract!vars
  <2>4. CASE UNCHANGED vars
    BY <2>4 DEF vars, Abstract!vars
  <2>5. QED
    BY <2>1, <2>2, <2>3, <2>4 DEF Next
<1>3. QED
  BY <1>1, <1>2, ChannelInvariant, PTL
     DEF Spec, ImplementsAtomicChannel, Abstract!Spec
=============================================================================
