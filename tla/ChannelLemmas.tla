--------------------------- MODULE ChannelLemmas ----------------------------
(***************************************************************************)
(* What the operators of ChannelOps preserve, for any set of items: the    *)
(* facts the proofs about the channel and about its users rest on.         *)
(***************************************************************************)
EXTENDS ChannelOps, Integers, SequenceTheorems, TLAPS

LEMMA NewChannelType ==
    ASSUME NEW T
    PROVE  NewChannel \in ChannelOf(T) /\ IsEmpty(NewChannel) /\ ~NewChannel.closed
BY DEF NewChannel, ChannelOf, IsEmpty

\* put: the item goes to the back; the front, if there is one, stays.
LEMMA PushedFacts ==
    ASSUME NEW T, NEW c \in ChannelOf(T), NEW v \in T
    PROVE  /\ Pushed(c, v) \in ChannelOf(T)
           /\ Pushed(c, v).closed = c.closed
           /\ Pushed(c, v).queue = Append(c.queue, v)
           /\ ~IsEmpty(Pushed(c, v))
           /\ Len(Pushed(c, v).queue) = Len(c.queue) + 1
           /\ ~IsEmpty(c) => Front(Pushed(c, v)) = Front(c)
BY DEF ChannelOf, Pushed, IsEmpty, Front

\* get: the front is an item of the channel's type and the rest remains.
LEMMA PoppedFacts ==
    ASSUME NEW T, NEW c \in ChannelOf(T), ~IsEmpty(c)
    PROVE  /\ Front(c) \in T
           /\ Popped(c) \in ChannelOf(T)
           /\ Popped(c).closed = c.closed
           /\ Popped(c).queue = Tail(c.queue)
           /\ Len(Popped(c).queue) = Len(c.queue) - 1
           /\ c.queue = <<Front(c)>> \o Popped(c).queue
<1>1. c.queue \in Seq(T) /\ c.queue # <<>>
  BY DEF ChannelOf, IsEmpty
<1>2. /\ Popped(c) \in ChannelOf(T)
      /\ Popped(c).closed = c.closed
      /\ Popped(c).queue = Tail(c.queue)
  BY <1>1, HeadTailProperties DEF ChannelOf, Popped
<1>3. Front(c) \in T /\ Len(Tail(c.queue)) = Len(c.queue) - 1
  BY <1>1, HeadTailProperties DEF Front
<1>4. c.queue = <<Head(c.queue)>> \o Tail(c.queue)
  BY <1>1
<1>5. QED
  BY <1>2, <1>3, <1>4 DEF Front

\* close: nothing but the flag changes.
LEMMA ClosedFacts ==
    ASSUME NEW T, NEW c \in ChannelOf(T)
    PROVE  /\ Closed(c) \in ChannelOf(T)
           /\ Closed(c).closed
           /\ Closed(c).queue = c.queue
           /\ IsEmpty(Closed(c)) <=> IsEmpty(c)
           /\ Front(Closed(c)) = Front(c)
BY DEF ChannelOf, Closed, IsEmpty, Front

LEMMA ChannelFields ==
    ASSUME NEW T, NEW c \in ChannelOf(T)
    PROVE  /\ c.queue \in Seq(T)
           /\ c.closed \in BOOLEAN
           /\ IsEmpty(c) <=> Len(c.queue) = 0
BY DEF ChannelOf, IsEmpty

(***************************************************************************)
(* What a pipe holds, read from its far end to its near end: moving an     *)
(* item from one stage to the next changes the stages and not the whole.   *)
(***************************************************************************)
LEMMA MoveIn ==
    ASSUME NEW T, NEW a \in Seq(T), NEW b \in Seq(T), NEW x \in T
    PROVE  a \o b \o <<x>> = a \o Append(b, x) \o <<>>
<1>1. b \o <<x>> = Append(b, x) /\ Append(b, x) \in Seq(T) /\ <<x>> \in Seq(T)
  BY AppendIsConcat
<1>3. a \o Append(b, x) \in Seq(T)
  BY <1>1, ConcatProperties
<1>4. a \o Append(b, x) \o <<>> = a \o Append(b, x)
  BY <1>3, ConcatEmptySeq
<1>5. a \o b \o <<x>> = a \o (b \o <<x>>)
  BY <1>1, ConcatAssociative
<1>6. QED
  BY <1>1, <1>4, <1>5

LEMMA MoveInNext ==
    ASSUME NEW T, NEW b \in Seq(T), NEW x \in T
    PROVE  b \o <<x>> = Append(b, x) \o <<>>
<1>1. Append(b, x) \in Seq(T)
  OBVIOUS
<1>2. QED
  BY <1>1, AppendIsConcat, ConcatEmptySeq

LEMMA MoveOn ==
    ASSUME NEW T, NEW a \in Seq(T), NEW b \in Seq(T), b # <<>>
    PROVE  a \o b = Append(a, Head(b)) \o Tail(b)
<1>1. Head(b) \in T /\ Tail(b) \in Seq(T)
  BY HeadTailProperties
<1>2. b = <<Head(b)>> \o Tail(b) /\ <<Head(b)>> \in Seq(T)
  BY <1>1
<1>3. Append(a, Head(b)) = a \o <<Head(b)>>
  BY <1>1, AppendIsConcat
<1>4. a \o (<<Head(b)>> \o Tail(b)) = a \o <<Head(b)>> \o Tail(b)
  BY <1>1, <1>2, ConcatAssociative
<1>5. QED
  BY <1>2, <1>3, <1>4

LEMMA MoveUp ==
    ASSUME NEW T, NEW a \in Seq(T), NEW b \in Seq(T), NEW c \in Seq(T), b # <<>>
    PROVE  a \o <<>> \o (b \o c) = a \o <<Head(b)>> \o (Tail(b) \o c)
<1>1. Head(b) \in T /\ Tail(b) \in Seq(T) /\ <<Head(b)>> \in Seq(T)
  BY HeadTailProperties
<1>2. a \o <<>> = a
  BY ConcatEmptySeq
<1>3. b = <<Head(b)>> \o Tail(b)
  BY <1>1
<1>4. b \o c = <<Head(b)>> \o (Tail(b) \o c)
  BY <1>1, <1>3, ConcatAssociative
<1>5. Tail(b) \o c \in Seq(T)
  BY <1>1, ConcatProperties
<1>6. a \o (<<Head(b)>> \o (Tail(b) \o c)) = a \o <<Head(b)>> \o (Tail(b) \o c)
  <2> DEFINE h == <<Head(b)>>
             u == Tail(b) \o c
  <2>1. h \in Seq(T) /\ u \in Seq(T)
    BY <1>1, <1>5
  <2> HIDE DEF h, u
  <2>2. a \o (h \o u) = a \o h \o u
    BY <2>1, ConcatAssociative
  <2>3. QED
    BY <2>2 DEF h, u
<1>7. QED
  BY <1>2, <1>4, <1>6

LEMMA Arrive ==
    ASSUME NEW T, NEW a \in Seq(T), NEW b \in Seq(T), NEW x \in T
    PROVE  Append(a \o b \o <<>>, x) = a \o b \o <<x>>
<1>1. a \o b \in Seq(T)
  BY ConcatProperties
<1>2. a \o b \o <<>> = a \o b
  BY <1>1, ConcatEmptySeq
<1>3. Append(a \o b, x) = a \o b \o <<x>>
  BY <1>1, AppendIsConcat
<1>4. QED
  BY <1>2, <1>3

LEMMA ArriveNext ==
    ASSUME NEW T, NEW a \in Seq(T), NEW b \in Seq(T), NEW x \in T
    PROVE  Append(a \o (b \o <<>>), x) = a \o (b \o <<x>>)
<1>1. a \o b \in Seq(T) /\ <<x>> \in Seq(T)
  BY ConcatProperties
<1>2. b \o <<>> = b
  BY ConcatEmptySeq
<1>3. Append(a \o b, x) = a \o b \o <<x>>
  BY <1>1, AppendIsConcat
<1>4. a \o b \o <<x>> = a \o (b \o <<x>>)
  BY <1>1, ConcatAssociative
<1>5. QED
  BY <1>2, <1>3, <1>4
=============================================================================
