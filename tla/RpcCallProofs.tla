---------------------------- MODULE RpcCallProofs ----------------------------
(***************************************************************************)
(* Proofs about a remote call, from the stub that serializes the request to *)
(* the stub that parses the reply, for every service and method, and       *)
(* whatever may be asked and answered (CallAssumption).                    *)
(*                                                                         *)
(* CallInv, which is CallOK /\ LimitsNested, is inductive: the parser reads *)
(* within its limits only because the limits are nested within each other, *)
(* and the messages it fills are of their classes only because each frame  *)
(* goes into a field that may hold it (FramesOK).  A reply is of the class *)
(* that the stub awaits because the tables of the stub and of the service  *)
(* agree (ServicesAgree).  What is asked and answered is then sized honestly *)
(* and copied whole: AllHonest and CopyIs of RpcCodecProofs.               *)
(***************************************************************************)
EXTENDS RpcCall, RpcCodecProofs

-----------------------------------------------------------------------------
(***************************************************************************)
(* The limits of the parser.                                               *)
(***************************************************************************)

\* The parser is not past its limit, nor is a limit beyond that of the
\* message around it: when an inner one is left, the outer is within its own.
LimitsNested ==
    /\ used <= Limit
    /\ \A i \in 1..Len(limits) - 1: limits[i + 1] <= limits[i]

\* The inductive invariant of the parser by itself.
LimitsInv == ParserTypeOK /\ LimitsNested

\* What ParserTypeOK says of the frames.
LEMMA FramesTyped ==
    ParserTypeOK => /\ Len(frames) \in Nat \ {0} /\ DOMAIN frames = 1..Len(frames)
                    /\ frames \in Seq(Elements(frames)) /\ Len(frames) > 0
                    /\ \A i \in DOMAIN frames: DOMAIN frames[i] = {"type", "msg", "into"}
BY DEF ParserTypeOK, Elements

\* Frames before and after the innermost message becomes another.
Filled(s, x) == [s EXCEPT ![Len(s)].msg = x]

\* The frames, when the message of the last is another.
LEMMA ExceptKeepsSequence ==
    ASSUME NEW s, s \in Seq(Elements(s)), Len(s) > 0, NEW x,
           \A i \in DOMAIN s: DOMAIN s[i] = {"type", "msg", "into"},
           NEW t, t = Filled(s, x)
    PROVE  /\ t \in Seq(Elements(t)) /\ Len(t) = Len(s) /\ DOMAIN t = DOMAIN s
           /\ \A i \in DOMAIN t: /\ DOMAIN t[i] = {"type", "msg", "into"}
                                 /\ t[i].type = s[i].type /\ t[i].into = s[i].into
                                 /\ t[i].msg = IF i = Len(s) THEN x ELSE s[i].msg
<1> DEFINE y == [s[Len(s)] EXCEPT !.msg = x]
           S == Elements(s) \cup {y}
<1>1. s \in Seq(S) /\ y \in S /\ Len(s) \in DOMAIN s /\ t = [s EXCEPT ![Len(s)] = y]
  BY DEF Filled
<1>2. /\ DOMAIN y = {"type", "msg", "into"} /\ y.msg = x
      /\ y.type = s[Len(s)].type /\ y.into = s[Len(s)].into
  BY <1>1
<1> HIDE DEF S, y
<1>3. /\ t \in Seq(S) /\ Len(t) = Len(s) /\ DOMAIN t = DOMAIN s
      /\ \A i \in DOMAIN t: t[i] = IF i = Len(s) THEN y ELSE s[i]
  BY <1>1
<1>4. t \in Seq(Elements(t))
  BY <1>3, OverElements
<1>5. \A i \in DOMAIN t: /\ DOMAIN t[i] = {"type", "msg", "into"}
                         /\ t[i].type = s[i].type /\ t[i].into = s[i].into
                         /\ t[i].msg = IF i = Len(s) THEN x ELSE s[i].msg
  BY <1>2, <1>3
<1>6. QED
  BY <1>3, <1>4, <1>5

\* The frames without the last.
LEMMA FrontKeepsSequence ==
    ASSUME NEW s, s \in Seq(Elements(s)), Len(s) > 1, NEW t, t = SubSeq(s, 1, Len(s) - 1)
    PROVE  /\ t \in Seq(Elements(t)) /\ Len(t) = Len(s) - 1 /\ Len(s) \in Nat
           /\ DOMAIN t = 1..Len(s) - 1 /\ \A i \in 1..Len(s) - 1: t[i] = s[i]
<1> DEFINE S == Elements(s)
<1> HIDE DEF S
<1>1. s \in Seq(S)
  BY DEF S
<1>2. /\ t \in Seq(S) /\ Len(t) = Len(s) - 1 /\ Len(s) \in Nat
      /\ DOMAIN t = 1..Len(s) - 1 /\ \A i \in 1..Len(s) - 1: t[i] = s[i]
  BY <1>1
<1>3. QED
  BY <1>2, OverElements

\* Where tokens come, the bytes that they take end before the limit.
LEMMA PassedBytes ==
    ASSUME ParserTypeOK, NEW n \in 1..3, NEW kinds, Len(kinds) = n, Upcoming(kinds)
    PROVE  /\ at + n \in Nat \ {0} /\ used + Extent(n) \in Nat
           /\ used <= used + Extent(n) /\ used + Extent(n) <= Limit
           /\ \A i \in 0..n - 1: wire[at + i] \in Tokens
<1>1. at \in Nat \ {0} /\ used \in Nat /\ wire \in Seq(Tokens) /\ Limit \in Nat
  BY DEF ParserTypeOK, Limit
<1>2. at + n - 1 <= Len(wire)
  BY DEF Upcoming
<1>3. \A i \in 0..n - 1: wire[at + i] \in Tokens
  BY <1>1, <1>2
<1>4. \A i \in 0..n - 1: wire[at + i].width \in Nat
  BY <1>3 DEF Tokens
<1>5. Extent(n) \in Nat
  <2>1. wire[at].width \in Nat
    BY <1>1, <1>4
  <2>2. n > 1 => wire[at + 1].width \in Nat
    BY <1>4
  <2>3. n > 2 => wire[at + 2].width \in Nat
    BY <1>4
  <2>4. QED
    BY <2>1, <2>2, <2>3 DEF Extent, Next1, Next2
<1>6. used + Extent(n) <= Limit
  BY DEF Upcoming
<1>7. QED
  BY <1>1, <1>3, <1>5, <1>6

\* A step that passes tokens and changes neither the limits nor the number of
\* messages.
LEMMA StepPasses ==
    ASSUME LimitsInv, NEW n \in 1..3, NEW kinds, Len(kinds) = n, Upcoming(kinds), Pass(n),
           frames' \in Seq(Elements(frames')), Len(frames') = Len(frames),
           \A i \in DOMAIN frames': DOMAIN frames'[i] = {"type", "msg", "into"},
           wire' = wire, limits' = limits,
           outcome' \in {"parsing", "parsed", "failed"}
    PROVE  LimitsInv'
<1>1. ParserTypeOK
  BY DEF LimitsInv
<1>2. at' \in Nat \ {0} /\ used' \in Nat /\ used' <= Limit
  BY <1>1, PassedBytes DEF Pass
<1>3. ParserTypeOK'
  BY <1>1, <1>2 DEF Elements, ParserTypeOK
<1>4. QED
  BY <1>2, <1>3 DEF LimitsInv, LimitsNested, Limit

\* The parser begins with one message, whose limit is all that there is.
LEMMA BeginsLimits ==
    ASSUME NEW type, NEW tokens \in Seq(Tokens), NEW n \in Nat, Begins(type, tokens, n)
    PROVE  LimitsInv
<1> DEFINE first == Frame(type, New(type), Held("", type))
<1>1. frames = <<first>> /\ limits = <<n>> /\ used = 0 /\ at = 1
  BY DEF Begins
<1>2. DOMAIN first = {"type", "msg", "into"}
  BY DEF Frame
<1> HIDE DEF first
<1>3. /\ frames \in Seq({first}) /\ Len(frames) = 1 /\ limits \in Seq(Nat) /\ Len(limits) = 1
      /\ \A i \in DOMAIN frames: frames[i] = first
  BY <1>1
<1>4. frames \in Seq(Elements(frames))
  BY <1>3, OverElements
<1>5. ParserTypeOK
  <2>1. frames \in Seq({frames[i]: i \in DOMAIN frames})
    BY <1>4 DEF Elements
  <2>2. wire \in Seq(Tokens) /\ outcome = "parsing"
    BY DEF Begins
  <2>3. \A i \in DOMAIN frames: DOMAIN frames[i] = {"type", "msg", "into"}
    BY <1>2, <1>3
  <2>4. QED
    BY <1>1, <1>3, <2>1, <2>2, <2>3 DEF ParserTypeOK
<1>6. LimitsNested
  BY <1>1 DEF LimitsNested, Limit
<1>7. QED
  BY <1>5, <1>6 DEF LimitsInv

\* A parse begins with the invariant, and each of its steps keeps it.
LEMMA BeginLimits ==
    ASSUME NEW type, NEW tokens \in Seq(Tokens), NEW n \in Nat, Begin(type, tokens, n)
    PROVE  LimitsInv'
<1> DEFINE first == Frame(type, New(type), Held("", type))
<1>1. frames' = <<first>> /\ limits' = <<n>> /\ used' = 0 /\ at' = 1
  BY DEF Begin
<1>2. DOMAIN first = {"type", "msg", "into"}
  BY DEF Frame
<1> HIDE DEF first
<1>3. /\ frames' \in Seq({first}) /\ Len(frames') = 1 /\ limits' \in Seq(Nat) /\ Len(limits') = 1
      /\ \A i \in DOMAIN frames': frames'[i] = first
  BY <1>1
<1>4. frames' \in Seq(Elements(frames'))
  BY <1>3, OverElements
<1>5. ParserTypeOK'
  <2>1. (frames \in Seq({frames[i]: i \in DOMAIN frames}))'
    BY <1>4 DEF Elements
  <2>2. wire' \in Seq(Tokens) /\ outcome' = "parsing"
    BY DEF Begin
  <2>3. \A i \in DOMAIN frames': DOMAIN frames'[i] = {"type", "msg", "into"}
    BY <1>2, <1>3
  <2>4. QED
    BY <1>1, <1>3, <2>1, <2>2, <2>3 DEF ParserTypeOK
<1>6. LimitsNested'
  BY <1>1 DEF LimitsNested, Limit
<1>7. QED
  BY <1>5, <1>6 DEF LimitsInv

\* What Fill does to the frames.
LEMMA FilledFrames ==
    ASSUME ParserTypeOK, NEW v, Fill(v)
    PROVE  /\ frames' \in Seq(Elements(frames')) /\ Len(frames') = Len(frames)
           /\ DOMAIN frames' = DOMAIN frames
           /\ \A i \in DOMAIN frames': /\ DOMAIN frames'[i] = {"type", "msg", "into"}
                                       /\ frames'[i].type = frames[i].type
                                       /\ frames'[i].into = frames[i].into
                                       /\ frames'[i].msg = IF i = Len(frames)
                                                           THEN Store(Top.msg, Field, v)
                                                           ELSE frames[i].msg
<1>1. PICK x: x = Store(Top.msg, Field, v)
  OBVIOUS
<1>2. frames' = [frames EXCEPT ![Len(frames)].msg = x]
  BY <1>1 DEF Fill
<1>3. PICK t: t = frames'
  OBVIOUS
<1>4. /\ t \in Seq(Elements(t)) /\ Len(t) = Len(frames) /\ DOMAIN t = DOMAIN frames
      /\ \A i \in DOMAIN t: /\ DOMAIN t[i] = {"type", "msg", "into"}
                            /\ t[i].type = frames[i].type /\ t[i].into = frames[i].into
                            /\ t[i].msg = IF i = Len(frames) THEN x ELSE frames[i].msg
  <2>1. /\ frames \in Seq(Elements(frames)) /\ Len(frames) > 0
        /\ \A i \in DOMAIN frames: DOMAIN frames[i] = {"type", "msg", "into"}
    BY FramesTyped
  <2>2. t = Filled(frames, x)
    BY <1>2, <1>3 DEF Filled
  <2>3. QED
    BY <2>1, <2>2, ExceptKeepsSequence
<1>5. QED
  BY <1>1, <1>3, <1>4

\* A scalar is read: some bytes pass.
LEMMA ReadPrimitiveKeepsLimits ==
    ASSUME LimitsInv, ReadPrimitive
    PROVE  LimitsInv'
<1>1. /\ frames' \in Seq(Elements(frames')) /\ Len(frames') = Len(frames)
      /\ \A i \in DOMAIN frames': DOMAIN frames'[i] = {"type", "msg", "into"}
  BY FilledFrames DEF LimitsInv, ReadPrimitive
<1>2. Upcoming(<<"tag", "number">>) /\ Len(<<"tag", "number">>) = 2 /\ Pass(2)
  BY DEF ReadPrimitive, NumberComes
<1>3. outcome' \in {"parsing", "parsed", "failed"} /\ wire' = wire /\ limits' = limits
  BY DEF ReadPrimitive
<1>4. QED
  BY <1>1, <1>2, <1>3, StepPasses

\* A text is read: its length and its bytes pass, and the limit is pushed and popped.
LEMMA ReadTextKeepsLimits ==
    ASSUME LimitsInv, ReadText
    PROVE  LimitsInv'
<1>1. /\ frames' \in Seq(Elements(frames')) /\ Len(frames') = Len(frames)
      /\ \A i \in DOMAIN frames': DOMAIN frames'[i] = {"type", "msg", "into"}
  <2>1. CASE frames' = frames
    BY <2>1, FramesTyped DEF LimitsInv
  <2>2. CASE Fill(Next2.text)
    BY <2>2, FilledFrames DEF LimitsInv
  <2>3. QED
    BY <2>1, <2>2 DEF ReadText
<1>2. /\ Upcoming(<<"tag", "length", "text">>) /\ Len(<<"tag", "length", "text">>) = 3
      /\ Pass(3)
  BY DEF ReadText, TextComes
<1>3. outcome' \in {"parsing", "parsed", "failed"} /\ wire' = wire /\ limits' = limits
  BY DEF ReadText
<1>4. QED
  BY <1>1, <1>2, <1>3, StepPasses

\* Frames before and after a message is entered.
LEMMA EnteredFrames ==
    ASSUME ParserTypeOK, EnterMessage
    PROVE  LET n == Len(frames) + 1
               new == Frame(Field.of, Opened(Top.msg, Field), Field)
           IN  /\ frames' \in Seq(Elements(frames')) /\ Len(frames') = n /\ frames'[n] = new
               /\ \A i \in 1..Len(frames): frames'[i] = frames[i]
               /\ \A i \in DOMAIN frames': DOMAIN frames'[i] = {"type", "msg", "into"}
<1>1. PICK new: new = Frame(Field.of, Opened(Top.msg, Field), Field)
  OBVIOUS
<1>2. DOMAIN new = {"type", "msg", "into"}
  BY <1>1 DEF Frame
<1>3. frames' = Append(frames, new)
  BY <1>1 DEF EnterMessage
<1>4. PICK n: n = Len(frames) + 1
  OBVIOUS
<1>5. /\ frames' \in Seq(Elements(frames')) /\ Len(frames') = n /\ frames'[n] = new
      /\ \A i \in 1..Len(frames): frames'[i] = frames[i]
  BY <1>3, <1>4, FramesTyped, AppendKeepsSequence
<1>6. \A i \in DOMAIN frames': DOMAIN frames'[i] = {"type", "msg", "into"}
  <2>1. \A i \in DOMAIN frames': i = n \/ i \in 1..Len(frames)
    BY <1>4, <1>5, FramesTyped
  <2>2. QED
    BY <1>2, <1>5, <2>1, FramesTyped
<1>7. QED
  BY <1>1, <1>4, <1>5, <1>6

\* A message within the message begins: its limit goes on the others.
LEMMA EnterMessageKeepsLimits ==
    ASSUME LimitsInv, EnterMessage
    PROVE  LimitsInv'
<1> DEFINE limit == PushLimit(Limit, used + Extent(2), Next1.value)
<1>1. frames \in Seq(Elements(frames)) /\ limits \in Seq(Nat) /\ Len(limits) = Len(frames)
      /\ Len(frames) > 0 /\ ParserTypeOK
  BY DEF LimitsInv, ParserTypeOK, Elements
<1>2. /\ frames' \in Seq(Elements(frames')) /\ Len(frames') = Len(frames) + 1
      /\ \A i \in DOMAIN frames': DOMAIN frames'[i] = {"type", "msg", "into"}
  BY <1>1, EnteredFrames
<1>3. Upcoming(<<"tag", "length">>) /\ Len(<<"tag", "length">>) = 2 /\ Pass(2)
  BY DEF EnterMessage, LengthComes
<1>4. /\ at' \in Nat \ {0} /\ used' \in Nat /\ used' = used + Extent(2) /\ used' <= Limit
      /\ Next1 \in Tokens /\ Next1.is = "length"
  <2>1. Next1 = wire[at + 1] /\ 1 \in 0..2 - 1
    BY DEF Next1
  <2>2. wire[at + 2 - 1].is = "length" /\ at \in Nat
    BY <1>1, <1>3 DEF Upcoming, ParserTypeOK
  <2>3. QED
    BY <1>1, <1>3, <2>1, <2>2, PassedBytes DEF Pass
<1>5. Next1.value \in Nat /\ Limit \in Nat
  BY <1>1, <1>4 DEF Tokens, Limit
<1>6. limit \in Nat /\ used' <= limit /\ limit <= Limit
  BY <1>4, <1>5 DEF PushLimit
<1>7. limits' = Append(limits, limit)
  BY DEF EnterMessage
<1> HIDE DEF limit
<1>8. /\ limits' \in Seq(Nat) /\ Len(limits') = Len(frames') /\ Limit' = limit
      /\ \A i \in 1..Len(limits') - 1: limits'[i + 1] <= limits'[i]
  <2>1. /\ limits' \in Seq(Nat) /\ Len(limits) \in Nat \ {0} /\ Len(limits') = Len(limits) + 1
        /\ limits'[Len(limits) + 1] = limit /\ \A i \in 1..Len(limits): limits'[i] = limits[i]
    BY <1>1, <1>6, <1>7
  <2>2. Limit' = limit /\ Limit = limits[Len(limits)] /\ Len(limits') = Len(frames')
    BY <1>1, <1>2, <2>1 DEF Limit
  <2>3. \A i \in 1..Len(limits) - 1: limits[i + 1] <= limits[i]
    BY DEF LimitsInv, LimitsNested
  <2>4. ASSUME NEW i \in 1..Len(limits') - 1
        PROVE  limits'[i + 1] <= limits'[i]
    <3>1. CASE i = Len(limits)
      BY <1>6, <2>1, <2>2, <3>1
    <3>2. CASE i \in 1..Len(limits) - 1
      <4>1. i \in 1..Len(limits) /\ i + 1 \in 1..Len(limits)
        BY <2>1, <3>2
      <4>2. QED
        BY <2>1, <2>3, <3>2, <4>1
    <3>3. QED
      BY <2>1, <3>1, <3>2
  <2>5. QED
    BY <2>1, <2>2, <2>4
<1>9. ParserTypeOK'
  <2>1. (frames \in Seq({frames[i]: i \in DOMAIN frames}))'
    BY <1>2 DEF Elements
  <2>2. wire' \in Seq(Tokens) /\ outcome' \in {"parsing", "parsed", "failed"}
    BY <1>1 DEF EnterMessage, ParserTypeOK
  <2>3. Len(frames') > 0
    BY <1>1, <1>2
  <2>4. QED
    BY <1>2, <1>4, <1>8, <2>1, <2>2, <2>3 DEF ParserTypeOK
<1>10. LimitsNested'
  BY <1>6, <1>8 DEF LimitsNested
<1>11. QED
  BY <1>9, <1>10 DEF LimitsInv

\* Frames before and after a message is left.
LEMMA LeftFrames ==
    ASSUME ParserTypeOK, LeaveMessage
    PROVE  LET n == Len(frames) - 1
           IN  /\ n \in Nat \ {0}
               /\ frames' \in Seq(Elements(frames')) /\ Len(frames') = n /\ DOMAIN frames' = 1..n
               /\ \A i \in 1..n: /\ DOMAIN frames'[i] = {"type", "msg", "into"}
                                 /\ frames'[i].type = frames[i].type
                                 /\ frames'[i].into = frames[i].into
                                 /\ frames'[i].msg = IF i = n
                                                     THEN Store(frames[i].msg, Top.into, Top.msg)
                                                     ELSE frames[i].msg
<1>1. PICK outer: outer = SubSeq(frames, 1, Len(frames) - 1)
  OBVIOUS
<1>2. PICK n: n = Len(frames) - 1
  OBVIOUS
<1>3. /\ outer \in Seq(Elements(outer)) /\ Len(outer) = n /\ n \in Nat \ {0}
      /\ DOMAIN outer = 1..n /\ \A i \in 1..n: outer[i] = frames[i]
  <2>1. Len(frames) > 1 /\ Len(frames) \in Nat
    BY FramesTyped DEF LeaveMessage
  <2>2. frames \in Seq(Elements(frames))
    BY FramesTyped
  <2>3. /\ outer \in Seq(Elements(outer)) /\ Len(outer) = Len(frames) - 1
        /\ DOMAIN outer = 1..Len(frames) - 1 /\ \A i \in 1..Len(frames) - 1: outer[i] = frames[i]
    BY <1>1, <2>1, <2>2, FrontKeepsSequence
  <2>4. QED
    BY <1>2, <2>1, <2>3
<1>4. PICK msg: msg = Store(outer[n].msg, Top.into, Top.msg)
  OBVIOUS
<1>5. frames' = [outer EXCEPT ![Len(outer)].msg = msg]
  <2>1. frames' = [outer EXCEPT ![Len(outer)].msg =
                                   Store(outer[Len(outer)].msg, Top.into, Top.msg)]
    BY <1>1 DEF LeaveMessage
  <2>2. QED
    BY <1>3, <1>4, <2>1
<1>6. \A i \in DOMAIN outer: DOMAIN outer[i] = {"type", "msg", "into"}
  BY <1>2, <1>3, FramesTyped
<1>7. PICK t: t = frames'
  OBVIOUS
<1>8. /\ t \in Seq(Elements(t)) /\ Len(t) = Len(outer) /\ DOMAIN t = DOMAIN outer
      /\ \A i \in DOMAIN t: /\ DOMAIN t[i] = {"type", "msg", "into"}
                            /\ t[i].type = outer[i].type /\ t[i].into = outer[i].into
                            /\ t[i].msg = IF i = Len(outer) THEN msg ELSE outer[i].msg
  <2>1. outer \in Seq(Elements(outer)) /\ Len(outer) > 0 /\ t = Filled(outer, msg)
    BY <1>3, <1>5, <1>7 DEF Filled
  <2>2. QED
    BY <1>6, <2>1, ExceptKeepsSequence
<1>9. frames' \in Seq(Elements(frames')) /\ Len(frames') = n /\ DOMAIN frames' = 1..n
  BY <1>3, <1>7, <1>8
<1>10. ASSUME NEW i \in 1..n
       PROVE  /\ DOMAIN frames'[i] = {"type", "msg", "into"}
              /\ frames'[i].type = frames[i].type /\ frames'[i].into = frames[i].into
              /\ frames'[i].msg = IF i = n THEN Store(frames[i].msg, Top.into, Top.msg)
                                  ELSE frames[i].msg
  <2>1. i \in DOMAIN t /\ outer[i] = frames[i] /\ Len(outer) = n
    BY <1>3, <1>8
  <2>2. QED
    BY <1>4, <1>7, <1>8, <2>1
<1>11. QED
  BY <1>2, <1>3, <1>9, <1>10

\* It ends: its limit is taken off, or it did not end where it should, and the parse fails.
LEMMA LeaveMessageKeepsLimits ==
    ASSUME LimitsInv, LeaveMessage
    PROVE  LimitsInv'
<1>1. frames \in Seq(Elements(frames)) /\ limits \in Seq(Nat) /\ Len(limits) = Len(frames)
      /\ Len(frames) > 1 /\ used <= Limit /\ ParserTypeOK
  BY DEF LeaveMessage, LimitsInv, ParserTypeOK, LimitsNested, Elements
<1>2. /\ frames' \in Seq(Elements(frames')) /\ Len(frames') = Len(frames) - 1
      /\ \A i \in DOMAIN frames': DOMAIN frames'[i] = {"type", "msg", "into"}
  BY <1>1, LeftFrames
<1>3. limits' = SubSeq(limits, 1, Len(limits) - 1)
  BY DEF LeaveMessage
<1>4. /\ limits' \in Seq(Nat) /\ Len(limits') = Len(limits) - 1
      /\ \A i \in 1..Len(limits'): limits'[i] = limits[i]
  BY <1>1, <1>3
<1>5. \A i \in 1..Len(limits) - 1: limits[i + 1] <= limits[i]
  BY DEF LimitsInv, LimitsNested
<1>6. Limit' = limits[Len(limits) - 1] /\ Limit <= limits[Len(limits) - 1]
  <2>1. Len(limits) - 1 \in 1..Len(limits') /\ Len(limits) - 1 \in 1..Len(limits) - 1
    BY <1>1, <1>4
  <2>2. limits'[Len(limits')] = limits[Len(limits) - 1]
    BY <1>4, <2>1
  <2>3. limits[(Len(limits) - 1) + 1] <= limits[Len(limits) - 1]
    BY <1>5, <2>1
  <2>4. QED
    BY <1>1, <2>2, <2>3 DEF Limit
<1>7. used' = used /\ used \in Nat /\ used' <= Limit'
  <2>1. used' = used /\ used \in Nat
    BY DEF LeaveMessage, LimitsInv, ParserTypeOK
  <2>2. Len(limits) \in 1..Len(limits) /\ Len(limits) - 1 \in 1..Len(limits)
    BY <1>1
  <2>3. Limit \in Nat /\ limits[Len(limits) - 1] \in Nat
    BY <1>1, <2>2 DEF Limit
  <2>4. QED
    BY <1>1, <1>6, <2>1, <2>3
<1>8. \A i \in 1..Len(limits') - 1: limits'[i + 1] <= limits'[i]
  <2> SUFFICES ASSUME NEW i \in 1..Len(limits') - 1
               PROVE  limits'[i + 1] <= limits'[i]
    OBVIOUS
  <2>1. i \in 1..Len(limits') /\ i + 1 \in 1..Len(limits') /\ i \in 1..Len(limits) - 1
    BY <1>1, <1>4
  <2>2. QED
    BY <1>4, <1>5, <2>1
<1>9. ParserTypeOK'
  <2>1. (frames \in Seq({frames[i]: i \in DOMAIN frames}))'
    BY <1>2 DEF Elements
  <2>2. /\ wire' \in Seq(Tokens) /\ outcome' \in {"parsing", "parsed", "failed"}
        /\ at' \in Nat \ {0}
    BY DEF LeaveMessage, LimitsInv, ParserTypeOK
  <2>3. Len(frames') > 0 /\ Len(limits') = Len(frames')
    BY <1>1, <1>2, <1>4
  <2>4. QED
    BY <1>2, <1>4, <1>7, <2>1, <2>2, <2>3 DEF ParserTypeOK
<1>10. QED
  BY <1>7, <1>8, <1>9 DEF LimitsInv, LimitsNested

\* A field that is unknown is skipped, or the bytes end within it.
LEMMA SkipFieldKeepsLimits ==
    ASSUME LimitsInv, SkipField
    PROVE  LimitsInv'
<1>1. /\ frames' \in Seq(Elements(frames')) /\ Len(frames') = Len(frames)
      /\ \A i \in DOMAIN frames': DOMAIN frames'[i] = {"type", "msg", "into"}
      /\ outcome' \in {"parsing", "parsed", "failed"} /\ wire' = wire /\ limits' = limits
  BY DEF SkipField, LimitsInv, ParserTypeOK, Elements
<1>2. CASE NumberComes /\ Pass(2)
  BY <1>1, <1>2, StepPasses DEF NumberComes
<1>3. CASE TextComes /\ Pass(3)
  BY <1>1, <1>3, StepPasses DEF TextComes
<1>4. QED
  BY <1>2, <1>3 DEF SkipField

\* An end of group stops the parse.
LEMMA StopAtEndGroupKeepsLimits ==
    ASSUME LimitsInv, StopAtEndGroup
    PROVE  LimitsInv'
<1>1. /\ frames' \in Seq(Elements(frames')) /\ Len(frames') = Len(frames)
      /\ \A i \in DOMAIN frames': DOMAIN frames'[i] = {"type", "msg", "into"}
      /\ outcome' \in {"parsing", "parsed", "failed"} /\ wire' = wire /\ limits' = limits
  BY DEF StopAtEndGroup, LimitsInv, ParserTypeOK, Elements
<1>2. QED
  BY <1>1, StepPasses DEF StopAtEndGroup, GroupEnds

\* The parse fails, or succeeds, or nothing happens.
LEMMA EndsKeepLimits ==
    ASSUME LimitsInv, ReadFails \/ Succeed \/ UNCHANGED parserVars
    PROVE  LimitsInv'
BY DEF ReadFails, Succeed, parserVars, LimitsInv, ParserTypeOK, LimitsNested, Limit

\* Every step keeps the invariant.
LEMMA StepKeepsLimits == LimitsInv /\ [ParserStep]_parserVars => LimitsInv'
BY ReadPrimitiveKeepsLimits, ReadTextKeepsLimits, EnterMessageKeepsLimits,
   LeaveMessageKeepsLimits, SkipFieldKeepsLimits, StopAtEndGroupKeepsLimits, EndsKeepLimits
   DEF ParserStep

-----------------------------------------------------------------------------
(***************************************************************************)
(* The frames of the parser.                                               *)
(***************************************************************************)

\* What is parsed is of its class, and goes into a field that may hold it.
FramesOK ==
    /\ \A i \in DOMAIN frames: /\ frames[i].type \in Types \cup EntryTypes
                              /\ IsMessage(frames[i].type, frames[i].msg)
    /\ \A i \in 2..Len(frames): /\ frames[i].into \in {r[2]: r \in ReadsOf(frames[i - 1].type)}
                                /\ frames[i].into.of = frames[i].type

\* What a class reads are its fields.
LEMMA ReadsAreOf ==
    \A type \in TypeNames: \A e \in {r[2]: r \in ReadsOf(type)}: IsOf(e, type)
BY TypesFit DEF TypeFits

\* The field that is read is one of the message that is parsed.
LEMMA TopIs ==
    ASSUME ParserTypeOK, FramesOK
    PROVE  /\ Top = frames[Len(frames)] /\ Len(frames) \in DOMAIN frames
           /\ Top.type \in TypeNames /\ IsMessage(Top.type, Top.msg)
           /\ IsKnown => /\ Field \in {r[2]: r \in ReadsOf(Top.type)}
                         /\ IsOf(Field, Top.type)
<1>1. Top = frames[Len(frames)] /\ Len(frames) \in DOMAIN frames
  BY FramesTyped DEF Top
<1>2. Top.type \in TypeNames /\ IsMessage(Top.type, Top.msg)
  BY <1>1, TypesAre DEF FramesOK
<1>3. IsKnown => Field \in {r[2]: r \in ReadsOf(Top.type)}
  <2>1. PICK reads: reads = ReadsOf(Top.type)
    OBVIOUS
  <2>2. \A tag: (\E r \in reads: r[1] = tag) => (CHOOSE r \in reads: r[1] = tag) \in reads
    OBVIOUS
  <2>3. IsKnown => (CHOOSE r \in reads: r[1] = Tag) \in reads
    BY <2>1, <2>2 DEF IsKnown
  <2>4. Field = (CHOOSE r \in reads: r[1] = Tag)[2]
    BY <2>1 DEF Field
  <2>5. QED
    BY <2>1, <2>3, <2>4
<1>4. QED
  BY <1>1, <1>2, <1>3, ReadsAreOf

\* A value of its field goes into the last frame.
LEMMA FillKeepsFrames ==
    ASSUME ParserTypeOK, FramesOK, IsKnown, NEW v, Typed(Field.of, v), Fill(v)
    PROVE  FramesOK'
<1>1. /\ Len(frames') = Len(frames) /\ DOMAIN frames' = DOMAIN frames
      /\ \A i \in DOMAIN frames': /\ frames'[i].type = frames[i].type
                                  /\ frames'[i].into = frames[i].into
                                  /\ frames'[i].msg = IF i = Len(frames)
                                                      THEN Store(Top.msg, Field, v)
                                                      ELSE frames[i].msg
  BY FilledFrames
<1>2. IsMessage(Top.type, Store(Top.msg, Field, v))
  <2>1. PICK type, m, e: type \in TypeNames /\ type = Top.type /\ m = Top.msg /\ e = Field
    BY TopIs
  <2>2. type \in TypeNames /\ IsMessage(type, m) /\ IsOf(e, type) /\ Typed(e.of, v)
    BY <2>1, TopIs
  <2>3. IsMessage(type, Store(m, e, v))
    BY <2>2, StoreKeepsMessage
  <2>4. QED
    BY <2>1, <2>3
<1>3. \A i \in DOMAIN frames': /\ frames'[i].type \in Types \cup EntryTypes
                               /\ IsMessage(frames'[i].type, frames'[i].msg)
  BY <1>1, <1>2, TopIs DEF FramesOK
<1>4. \A i \in 2..Len(frames'):
          /\ frames'[i].into \in {r[2]: r \in ReadsOf(frames'[i - 1].type)}
          /\ frames'[i].into.of = frames'[i].type
  <2>1. \A i \in 2..Len(frames): i \in DOMAIN frames /\ i - 1 \in DOMAIN frames
    BY FramesTyped
  <2>2. QED
    BY <1>1, <2>1 DEF FramesOK
<1>5. QED
  BY <1>3, <1>4 DEF FramesOK

\* Each step that fills, enters or leaves a message keeps the frames so.
LEMMA ReadPrimitiveKeepsFrames ==
    ASSUME LimitsInv, FramesOK, ReadPrimitive
    PROVE  FramesOK'
<1>1. ParserTypeOK /\ IsKnown /\ Fill(Decode(Field.of, Next1.value))
  BY DEF LimitsInv, ReadPrimitive
<1>2. Next1.value \in Int
  <2>1. Upcoming(<<"tag", "number">>) /\ Len(<<"tag", "number">>) = 2
    BY DEF ReadPrimitive, NumberComes
  <2>2. wire[at + 1] \in Tokens
    BY <1>1, <2>1, PassedBytes
  <2>3. QED
    BY <2>2 DEF Next1, Tokens
<1>3. Field.of \in Kinds \ TextKinds
  BY DEF ReadPrimitive
<1>4. PICK kind, n, v: kind = Field.of /\ n = Next1.value /\ v = Decode(Field.of, Next1.value)
  OBVIOUS
<1>5. Typed(kind, v)
  BY <1>2, <1>3, <1>4, DecodeIs
<1>6. QED
  BY <1>1, <1>4, <1>5, FillKeepsFrames

LEMMA ReadTextKeepsFrames ==
    ASSUME LimitsInv, FramesOK, ReadText
    PROVE  FramesOK'
<1>1. ParserTypeOK /\ IsKnown /\ Field.of \in TextKinds
  BY DEF LimitsInv, ReadText
<1>2. CASE frames' = frames
  BY <1>2 DEF FramesOK
<1>3. CASE Fill(Next2.text)
  <2>1. Upcoming(<<"tag", "length", "text">>) /\ Len(<<"tag", "length", "text">>) = 3
    BY DEF ReadText, TextComes
  <2>2. wire[at + 2] \in Tokens
    BY <1>1, <2>1, PassedBytes
  <2>3. PICK v: v = Next2.text
    OBVIOUS
  <2>4. v \in DOMAIN TextLength
    BY <2>2, <2>3 DEF Next2, Tokens
  <2>5. Typed("text", v)
    BY <2>4 DEF Typed, IsScalar, Kinds, TextKinds
  <2>6. Typed(Field.of, v)
    <3>1. PICK of: of = Field.of
      OBVIOUS
    <3>2. of \in TextKinds /\ "text" \in TextKinds
      BY <1>1, <3>1 DEF TextKinds
    <3>3. Typed(of, v)
      BY <2>5, <3>2, KindsAlike
    <3>4. QED
      BY <3>1, <3>3
  <2>7. QED
    BY <1>1, <1>3, <2>3, <2>6, FillKeepsFrames
<1>4. QED
  BY <1>2, <1>3 DEF ReadText

LEMMA EnterMessageKeepsFrames ==
    ASSUME LimitsInv, FramesOK, EnterMessage
    PROVE  FramesOK'
<1>1. ParserTypeOK /\ IsKnown /\ Field.of \notin Kinds
  BY DEF LimitsInv, EnterMessage
<1>2. PICK n: n = Len(frames) + 1
  OBVIOUS
<1>3. /\ frames' \in Seq(Elements(frames')) /\ Len(frames') = n
      /\ frames'[n] = Frame(Field.of, Opened(Top.msg, Field), Field)
      /\ \A i \in 1..Len(frames): frames'[i] = frames[i]
  BY <1>1, <1>2, EnteredFrames
<1>4. /\ Len(frames) \in Nat \ {0} /\ DOMAIN frames = 1..Len(frames)
      /\ DOMAIN frames' = 1..n
  BY <1>1, <1>3, FramesTyped
<1>5. Field.of \in TypeNames /\ IsMessage(Field.of, Opened(Top.msg, Field))
  <2>1. PICK type, m, e: type \in TypeNames /\ type = Top.type /\ m = Top.msg /\ e = Field
    BY <1>1, TopIs
  <2>2. type \in TypeNames /\ IsMessage(type, m) /\ IsOf(e, type) /\ e.of \notin Kinds
    BY <1>1, <2>1, TopIs
  <2>3. e.of \in TypeNames /\ IsMessage(e.of, Opened(m, e))
    BY <2>2, OpenedIs
  <2>4. QED
    BY <2>1, <2>3
<1>6. /\ frames'[n].type = Field.of /\ frames'[n].msg = Opened(Top.msg, Field)
      /\ frames'[n].into = Field
  BY <1>3 DEF Frame
<1>7. ASSUME NEW i \in DOMAIN frames'
      PROVE  /\ frames'[i].type \in Types \cup EntryTypes
             /\ IsMessage(frames'[i].type, frames'[i].msg)
  <2>1. CASE i = n
    BY <1>5, <1>6, <2>1, TypesAre
  <2>2. CASE i \in DOMAIN frames
    BY <1>3, <1>4, <2>2 DEF FramesOK
  <2>3. QED
    BY <1>2, <1>4, <2>1, <2>2
<1>8. ASSUME NEW i \in 2..Len(frames')
      PROVE  /\ frames'[i].into \in {r[2]: r \in ReadsOf(frames'[i - 1].type)}
             /\ frames'[i].into.of = frames'[i].type
  <2>1. CASE i = n
    <3>1. frames'[n - 1] = Top /\ Field \in {r[2]: r \in ReadsOf(Top.type)}
      BY <1>1, <1>2, <1>3, <1>4, TopIs
    <3>2. QED
      BY <1>6, <2>1, <3>1
  <2>2. CASE i # n
    <3>1. i \in 2..Len(frames) /\ i \in 1..Len(frames) /\ i - 1 \in 1..Len(frames)
      BY <1>2, <1>3, <1>4, <2>2
    <3>2. QED
      BY <1>3, <3>1 DEF FramesOK
  <2>3. QED
    BY <2>1, <2>2
<1>9. QED
  BY <1>7, <1>8 DEF FramesOK

LEMMA LeaveMessageKeepsFrames ==
    ASSUME LimitsInv, FramesOK, LeaveMessage
    PROVE  FramesOK'
<1>1. ParserTypeOK
  BY DEF LimitsInv
<1>2. PICK n: n = Len(frames) - 1
  OBVIOUS
<1>3. /\ n \in Nat \ {0} /\ Len(frames') = n /\ DOMAIN frames' = 1..n
      /\ \A i \in 1..n: /\ frames'[i].type = frames[i].type
                        /\ frames'[i].into = frames[i].into
                        /\ frames'[i].msg = IF i = n
                                            THEN Store(frames[i].msg, Top.into, Top.msg)
                                            ELSE frames[i].msg
  BY <1>1, <1>2, LeftFrames
<1>4. n + 1 = Len(frames) /\ DOMAIN frames = 1..n + 1 /\ \A i \in 1..n: i \in DOMAIN frames
  BY <1>1, <1>2, <1>3, FramesTyped
<1>5. IsMessage(frames[n].type, Store(frames[n].msg, Top.into, Top.msg))
  <2>1. n \in DOMAIN frames /\ n + 1 \in 2..Len(frames) /\ n + 1 \in DOMAIN frames
    BY <1>3, <1>4
  <2>2. frames[n].type \in TypeNames /\ IsMessage(frames[n].type, frames[n].msg)
    BY <2>1, TypesAre DEF FramesOK
  <2>3. /\ Top.into \in {r[2]: r \in ReadsOf(frames[(n + 1) - 1].type)}
        /\ Top.into.of = Top.type /\ Top.type \in TypeNames /\ IsMessage(Top.type, Top.msg)
    BY <1>4, <2>1, TypesAre DEF FramesOK, Top
  <2>4. PICK type, m, e, v: /\ type \in TypeNames /\ type = frames[n].type
                            /\ m = frames[n].msg /\ e = Top.into /\ v = Top.msg
    BY <2>2
  <2>5. (n + 1) - 1 = n
    BY <1>3
  <2>6. type \in TypeNames /\ IsMessage(type, m) /\ IsOf(e, type)
    BY <2>2, <2>3, <2>4, <2>5, ReadsAreOf
  <2>7. Typed(e.of, v)
    BY <2>3, <2>4, TypesAre DEF Typed
  <2>8. IsMessage(type, Store(m, e, v))
    BY <2>6, <2>7, StoreKeepsMessage
  <2>9. QED
    BY <2>4, <2>8
<1>6. \A i \in DOMAIN frames': /\ frames'[i].type \in Types \cup EntryTypes
                               /\ IsMessage(frames'[i].type, frames'[i].msg)
  BY <1>3, <1>4, <1>5 DEF FramesOK
<1>7. \A i \in 2..Len(frames'):
          /\ frames'[i].into \in {r[2]: r \in ReadsOf(frames'[i - 1].type)}
          /\ frames'[i].into.of = frames'[i].type
  <2>1. \A i \in 2..n: i \in 1..n /\ i - 1 \in 1..n /\ i \in 2..Len(frames)
    BY <1>3, <1>4
  <2>2. QED
    BY <1>3, <2>1 DEF FramesOK
<1>8. QED
  BY <1>6, <1>7 DEF FramesOK

\* Every step of the parser keeps the frames so, and the first frame is so.
LEMMA StepKeepsFrames == LimitsInv /\ FramesOK /\ [ParserStep]_parserVars => FramesOK'
<1>1. ASSUME FramesOK, frames' = frames
      PROVE  FramesOK'
  BY <1>1 DEF FramesOK
<1>2. SkipField \/ StopAtEndGroup \/ ReadFails \/ Succeed \/ UNCHANGED parserVars
          => frames' = frames
  BY DEF SkipField, StopAtEndGroup, ReadFails, Succeed, parserVars
<1>3. QED
  BY <1>1, <1>2, ReadPrimitiveKeepsFrames, ReadTextKeepsFrames, EnterMessageKeepsFrames,
     LeaveMessageKeepsFrames DEF ParserStep

\* The one message that a parser begins with.
LEMMA BeginsFrames ==
    ASSUME NEW type \in Types, NEW tokens, NEW n, Begins(type, tokens, n)
    PROVE  FramesOK
<1>1. PICK first: first = Frame(type, New(type), Held("", type))
  OBVIOUS
<1>2. first.type \in Types /\ IsMessage(first.type, first.msg)
  BY <1>1, NewIs, TypesAre DEF Frame
<1>3. frames = <<first>>
  BY <1>1 DEF Begins
<1>4. Len(frames) = 1 /\ frames[1] = first /\ \A i \in DOMAIN frames: i = 1
  BY <1>3
<1>5. 2..1 = {}
  OBVIOUS
<1>6. QED
  BY <1>2, <1>4, <1>5 DEF FramesOK

\* The first frame is a new message of the class.
LEMMA BeginFrames ==
    ASSUME NEW type \in Types, NEW tokens, NEW n, Begin(type, tokens, n)
    PROVE  FramesOK'
<1>1. PICK first: first = Frame(type, New(type), Held("", type))
  OBVIOUS
<1>2. first.type \in Types /\ IsMessage(first.type, first.msg)
  BY <1>1, NewIs, TypesAre DEF Frame
<1>3. frames' = <<first>>
  BY <1>1 DEF Begin
<1>4. Len(frames') = 1 /\ frames'[1] = first /\ \A i \in DOMAIN frames': i = 1
  BY <1>3
<1>5. 2..1 = {}
  OBVIOUS
<1>6. QED
  BY <1>2, <1>4, <1>5 DEF FramesOK

-----------------------------------------------------------------------------
(***************************************************************************)
(* The call.                                                               *)
(***************************************************************************)

\* The call itself: what is asked may be, and so may what is answered.
AskedOK ==
    /\ asked.client \in Services /\ asked.server \in Services
    /\ asked.method \in DOMAIN Stubs[asked.client]
    /\ asked.parts \in Requests(Stub.request) /\ asked.stray \in Strays(asked.parts)

GivenOK == stage = "answering" => IsMessage(Stub.response, given)

StageOK == stage \in Final \cup {"calling", "called", "asking", "handling", "answering"}

\* The inductive invariant of a call: its type, and the limits of its parser.
CallInv == LimitsInv /\ FramesOK /\ StageOK /\ AskedOK /\ GivenOK

\* Of it the runs check CallOK.
LEMMA CallInvIs == CallInv <=> CallOK /\ LimitsNested
BY DEF CallInv, CallOK, LimitsInv, FramesOK, StageOK, AskedOK, GivenOK

\* What stubs and handlers name are classes.
LEMMA CollectorTypes ==
    /\ \A method \in DOMAIN CollectorStub:
          CollectorStub[method].request \in Types /\ CollectorStub[method].response \in Types
    /\ \A h \in CollectorService: h.request \in Types
BY DEF CollectorStub, CollectorService, Method, Handler, Types, Members

LEMMA ProcessorTypes ==
    /\ \A method \in DOMAIN ProcessorStub:
          ProcessorStub[method].request \in Types /\ ProcessorStub[method].response \in Types
    /\ \A h \in ProcessorService: h.request \in Types
BY DEF ProcessorStub, ProcessorService, Method, Handler, Types, Members

LEMMA PublisherTypes ==
    /\ \A method \in DOMAIN PublisherStub:
          PublisherStub[method].request \in Types /\ PublisherStub[method].response \in Types
    /\ \A h \in PublisherService: h.request \in Types
BY DEF PublisherStub, PublisherService, Method, Handler, Types, Members

LEMMA StreamCollectorTypes ==
    /\ \A method \in DOMAIN StreamCollectorStub:
          /\ StreamCollectorStub[method].request \in Types
          /\ StreamCollectorStub[method].response \in Types
    /\ \A h \in StreamCollectorService: h.request \in Types
BY DEF StreamCollectorStub, StreamCollectorService, Method, Handler, Types, Members

\* Every method of every service takes and gives messages of the classes.
LEMMA ServiceTypes ==
    \A s \in Services:
        /\ \A method \in DOMAIN Stubs[s]:
              Stubs[s][method].request \in Types /\ Stubs[s][method].response \in Types
        /\ \A h \in Registered[s]: h.request \in Types
<1>1. /\ Stubs["Collector"] = CollectorStub /\ Registered["Collector"] = CollectorService
      /\ Stubs["Processor"] = ProcessorStub /\ Registered["Processor"] = ProcessorService
      /\ Stubs["Publisher"] = PublisherStub /\ Registered["Publisher"] = PublisherService
      /\ Stubs["StreamCollector"] = StreamCollectorStub
      /\ Registered["StreamCollector"] = StreamCollectorService
  BY DEF Stubs, Registered
<1>2. QED
  BY <1>1, CollectorTypes, ProcessorTypes, PublisherTypes, StreamCollectorTypes DEF Services

\* A handler and a method of the same name agree on what is asked and answered.
Agree(stub, service, names) ==
    \A method \in DOMAIN stub: \A h \in service:
        names[stub[method].name] = names[h.name] =>
            stub[method].request = h.request /\ stub[method].response = h.response

\* The tables of each service agree.
LEMMA CollectorAgrees == Agree(CollectorStub, CollectorService, Collector_method_names)
BY DEF Agree, CollectorStub, CollectorService, Collector_method_names, Method, Handler

LEMMA ProcessorAgrees == Agree(ProcessorStub, ProcessorService, Processor_method_names)
BY DEF Agree, ProcessorStub, ProcessorService, Processor_method_names, Method, Handler

LEMMA PublisherAgrees == Agree(PublisherStub, PublisherService, Publisher_method_names)
BY DEF Agree, PublisherStub, PublisherService, Publisher_method_names, Method, Handler

LEMMA StreamCollectorAgrees ==
    Agree(StreamCollectorStub, StreamCollectorService, StreamCollector_method_names)
BY DEF Agree, StreamCollectorStub, StreamCollectorService, StreamCollector_method_names,
       Method, Handler

\* So those of every service agree.
LEMMA ServicesAgree == \A s \in Services: Agree(Stubs[s], Registered[s], Names[s])
<1>1. /\ Stubs["Collector"] = CollectorStub /\ Registered["Collector"] = CollectorService
      /\ Stubs["Processor"] = ProcessorStub /\ Registered["Processor"] = ProcessorService
      /\ Stubs["Publisher"] = PublisherStub /\ Registered["Publisher"] = PublisherService
      /\ Stubs["StreamCollector"] = StreamCollectorStub
      /\ Registered["StreamCollector"] = StreamCollectorService
      /\ Names["Collector"] = Collector_method_names
      /\ Names["Processor"] = Processor_method_names
      /\ Names["Publisher"] = Publisher_method_names
      /\ Names["StreamCollector"] = StreamCollector_method_names
  BY DEF Stubs, Registered, Names
<1>2. QED
  BY <1>1, CollectorAgrees, ProcessorAgrees, PublisherAgrees, StreamCollectorAgrees DEF Services

\* Whatever server is called by whatever stub, a handler that is found for the
\* path reads and answers what the stub writes and expects.
LEMMA HandlersAgree ==
    AskedOK => \A h \in Handlers: /\ h.request = Stub.request /\ h.response = Stub.response
                                  /\ h.request \in Types
<1> SUFFICES ASSUME AskedOK, NEW h \in Handlers
             PROVE  /\ h.request = Stub.request /\ h.response = Stub.response
                    /\ h.request \in Types
  OBVIOUS
<1>1. asked.client \in Services /\ asked.method \in DOMAIN Stubs[asked.client]
  BY DEF AskedOK
<1>2. /\ h \in Registered[asked.server] /\ asked.client = asked.server
      /\ Names[asked.client][Stubs[asked.client][asked.method].name]
             = Names[asked.server][h.name]
  BY DEF Handlers, HandlersOf, StubPath
<1>3. Agree(Stubs[asked.client], Registered[asked.client], Names[asked.client])
  BY <1>1, ServicesAgree
<1>4. Stub.request \in Types
  BY <1>1, ServiceTypes DEF Stub
<1>5. h.request = Stub.request /\ h.response = Stub.response
  BY <1>1, <1>2, <1>3 DEF Agree, Stub
<1>6. QED
  BY <1>4, <1>5

\* What is known of a call from what may be asked and answered.
LEMMA AskedIs ==
    ASSUME AskedOK
    PROVE  /\ Stub.request \in Types /\ Stub.response \in Types
           /\ asked.parts \in Seq(Elements(asked.parts))
           /\ \A i \in DOMAIN asked.parts: IsMessage(Stub.request, asked.parts[i])
           /\ asked.stray \in Seq(Tokens)
           /\ \A r \in Answers(Stub.response, asked.parts): IsMessage(Stub.response, r)
<1>1. /\ asked.client \in Services /\ asked.method \in DOMAIN Stubs[asked.client]
      /\ asked.parts \in Requests(Stub.request) /\ asked.stray \in Strays(asked.parts)
      /\ Stub = Stubs[asked.client][asked.method]
  BY DEF AskedOK, Stub
<1>2. Stub.request \in Types /\ Stub.response \in Types
  BY <1>1, ServiceTypes
<1>3. \A s \in Services: \A method \in DOMAIN Stubs[s]:
          \A parts \in Requests(Stubs[s][method].request):
             /\ parts \in Seq({parts[i]: i \in DOMAIN parts})
             /\ \A i \in DOMAIN parts: IsMessage(Stubs[s][method].request, parts[i])
             /\ Strays(parts) \subseteq Seq(Tokens)
             /\ \A r \in Answers(Stubs[s][method].response, parts):
                   IsMessage(Stubs[s][method].response, r)
  BY CallAssumption
<1>4. /\ asked.parts \in Seq({asked.parts[i]: i \in DOMAIN asked.parts})
      /\ \A i \in DOMAIN asked.parts: IsMessage(Stub.request, asked.parts[i])
      /\ Strays(asked.parts) \subseteq Seq(Tokens)
      /\ \A r \in Answers(Stub.response, asked.parts): IsMessage(Stub.response, r)
  BY <1>1, <1>3
<1>5. QED
  BY <1>1, <1>2, <1>4 DEF Elements

\* The request is tokens, whatever is put around it.
LEMMA RequestIsTokens ==
    ASSUME AskedOK, NEW array \in BOOLEAN
    PROVE  RequestTokens(asked, array) \in Seq(Tokens)
<1>1. PICK type: type = Stub.request
  OBVIOUS
<1>2. PICK stray: stray = asked.stray
  OBVIOUS
<1>3. PICK parts: parts = asked.parts
  OBVIOUS
<1>4. /\ type \in TypeNames /\ stray \in Seq(Tokens) /\ Len(parts) \in Nat
      /\ DOMAIN parts = 1..Len(parts) /\ \A i \in DOMAIN parts: IsMessage(type, parts[i])
  BY <1>1, <1>2, <1>3, AskedIs, TypesAre
<1>5. PICK seqs: seqs = [i \in DOMAIN parts |-> Serialize(type, parts[i], stray, array)]
  OBVIOUS
<1>6. ASSUME NEW i \in DOMAIN seqs
      PROVE  seqs[i] \in Seq(Tokens)
  <2>1. PICK m: m = parts[i]
    OBVIOUS
  <2>2. i \in DOMAIN parts /\ seqs[i] = Serialize(type, m, stray, array)
    BY <1>5, <2>1
  <2>3. IsMessage(type, m)
    BY <1>4, <2>1, <2>2
  <2>4. Honest(type, m)
    BY <1>4, <2>3, AllHonest
  <2>5. QED
    BY <1>4, <2>2, <2>4 DEF Honest
<1>7. IsTokenized(seqs)
  BY <1>4, <1>5, <1>6 DEF IsTokenized
<1>8. PICK f: f = [i \in DOMAIN seqs |-> Width(seqs[i])]
  OBVIOUS
<1>9. \A i \in DOMAIN seqs: f[i] = Width(seqs[i])
  BY <1>8
<1>10. FlattenSeq(seqs) \in Seq(Tokens)
  BY <1>7, <1>9, FlattenWidth
<1>11. RequestTokens(asked, array) = FlattenSeq(seqs)
  BY <1>1, <1>2, <1>3, <1>5 DEF RequestTokens, Stub
<1>12. QED
  BY <1>10, <1>11

\* A parser that begins on what is sent.
LEMMA SendBegins ==
    ASSUME NEW type \in Types, NEW tokens \in Seq(Tokens), Send(type, tokens)
    PROVE  LimitsInv' /\ FramesOK'
<1>1. PICK n: n = Width(tokens)
  OBVIOUS
<1>2. n \in Nat /\ Begin(type, tokens, n)
  BY <1>1, WidthType DEF Send
<1>3. QED
  BY <1>2, BeginLimits, BeginFrames

\* A call begins with the invariant, and each of its steps keeps it.
LEMMA InitCall == Init => CallInv
<1> SUFFICES ASSUME Init
             PROVE  CallInv
  OBVIOUS
<1>1. AskedOK
  <2>1. PICK peers \in Peers: \E method \in DOMAIN Stubs[peers[1]]:
            \E parts \in Requests(Stubs[peers[1]][method].request): \E stray \in Strays(parts):
                asked = [client |-> peers[1], method |-> method, server |-> peers[2],
                         parts |-> parts, stray |-> stray]
    BY DEF Init
  <2>2. peers[1] \in Services /\ peers[2] \in Services
    BY <2>1, CallAssumption
  <2>3. QED
    BY <2>1, <2>2 DEF AskedOK, Stub
<1>2. PICK type: type = Stub.request
  OBVIOUS
<1>3. type \in Types /\ Begins(type, <<>>, 0)
  BY <1>1, <1>2, AskedIs DEF Init
<1>4. <<>> \in Seq(Tokens) /\ 0 \in Nat
  OBVIOUS
<1>5. LimitsInv
  BY <1>3, <1>4, BeginsLimits
<1>6. FramesOK
  BY <1>3, BeginsFrames
<1>7. stage = "calling"
  BY DEF Init
<1>8. QED
  BY <1>1, <1>5, <1>6, <1>7 DEF CallInv, StageOK, GivenOK

\* The invariant of what is asked outlives any step that does not change it.
LEMMA AskedStays == AskedOK /\ asked' = asked => AskedOK' /\ Stub' = Stub
BY DEF AskedOK, Stub

\* The stub serializes the request.
LEMMA CallKeeps ==
    ASSUME CallInv, Call
    PROVE  CallInv'
<1>1. AskedOK /\ AskedOK' /\ stage' = "called"
  BY AskedStays DEF CallInv, Call
<1>2. PICK array \in BOOLEAN: Send(Stub.request, RequestTokens(asked, array))
  BY DEF Call
<1>3. PICK type, tokens: type = Stub.request /\ tokens = RequestTokens(asked, array)
  OBVIOUS
<1>4. type \in Types /\ tokens \in Seq(Tokens) /\ Send(type, tokens)
  BY <1>1, <1>2, <1>3, AskedIs, RequestIsTokens
<1>5. LimitsInv' /\ FramesOK'
  BY <1>4, SendBegins
<1>6. QED
  BY <1>1, <1>5 DEF CallInv, StageOK, GivenOK

\* The service finds the handler and begins to parse, or finds none.
LEMMA DispatchKeeps ==
    ASSUME CallInv, Dispatch
    PROVE  CallInv'
<1>1. AskedOK /\ AskedOK' /\ stage' = "asking" /\ ParserTypeOK
  BY AskedStays DEF CallInv, Dispatch, LimitsInv
<1>2. PICK h \in Handlers: Begin(h.request, wire, limits[1])
  BY DEF Dispatch
<1>3. PICK type, n, tokens: type = h.request /\ n = limits[1] /\ tokens = wire
  OBVIOUS
<1>4. type \in Types
  BY <1>1, <1>2, <1>3, HandlersAgree
<1>5. tokens \in Seq(Tokens) /\ n \in Nat
  BY <1>1, <1>3 DEF ParserTypeOK
<1>6. Begin(type, tokens, n)
  BY <1>2, <1>3
<1>7. LimitsInv' /\ FramesOK'
  BY <1>4, <1>5, <1>6, BeginLimits, BeginFrames
<1>8. QED
  BY <1>1, <1>7 DEF CallInv, StageOK, GivenOK

\* The parser takes a step.
LEMMA ParseKeeps ==
    ASSUME CallInv, Parse
    PROVE  CallInv'
<1>1. LimitsInv' /\ FramesOK'
  BY StepKeepsLimits, StepKeepsFrames DEF CallInv, Parse
<1>2. asked' = asked /\ stage' = stage /\ given' = given
  BY DEF Parse, callVars
<1>3. QED
  BY <1>1, <1>2, AskedStays DEF CallInv, StageOK, GivenOK

\* The handler answers, and the reply is serialized for the stub to parse.
LEMMA AnswerKeeps ==
    ASSUME CallInv, Answer
    PROVE  CallInv'
<1>1. AskedOK /\ AskedOK' /\ Stub' = Stub /\ stage' = "answering"
  BY AskedStays DEF CallInv, Answer
<1>2. PICK h \in Handlers: \E r \in Answers(h.response, asked.parts): \E array \in BOOLEAN:
          given' = r /\ Send(Stub.response, Serialize(h.response, r, <<>>, array))
  BY DEF Answer
<1>3. PICK r \in Answers(h.response, asked.parts): \E array \in BOOLEAN:
          given' = r /\ Send(Stub.response, Serialize(h.response, r, <<>>, array))
  BY <1>2
<1>4. PICK array \in BOOLEAN:
          given' = r /\ Send(Stub.response, Serialize(h.response, r, <<>>, array))
  BY <1>3
<1>5. PICK type: type = Stub.response
  OBVIOUS
<1>6. h.response = type /\ type \in Types /\ type \in TypeNames
  BY <1>1, <1>5, HandlersAgree, AskedIs, TypesAre
<1>7. IsMessage(type, r)
  BY <1>1, <1>5, <1>6, AskedIs
<1>8. PICK none \in Seq(Tokens): none = <<>>
  <2>1. <<>> \in Seq(Tokens)
    OBVIOUS
  <2>2. QED
    BY <2>1
<1>9. PICK tokens: tokens = Serialize(type, r, none, array)
  OBVIOUS
<1>10. tokens \in Seq(Tokens)
  BY <1>6, <1>7, <1>8, <1>9, AllHonest DEF Honest
<1>11. Send(type, tokens)
  BY <1>4, <1>5, <1>6, <1>8, <1>9
<1>12. LimitsInv' /\ FramesOK'
  BY <1>6, <1>10, <1>11, SendBegins
<1>13. QED
  BY <1>1, <1>4, <1>5, <1>7, <1>12 DEF CallInv, StageOK, GivenOK

\* What is left of a call changes no more than its stage.
LEMMA RestKeeps ==
    ASSUME CallInv, \/ Unimplemented \/ RequestFails \/ Handle \/ Reject
                    \/ AnswerFails \/ Return \/ UNCHANGED vars
    PROVE  CallInv'
<1>1. UNCHANGED parserVars /\ asked' = asked
  BY DEF Unimplemented, RequestFails, Handle, Reject, AnswerFails, Return, vars, callVars
<1>2. LimitsInv' /\ FramesOK'
  BY <1>1, StepKeepsLimits, StepKeepsFrames DEF CallInv
<1>3. StageOK' /\ GivenOK'
  <2>1. CASE UNCHANGED vars
    BY <2>1 DEF CallInv, StageOK, GivenOK, vars, callVars, Stub
  <2>2. CASE ~UNCHANGED vars
    <3>1. stage' \in Final \cup {"handling"}
      BY <2>2
         DEF Unimplemented, RequestFails, Handle, Reject, AnswerFails, Return, Final
    <3>2. QED
      BY <3>1 DEF StageOK, GivenOK, Final
  <2>3. QED
    BY <2>1, <2>2
<1>4. QED
  BY <1>1, <1>2, <1>3, AskedStays DEF CallInv

\* Every step keeps the invariant.
LEMMA NextKeeps == CallInv /\ [Next]_vars => CallInv'
BY CallKeeps, DispatchKeeps, ParseKeeps, AnswerKeeps, RestKeeps DEF Next, Carry

\* Whatever is asked and answered, and whatever comes with it, the parser of
\* a call's messages holds at any moment objects of the classes that it says
\* they are (MergePartialFromCodedStream, the stubs and the services).
THEOREM CallStaysTyped == Spec => []CallOK
<1>1. Spec => []CallInv
  BY InitCall, NextKeeps, PTL DEF Spec
<1>2. CallInv => CallOK
  BY CallInvIs
<1>3. QED
  BY <1>1, <1>2, PTL

\* A message of its class is written in as many bytes as it is sized: AllHonest.
LEMMA InvSizesHonest == CallInv => SizesHonest
<1> SUFFICES ASSUME CallInv
             PROVE  SizesHonest
  OBVIOUS
<1>1. AskedOK /\ GivenOK
  BY DEF CallInv
<1>2. PICK none \in Seq(Tokens): none = <<>>
  <2>1. <<>> \in Seq(Tokens)
    OBVIOUS
  <2>2. QED
    BY <2>1
<1>3. ASSUME NEW m \in Sent, NEW array \in BOOLEAN
      PROVE  Width(Serialize(Stub.request, m, <<>>, array)) = ByteSize(Stub.request, m)
  <2>1. PICK type: type = Stub.request
    OBVIOUS
  <2>2. type \in TypeNames /\ IsMessage(type, m)
    BY <1>1, <2>1, AskedIs, TypesAre DEF Sent
  <2>3. Width(Serialize(type, m, none, array)) = ByteSize(type, m)
    BY <1>2, <2>2, AllHonest DEF Honest
  <2>4. QED
    BY <1>2, <2>1, <2>3
<1>4. ASSUME stage = "answering", NEW array \in BOOLEAN
      PROVE  Width(Serialize(Stub.response, given, <<>>, array)) = ByteSize(Stub.response, given)
  <2>1. PICK type, m: type = Stub.response /\ m = given
    OBVIOUS
  <2>2. type \in TypeNames /\ IsMessage(type, m)
    BY <1>1, <1>4, <2>1, AskedIs, TypesAre DEF GivenOK
  <2>3. Width(Serialize(type, m, none, array)) = ByteSize(type, m)
    BY <1>2, <2>2, AllHonest DEF Honest
  <2>4. QED
    BY <1>2, <2>1, <2>3
<1>5. QED
  BY <1>3, <1>4 DEF SizesHonest

\* The size that is computed before a message is written, and that becomes the
\* length in front of it, is what either serializer then writes, for every
\* message of every class: ByteSize, SerializeWithCachedSizes and
\* InternalSerializeWithCachedSizesToArray.
THEOREM SizesStayHonest == Spec => []SizesHonest
<1>1. Spec => []CallInv
  BY InitCall, NextKeeps, PTL DEF Spec
<1>2. QED
  BY <1>1, InvSizesHonest, PTL

\* A message of its class is copied as it is: CopyIs.
LEMMA InvCopiesWhole == CallInv => CopiesWhole
<1> SUFFICES ASSUME CallInv, Top.type \in Types, NEW m \in {Top.msg, NewOf[Top.type]},
                    NEW n \in {Top.msg, NewOf[Top.type]}
             PROVE  CopyFrom(Top.type, m, n) = n
  BY DEF CopiesWhole
<1>1. PICK type \in Types: type = Top.type
  OBVIOUS
<1>2. IsMessage(type, Top.msg) /\ IsMessage(type, NewOf[type])
  BY <1>1, TopIs, NewClassIs DEF CallInv, LimitsInv
<1>3. QED
  BY <1>1, <1>2, CopyIs

\* A message that is assigned to holds afterwards what the other holds and
\* nothing else, however far either has been parsed: Clear, MergeFrom and
\* CopyFrom of every class.
THEOREM CopiesStayWhole == Spec => []CopiesWhole
<1>1. Spec => []CallInv
  BY InitCall, NextKeeps, PTL DEF Spec
<1>2. QED
  BY <1>1, InvCopiesWhole, PTL

=============================================================================
