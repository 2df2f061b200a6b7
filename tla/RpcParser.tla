------------------------------ MODULE RpcParser ------------------------------
(***************************************************************************)
(* MergePartialFromCodedStream of the messages of rpc/plugin.pb.cc: from   *)
(* the bytes of a message, one field a step, a message of C++ is filled.   *)
(* A message inside another is parsed by its own code, up to a limit that  *)
(* its length sets.                                                        *)
(***************************************************************************)
EXTENDS RpcMessages

CONSTANTS TextLength,   \* the texts there are, and how many bytes each has
          NotUtf8       \* those that are not UTF-8

ASSUME TextAssumption ==
    /\ TextLength \in [DOMAIN TextLength -> Nat]
    /\ "" \in DOMAIN TextLength /\ NotUtf8 \subseteq DOMAIN TextLength \ {""}

VARIABLES wire,    \* what travels, token by token
          at,      \* the next token
          used,    \* the bytes read so far
          limits,  \* the limits of the input, the one in force last
          frames,  \* the messages being parsed, the innermost last
          outcome  \* "parsing", "parsed" or "failed"

parserVars == <<wire, at, used, limits, frames, outcome>>

(***************************************************************************)
(* The bytes of a message are tags, numbers, lengths and texts, each with  *)
(* its width in bytes.                                                     *)
(***************************************************************************)
Token(is, value, text, width) ==
    [is |-> is, value |-> value, text |-> text, width |-> width]

Tokens ==
    {t \in [is: {"tag", "number", "length", "text"}, value: Int,
           text: DOMAIN TextLength, width: Nat]:
        t.is \in {"tag", "length"} => t.value \in Nat}

\* A message being parsed, and the field of the outer one that it is for.
Frame(type, msg, into) == [type |-> type, msg |-> msg, into |-> into]

-----------------------------------------------------------------------------
Top == frames[Len(frames)]
Limit == limits[Len(limits)]

\* The limit is reached: ReadTag gives 0.
AtEnd == used = Limit

Tag == wire[at].value
Next1 == wire[at + 1]
Next2 == wire[at + 2]

\* The bytes of the next n tokens.
Extent(n) ==
    wire[at].width + (IF n > 1 THEN Next1.width ELSE 0) + (IF n > 2 THEN Next2.width ELSE 0)

\* The next tokens are these, and all before the limit.
Upcoming(kinds) ==
    /\ at + Len(kinds) - 1 <= Len(wire)
    /\ \A i \in DOMAIN kinds: wire[at + i - 1].is = kinds[i]
    /\ used + Extent(Len(kinds)) <= Limit

NumberComes == Upcoming(<<"tag", "number">>)
LengthComes == Upcoming(<<"tag", "length">>)
TextComes == Upcoming(<<"tag", "length", "text">>) /\ Next2.width = Next1.value
GroupEnds == Upcoming(<<"tag">>) /\ Tag % 8 = 4

\* The tag is one that the message's code has a case for.
IsKnown == Tag <= Cutoff(Top.type) /\ (\E r \in ReadsOf(Top.type): r[1] = Tag)
Field == (CHOOSE r \in ReadsOf(Top.type): r[1] = Tag)[2]

\* A negative number comes with 64 bits, of which an unsigned kind takes as
\* many as it has.  Positive numbers too large for their kind are left out.
Word == 65536 * 65536

Decode(kind, n) ==
    CASE kind = "bool"              -> n # 0
      [] kind = "uint32" /\ n < 0  -> n % Word
      [] kind = "uint64" /\ n < 0  -> n % (Word * Word)
      [] OTHER                      -> n

\* What a field read does to the message: the last of a scalar wins, a choice
\* takes the place of another (clear_data, set_has_x), and what is repeated
\* is added.
Store(msg, e, v) ==
    [msg EXCEPT ![e.field] =
        CASE e.shape \in {"value", "held"} -> v
          [] e.shape = "choice"   -> Only(e.choice, v)
          [] e.shape = "message"  -> <<v>>
          [] e.shape = "repeated" -> Append(@, v)
          [] e.shape = "mapped"   -> Inserted(Only(v.key, v.value), @)]

\* mutable_x() is the message there is, add_x() and an entry are new.
Opened(msg, e) ==
    IF e.shape = "message" /\ msg[e.field] # <<>> THEN msg[e.field][1] ELSE New(e.of)

Pass(n) == at' = at + n /\ used' = used + Extent(n)

Fill(v) ==
    frames' = [frames EXCEPT ![Len(frames)].msg = Store(Top.msg, Field, v)]

-----------------------------------------------------------------------------
ReadPrimitive ==
    /\ outcome = "parsing" /\ ~AtEnd /\ NumberComes
    /\ IsKnown /\ Field.of \in Kinds \ TextKinds
    /\ Pass(2)
    /\ Fill(Decode(Field.of, Next1.value))
    /\ UNCHANGED <<wire, limits, outcome>>

\* ReadString is followed by VerifyUtf8String, and ReadBytes is not.
ReadText ==
    /\ outcome = "parsing" /\ ~AtEnd /\ TextComes
    /\ IsKnown /\ Field.of \in TextKinds
    /\ Pass(3)
    /\ IF Field.of = "string" /\ Next2.text \in NotUtf8
       THEN outcome' = "failed" /\ UNCHANGED frames
       ELSE Fill(Next2.text) /\ UNCHANGED outcome
    /\ UNCHANGED <<wire, limits>>

\* ReadMessageNoVirtual reads the length and sets the limit, which is never
\* beyond the one it is inside of.
PushLimit(limit, from, length) == IF from + length <= limit THEN from + length ELSE limit

EnterMessage ==
    /\ outcome = "parsing" /\ ~AtEnd /\ LengthComes
    /\ IsKnown /\ Field.of \notin Kinds
    /\ Pass(2)
    /\ limits' = Append(limits, PushLimit(Limit, used + Extent(2), Next1.value))
    /\ frames' = Append(frames, Frame(Field.of, Opened(Top.msg, Field), Field))
    /\ UNCHANGED <<wire, outcome>>

\* A form of the next definition that a plausible slip would have given.
LeaveWithLimit ==
    /\ outcome = "parsing" /\ AtEnd /\ Len(frames) > 1
    /\ LET outer == SubSeq(frames, 1, Len(frames) - 1)
       IN  frames' = [outer EXCEPT ![Len(outer)].msg = Store(@, Top.into, Top.msg)]
    /\ UNCHANGED <<wire, at, used, limits, outcome>>

\* The limit of the outer message holds again.
LeaveMessage ==
    /\ outcome = "parsing" /\ AtEnd /\ Len(frames) > 1
    /\ limits' = SubSeq(limits, 1, Len(limits) - 1)
    /\ LET outer == SubSeq(frames, 1, Len(frames) - 1)
       IN  frames' = [outer EXCEPT ![Len(outer)].msg = Store(@, Top.into, Top.msg)]
    /\ UNCHANGED <<wire, at, used, outcome>>

\* A form of the next definition that a plausible slip would have given.
SkipNumber ==
    /\ outcome = "parsing" /\ ~AtEnd /\ ~IsKnown
    /\ NumberComes /\ Pass(2)
    /\ UNCHANGED <<wire, limits, frames, outcome>>

\* handle_unusual: a tag that is unknown, or that is known with another
\* wire type, is passed over with what follows it.
SkipField ==
    /\ outcome = "parsing" /\ ~AtEnd /\ ~IsKnown
    /\ \/ NumberComes /\ Pass(2)
       \/ TextComes /\ Pass(3)
    /\ UNCHANGED <<wire, limits, frames, outcome>>

\* handle_unusual: at the end of a group the message's parser succeeds, and
\* its caller, at whose limit it is not, does not.
StopAtEndGroup ==
    /\ outcome = "parsing" /\ ~AtEnd
    /\ GroupEnds
    /\ Pass(1)
    /\ outcome' = "failed"
    /\ UNCHANGED <<wire, limits, frames>>

\* What is announced does not come, or not before the limit.  A length that
\* is more than what it announces is that of the last field before the limit:
\* nothing follows that might be taken for the rest (CallAssumption).
ReadFails ==
    /\ outcome = "parsing" /\ ~AtEnd
    /\ ~NumberComes /\ ~TextComes /\ ~GroupEnds
    /\ ~(LengthComes /\ IsKnown /\ Field.of \notin Kinds)
    /\ outcome' = "failed"
    /\ UNCHANGED <<wire, at, used, limits, frames>>

Succeed ==
    /\ outcome = "parsing" /\ AtEnd /\ Len(frames) = 1
    /\ outcome' = "parsed"
    /\ UNCHANGED <<wire, at, used, limits, frames>>

-----------------------------------------------------------------------------
\* ParseFromZeroCopyStream, into a message that is new.
Begins(type, tokens, width) ==
    /\ wire = tokens /\ at = 1 /\ used = 0 /\ outcome = "parsing"
    /\ limits = <<width>> /\ frames = <<Frame(type, New(type), Held("", type))>>

Begin(type, tokens, width) ==
    /\ wire' = tokens /\ at' = 1 /\ used' = 0 /\ outcome' = "parsing"
    /\ limits' = <<width>> /\ frames' = <<Frame(type, New(type), Held("", type))>>

ParserStep ==
    \/ ReadPrimitive \/ ReadText
    \/ EnterMessage \/ LeaveMessage
    \/ SkipField \/ StopAtEndGroup \/ ReadFails \/ Succeed

Result == frames[1].msg

-----------------------------------------------------------------------------
ParserTypeOK ==
    /\ wire \in Seq(Tokens) /\ at \in Nat \ {0} /\ used \in Nat
    /\ frames \in Seq({frames[i]: i \in DOMAIN frames}) /\ Len(frames) > 0
    /\ \A i \in DOMAIN frames: DOMAIN frames[i] = {"type", "msg", "into"}
    /\ limits \in Seq(Nat) /\ Len(limits) = Len(frames)
    /\ outcome \in {"parsing", "parsed", "failed"}
=============================================================================
