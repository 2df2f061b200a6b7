------------------------------- MODULE RpcCodec -------------------------------
(***************************************************************************)
(* The other functions of the messages of rpc/plugin.pb.cc, on whole       *)
(* messages: ByteSize, the two serializers, MergeFrom, Clear and CopyFrom. *)
(*                                                                         *)
(* A function of a message calls that of the messages inside it.  Classes  *)
(* are nested at most five deep (CollectArg, MetricsArg, Metric, ConfigMap *)
(* and an entry; GetConfigPolicyReply, an entry, StringPolicy, an entry    *)
(* and StringRule), so each function is its body taken five times over,    *)
(* the first parameter of the body being what it calls.                    *)
(***************************************************************************)
EXTENDS RpcParser, SequencesExt, FiniteSetsExt, Functions

\* CodedOutputStream: seven bits to a byte, and ten bytes if negative.
VarintLimits == {128, 16384, 2097152, 268435456}
VarintWidth(n) == IF n < 0 THEN 10 ELSE 1 + Cardinality({limit \in VarintLimits: limit <= n})

ScalarWidth(kind, v) ==
    CASE kind \in IntegerKinds -> VarintWidth(v)
      [] kind = "bool"         -> 1
      [] kind = "float"        -> 4
      [] kind = "double"       -> 8
      [] OTHER                 -> TextLength[v]

-----------------------------------------------------------------------------
(***************************************************************************)
(* What there is of a field to be measured and written: nothing, a scalar  *)
(* or a message, or any number of them.                                    *)
(***************************************************************************)
Parts(e, v) ==
    CASE e.shape = "value"  -> IF v = Zero(e.of) THEN <<>> ELSE <<v>>
      [] e.shape = "choice" -> IF e.choice \in DOMAIN v THEN <<v[e.choice]>> ELSE <<>>
      [] e.shape = "held"   -> <<v>>
      [] e.shape = "mapped" -> LET keys == SetToSeq(DOMAIN v)
                               IN  [i \in DOMAIN keys |->
                                       [key |-> keys[i], value |-> v[keys[i]]]]
      [] OTHER              -> v

-----------------------------------------------------------------------------
(***************************************************************************)
(* ByteSize.  A length is written before what it is the length of.         *)
(***************************************************************************)
WithLength(n) == VarintWidth(n) + n

InnerSize(Size(_, _), of, v) ==
    IF of \in Kinds \ TextKinds THEN ScalarWidth(of, v)
    ELSE WithLength(IF of \in Kinds THEN TextLength[v] ELSE Size(of, v))

FieldSize(Size(_, _), tag, e, parts) ==
    SumFunction([i \in DOMAIN parts |-> tag + InnerSize(Size, e.of, parts[i])])

SizeBy(Size(_, _), type, m) ==
    SumFunction([s \in SizesOf(type) |->
                    FieldSize(Size, s[1], s[2], Parts(s[2], m[s[2].field]))])

Size1(type, m) == SizeBy(LAMBDA of, v: 0, type, m)
Size2(type, m) == SizeBy(Size1, type, m)
Size3(type, m) == SizeBy(Size2, type, m)
Size4(type, m) == SizeBy(Size3, type, m)
ByteSize(type, m) == SizeBy(Size4, type, m)

-----------------------------------------------------------------------------
(***************************************************************************)
(* SerializeWithCachedSizes and InternalSerializeWithCachedSizesToArray.   *)
(* The library's own lengths are the sizes that ByteSize has cached.  A    *)
(* peer of another version may write fields that are unknown here, stray,  *)
(* into every message.                                                     *)
(***************************************************************************)
TagToken(number, of) ==
    Token("tag", TagOf(number, of), "", IF number <= 15 THEN 1 ELSE 2)
LengthToken(n) == Token("length", n, "", VarintWidth(n))

ScalarTokens(number, kind, v) ==
    <<TagToken(number, kind)>> \o
        CASE kind \in TextKinds ->
                 <<LengthToken(TextLength[v]), Token("text", 0, v, TextLength[v])>>
          [] kind = "bool" -> <<Token("number", IF v THEN 1 ELSE 0, "", 1)>>
          [] OTHER         -> <<Token("number", v, "", ScalarWidth(kind, v))>>

\* What tokens are wide in all: those after the i-th, up to the j-th, are
\* taken in two halves, to keep the recursion shallow.
Width(tokens) ==
    IF tokens = <<>> THEN 0 ELSE
    LET n == Len(tokens)
        part[p \in (0..n) \X (0..n)] ==
            LET middle == (p[1] + p[2]) \div 2
            IN  CASE p[2] <= p[1]    -> 0
                  [] p[2] = p[1] + 1 -> tokens[p[2]].width
                  [] OTHER -> part[<<p[1], middle>>] + part[<<middle, p[2]>>]
    IN  part[<<0, n>>]

InnerTokens(Tokenize(_, _, _, _), number, of, v, stray, array) ==
    IF of \in Kinds THEN ScalarTokens(number, of, v)
    ELSE LET inner == Tokenize(of, v, stray, array)
         IN  <<TagToken(number, of),
               LengthToken(IF stray = <<>> THEN ByteSize(of, v) ELSE Width(inner))>> \o inner

FieldTokens(Tokenize(_, _, _, _), number, e, parts, stray, array) ==
    FlattenSeq([i \in DOMAIN parts |->
                   InnerTokens(Tokenize, number, e.of, parts[i], stray, array)])

TokensBy(Tokenize(_, _, _, _), type, m, stray, array) ==
    LET writes == WritesOf(type, array)
    IN  FlattenSeq([i \in DOMAIN writes |->
                       FieldTokens(Tokenize, writes[i][1], writes[i][2],
                                   Parts(writes[i][2], m[writes[i][2].field]),
                                   stray, array)]) \o stray

Tokens1(type, m, stray, array) == TokensBy(LAMBDA of, v, s, a: <<>>, type, m, stray, array)
Tokens2(type, m, stray, array) == TokensBy(Tokens1, type, m, stray, array)
Tokens3(type, m, stray, array) == TokensBy(Tokens2, type, m, stray, array)
Tokens4(type, m, stray, array) == TokensBy(Tokens3, type, m, stray, array)
Serialize(type, m, stray, array) == TokensBy(Tokens4, type, m, stray, array)

-----------------------------------------------------------------------------
(***************************************************************************)
(* MergeFrom, Clear and CopyFrom, which operator= is.                      *)
(***************************************************************************)
\* merges: what MergeFrom does about one field, whose values are these.
MergedField(Merge(_, _, _), merges, mine, from) ==
    LET e == CHOOSE e \in merges: TRUE
    IN  CASE e.shape = "value"    -> IF from = Zero(e.of) THEN mine ELSE from
          [] e.shape = "choice"   -> IF \E c \in merges: c.choice \in DOMAIN from
                                     THEN from ELSE mine
          [] e.shape = "repeated" -> mine \o from
          [] e.shape = "mapped"   -> Inserted(from, mine)
          [] e.shape = "message"  ->
                 IF from = <<>> THEN mine
                 ELSE <<Merge(e.of, IF mine = <<>> THEN NewOf[e.of] ELSE mine[1], from[1])>>

MergeBy(Merge(_, _, _), type, mine, from) ==
    [f \in DOMAIN mine |->
        LET merges == {e \in Merges[type]: e.field = f}
        IN  IF merges = {} THEN mine[f] ELSE MergedField(Merge, merges, mine[f], from[f])]

\* What is repeated or mapped is not merged but added, and what is left, the
\* one message in another, is nested two deep.
Merge1(type, mine, from) == MergeBy(LAMBDA of, m, n: m, type, mine, from)
MergeFrom(type, mine, from) == MergeBy(Merge1, type, mine, from)

Clear(type, m) == [f \in DOMAIN m |-> IF f \in Cleared[type] THEN NewOf[type][f] ELSE m[f]]

CopyFrom(type, mine, from) == MergeFrom(type, Clear(type, mine), from)

-----------------------------------------------------------------------------
(***************************************************************************)
(* What an object of a class may be, and which objects can be read.        *)
(***************************************************************************)
IsScalar(kind, v) ==
    CASE kind \in TextKinds            -> v \in DOMAIN TextLength
      [] kind = "bool"                 -> v \in BOOLEAN
      [] kind \in {"uint32", "uint64"} -> v \in Nat
      [] OTHER                         -> v \in Int

IsInner(Is(_, _), of, v) == IF of \in Kinds THEN IsScalar(of, v) ELSE Is(of, v)

\* fields: the members of the class, among which are the choices of a union.
IsField(Is(_, _), fields, e, v) ==
    CASE e.shape \in {"value", "held"} -> IsInner(Is, e.of, v)
      [] e.shape = "choice"   ->
             \/ v = <<>>
             \/ \E c \in fields: /\ c.shape = "choice" /\ c.field = e.field
                                 /\ DOMAIN v = {c.choice}
                                 /\ v = Only(c.choice, v[c.choice]) /\ IsScalar(c.of, v[c.choice])
      [] e.shape = "message"  -> \/ v = <<>>
                                 \/ v = <<v[1]>> /\ Is(e.of, v[1])
      [] e.shape = "repeated" -> /\ v \in Seq({v[i]: i \in DOMAIN v})
                                 /\ \A i \in DOMAIN v: IsInner(Is, e.of, v[i])
      [] e.shape = "mapped"   -> /\ v = [k \in DOMAIN v |-> v[k]] /\ IsFiniteSet(DOMAIN v)
                                 /\ \A k \in DOMAIN v: /\ k \in DOMAIN TextLength
                                                       /\ IsInner(Is, Entries[e.of], v[k])

IsBy(Is(_, _), type, m) ==
    /\ m = [f \in {e.field: e \in MembersOf(type)} |-> m[f]]
    /\ \A e \in MembersOf(type): IsField(Is, MembersOf(type), e, m[e.field])

Is1(type, m) == IsBy(LAMBDA of, v: FALSE, type, m)
Is2(type, m) == IsBy(Is1, type, m)
Is3(type, m) == IsBy(Is2, type, m)
Is4(type, m) == IsBy(Is3, type, m)
IsMessage(type, m) == IsBy(Is4, type, m)

\* All the strings of m are UTF-8.
LegibleInner(Legible(_, _), of, v) ==
    IF of \in Kinds THEN of = "string" => v \notin NotUtf8 ELSE Legible(of, v)

LegibleBy(Legible(_, _), type, m) ==
    \A r \in ReadsOf(type):
        LET parts == Parts(r[2], m[r[2].field])
        IN  \A i \in DOMAIN parts: LegibleInner(Legible, r[2].of, parts[i])

Legible1(type, m) == LegibleBy(LAMBDA of, v: TRUE, type, m)
Legible2(type, m) == LegibleBy(Legible1, type, m)
Legible3(type, m) == LegibleBy(Legible2, type, m)
Legible4(type, m) == LegibleBy(Legible3, type, m)
IsLegible(type, m) == LegibleBy(Legible4, type, m)
=============================================================================
