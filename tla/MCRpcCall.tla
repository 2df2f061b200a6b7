------------------------------ MODULE MCRpcCall ------------------------------
(***************************************************************************)
(* Instances of RpcCall: messages that differ from a new one in one field, *)
(* at any depth, and full ones.                                            *)
(***************************************************************************)
EXTENDS RpcCall

\* A text of each width of length, and one that is not UTF-8.
Lengths == "" :> 0 @@ "a" :> 1 @@ "long" :> 200 @@ "bad" :> 3
BadTexts == {"bad"}

Samples(kind) ==
    CASE kind \in TextKinds           -> {"a", "long", "bad"}
      [] kind = "bool"                -> {TRUE}
      [] kind \in {"float", "double"} -> {1}
      [] kind \in {"int32", "int64"}  -> {200, -1}
      [] OTHER                        -> {200}

Sample(kind) ==
    CASE kind \in TextKinds -> "a"
      [] kind = "bool"      -> TRUE
      [] OTHER              -> 200

RECURSIVE Full(_)

FullInner(of) == IF of \in Kinds THEN Sample(of) ELSE Full(of)

FullField(e) ==
    CASE e.shape = "value"    -> FullInner(e.of)
      [] e.shape = "choice"   -> e.choice :> FullInner(e.of)
      [] e.shape = "message"  -> <<FullInner(e.of)>>
      [] e.shape = "repeated" -> <<FullInner(e.of)>>
      [] e.shape = "mapped"   -> "a" :> FullInner(Entries[e.of])

Full(type) ==
    [f \in DOMAIN NewOf[type] |->
        FullField(CHOOSE e \in Members[type]: e.field = f)]

FullOf == [type \in Types |-> Full(type)]

\* Messages that carry metrics all over again: those are varied in the
\* arguments of CollectMetrics, and full in these.
Carriers == {"MetricsReply", "PubProcArg", "CollectArg", "CollectReply"}

RECURSIVE Variants(_)

InnerVariants(type, of) ==
    CASE of \in Kinds         -> Samples(of)
      [] type \notin Carriers -> Variants(of)
      [] OTHER                -> {FullOf[of]}

FieldVariants(type, e) ==
    CASE e.shape = "value"    -> Samples(e.of)
      [] e.shape = "choice"   -> {e.choice :> v: v \in Samples(e.of) \cup {Zero(e.of)}}
      [] e.shape = "message"  -> {<<v>>: v \in InnerVariants(type, e.of)}
      [] e.shape = "repeated" -> {<<v, v>>: v \in InnerVariants(type, e.of)}
      [] e.shape = "mapped"   ->
             LET values == InnerVariants(type, Entries[e.of])
             IN  {"a" :> v: v \in values} \cup {"" :> v @@ "long" :> v: v \in values}

Variants(type) ==
    {NewOf[type], FullOf[type]}
        \cup UNION {{[NewOf[type] EXCEPT ![e.field] = v]: v \in FieldVariants(type, e)}:
                       e \in Members[type]}

VariantsOf == [type \in Types |-> Variants(type)]

\* One message, or two that are to be merged.
RequestsOf ==
    [type \in Types |->
        {<<v>>: v \in VariantsOf[type]}
            \cup {<<FullOf[type], v>>: v \in VariantsOf[type]}
            \cup {<<v, FullOf[type]>>: v \in VariantsOf[type]}]

RequestSet(type) == RequestsOf[type]

RequestTypes == {Stubs[s][m].request: <<s, m>> \in UNION {{s} \X DOMAIN Stubs[s]: s \in Services}}

\* The handler answers anything to a plain request.
Plain == {<<NewOf[type]>>: type \in RequestTypes}

AnswerSet(type, parts) ==
    IF parts \in Plain THEN VariantsOf[type] ELSE {NewOf[type]}

\* A daemon calls the plugin it has started, or takes it for another.
PeerSet == {<<s, s>>: s \in Services} \cup {<<"Publisher", "Processor">>}

Unknown ==
    <<Token("tag", 800, "", 2), Token("number", 1, "", 1),
      Token("tag", 802, "", 2), Token("length", 1, "", 1), Token("text", 0, "a", 1)>>
IllTyped == <<Token("tag", 13, "", 1), Token("number", 1, "", 4)>>
EndGroup == <<Token("tag", 804, "", 2)>>
CutOff == <<Token("tag", 802, "", 2), Token("length", 3, "", 1), Token("text", 0, "a", 1)>>

WithStrays ==
    Plain \cup {<<FullOf[type]>>: type \in RequestTypes}
          \cup {<<FullOf[type], FullOf[type]>>: type \in RequestTypes}

StraySet(parts) ==
    {<<>>} \cup (IF parts \in WithStrays THEN {Unknown, IllTyped, EndGroup} ELSE {})
           \cup (IF parts \in WithStrays /\ Len(parts) = 1 THEN {CutOff} ELSE {})
=============================================================================
