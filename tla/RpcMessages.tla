----------------------------- MODULE RpcMessages -----------------------------
(***************************************************************************)
(* The messages of plugin.proto by their type, and the entries of their    *)
(* maps, which the protobuf library parses and writes as messages of a key *)
(* and a value.                                                            *)
(***************************************************************************)
EXTENDS RpcMetricMessages, RpcPolicyMessages, RpcCallMessages

Members ==
    [CollectArg |-> CollectArgMembers, CollectReply |-> CollectReplyMembers,
     Empty |-> EmptyMembers, ErrReply |-> ErrReplyMembers,
     Time |-> TimeMembers, NamespaceElement |-> NamespaceElementMembers,
     PubProcArg |-> PubProcArgMembers, Metric |-> MetricMembers,
     ConfigMap |-> ConfigMapMembers, KillArg |-> KillArgMembers,
     GetConfigPolicyReply |-> GetConfigPolicyReplyMembers,
     BoolRule |-> BoolRuleMembers, BoolPolicy |-> BoolPolicyMembers,
     FloatRule |-> FloatRuleMembers, FloatPolicy |-> FloatPolicyMembers,
     IntegerRule |-> IntegerRuleMembers,
     IntegerPolicy |-> IntegerPolicyMembers, StringRule |-> StringRuleMembers,
     StringPolicy |-> StringPolicyMembers, MetricsArg |-> MetricsArgMembers,
     MetricsReply |-> MetricsReplyMembers,
     GetMetricTypesArg |-> GetMetricTypesArgMembers]

NewOf ==
    [CollectArg |-> CollectArgNew, CollectReply |-> CollectReplyNew,
     Empty |-> EmptyNew, ErrReply |-> ErrReplyNew, Time |-> TimeNew,
     NamespaceElement |-> NamespaceElementNew, PubProcArg |-> PubProcArgNew,
     Metric |-> MetricNew, ConfigMap |-> ConfigMapNew, KillArg |-> KillArgNew,
     GetConfigPolicyReply |-> GetConfigPolicyReplyNew,
     BoolRule |-> BoolRuleNew, BoolPolicy |-> BoolPolicyNew,
     FloatRule |-> FloatRuleNew, FloatPolicy |-> FloatPolicyNew,
     IntegerRule |-> IntegerRuleNew, IntegerPolicy |-> IntegerPolicyNew,
     StringRule |-> StringRuleNew, StringPolicy |-> StringPolicyNew,
     MetricsArg |-> MetricsArgNew, MetricsReply |-> MetricsReplyNew,
     GetMetricTypesArg |-> GetMetricTypesArgNew]

Cleared ==
    [CollectArg |-> CollectArgCleared, CollectReply |-> CollectReplyCleared,
     Empty |-> EmptyCleared, ErrReply |-> ErrReplyCleared,
     Time |-> TimeCleared, NamespaceElement |-> NamespaceElementCleared,
     PubProcArg |-> PubProcArgCleared, Metric |-> MetricCleared,
     ConfigMap |-> ConfigMapCleared, KillArg |-> KillArgCleared,
     GetConfigPolicyReply |-> GetConfigPolicyReplyCleared,
     BoolRule |-> BoolRuleCleared, BoolPolicy |-> BoolPolicyCleared,
     FloatRule |-> FloatRuleCleared, FloatPolicy |-> FloatPolicyCleared,
     IntegerRule |-> IntegerRuleCleared,
     IntegerPolicy |-> IntegerPolicyCleared, StringRule |-> StringRuleCleared,
     StringPolicy |-> StringPolicyCleared, MetricsArg |-> MetricsArgCleared,
     MetricsReply |-> MetricsReplyCleared,
     GetMetricTypesArg |-> GetMetricTypesArgCleared]

Reads ==
    [CollectArg |-> CollectArgReads, CollectReply |-> CollectReplyReads,
     Empty |-> EmptyReads, ErrReply |-> ErrReplyReads, Time |-> TimeReads,
     NamespaceElement |-> NamespaceElementReads,
     PubProcArg |-> PubProcArgReads, Metric |-> MetricReads,
     ConfigMap |-> ConfigMapReads, KillArg |-> KillArgReads,
     GetConfigPolicyReply |-> GetConfigPolicyReplyReads,
     BoolRule |-> BoolRuleReads, BoolPolicy |-> BoolPolicyReads,
     FloatRule |-> FloatRuleReads, FloatPolicy |-> FloatPolicyReads,
     IntegerRule |-> IntegerRuleReads, IntegerPolicy |-> IntegerPolicyReads,
     StringRule |-> StringRuleReads, StringPolicy |-> StringPolicyReads,
     MetricsArg |-> MetricsArgReads, MetricsReply |-> MetricsReplyReads,
     GetMetricTypesArg |-> GetMetricTypesArgReads]

Writes ==
    [CollectArg |-> CollectArgWrites, CollectReply |-> CollectReplyWrites,
     Empty |-> EmptyWrites, ErrReply |-> ErrReplyWrites, Time |-> TimeWrites,
     NamespaceElement |-> NamespaceElementWrites,
     PubProcArg |-> PubProcArgWrites, Metric |-> MetricWrites,
     ConfigMap |-> ConfigMapWrites, KillArg |-> KillArgWrites,
     GetConfigPolicyReply |-> GetConfigPolicyReplyWrites,
     BoolRule |-> BoolRuleWrites, BoolPolicy |-> BoolPolicyWrites,
     FloatRule |-> FloatRuleWrites, FloatPolicy |-> FloatPolicyWrites,
     IntegerRule |-> IntegerRuleWrites, IntegerPolicy |-> IntegerPolicyWrites,
     StringRule |-> StringRuleWrites, StringPolicy |-> StringPolicyWrites,
     MetricsArg |-> MetricsArgWrites, MetricsReply |-> MetricsReplyWrites,
     GetMetricTypesArg |-> GetMetricTypesArgWrites]

Sizes ==
    [CollectArg |-> CollectArgSizes, CollectReply |-> CollectReplySizes,
     Empty |-> EmptySizes, ErrReply |-> ErrReplySizes, Time |-> TimeSizes,
     NamespaceElement |-> NamespaceElementSizes,
     PubProcArg |-> PubProcArgSizes, Metric |-> MetricSizes,
     ConfigMap |-> ConfigMapSizes, KillArg |-> KillArgSizes,
     GetConfigPolicyReply |-> GetConfigPolicyReplySizes,
     BoolRule |-> BoolRuleSizes, BoolPolicy |-> BoolPolicySizes,
     FloatRule |-> FloatRuleSizes, FloatPolicy |-> FloatPolicySizes,
     IntegerRule |-> IntegerRuleSizes, IntegerPolicy |-> IntegerPolicySizes,
     StringRule |-> StringRuleSizes, StringPolicy |-> StringPolicySizes,
     MetricsArg |-> MetricsArgSizes, MetricsReply |-> MetricsReplySizes,
     GetMetricTypesArg |-> GetMetricTypesArgSizes]

Merges ==
    [CollectArg |-> CollectArgMerges, CollectReply |-> CollectReplyMerges,
     Empty |-> EmptyMerges, ErrReply |-> ErrReplyMerges, Time |-> TimeMerges,
     NamespaceElement |-> NamespaceElementMerges,
     PubProcArg |-> PubProcArgMerges, Metric |-> MetricMerges,
     ConfigMap |-> ConfigMapMerges, KillArg |-> KillArgMerges,
     GetConfigPolicyReply |-> GetConfigPolicyReplyMerges,
     BoolRule |-> BoolRuleMerges, BoolPolicy |-> BoolPolicyMerges,
     FloatRule |-> FloatRuleMerges, FloatPolicy |-> FloatPolicyMerges,
     IntegerRule |-> IntegerRuleMerges, IntegerPolicy |-> IntegerPolicyMerges,
     StringRule |-> StringRuleMerges, StringPolicy |-> StringPolicyMerges,
     MetricsArg |-> MetricsArgMerges, MetricsReply |-> MetricsReplyMerges,
     GetMetricTypesArg |-> GetMetricTypesArgMerges]

Types == DOMAIN Members

\* ReadTagWithCutoff tells at once that a tag of more bytes is unknown.
Cutoff(type) == IF type = "Metric" THEN 16383 ELSE 127

-----------------------------------------------------------------------------
\* What the values of a map are, by the type of its entries.
Entries ==
    [Metric_TagsEntry |-> "string",
     ConfigMap_IntMapEntry |-> "int64", ConfigMap_StringMapEntry |-> "string",
     ConfigMap_FloatMapEntry |-> "double", ConfigMap_BoolMapEntry |-> "bool",
     BoolPolicy_RulesEntry |-> "BoolRule", FloatPolicy_RulesEntry |-> "FloatRule",
     IntegerPolicy_RulesEntry |-> "IntegerRule",
     StringPolicy_RulesEntry |-> "StringRule",
     GetConfigPolicyReply_BoolPolicyEntry |-> "BoolPolicy",
     GetConfigPolicyReply_FloatPolicyEntry |-> "FloatPolicy",
     GetConfigPolicyReply_IntegerPolicyEntry |-> "IntegerPolicy",
     GetConfigPolicyReply_StringPolicyEntry |-> "StringPolicy"]

EntryTypes == DOMAIN Entries

MembersOf(type) ==
    IF type \in EntryTypes
    THEN {Held("key", "text"), Held("value", Entries[type])} ELSE Members[type]

\* WireFormatLite: how a kind or a message travels.
WireType(of) ==
    CASE of \in IntegerKinds \cup {"bool"} -> 0
      [] of = "double"                     -> 1
      [] of = "float"                      -> 5
      [] OTHER                             -> 2

TagOf(number, of) == 8 * number + WireType(of)

EntryReads(value) ==
    {<<TagOf(1, "string"), Held("key", "string")>>, <<TagOf(2, value), Held("value", value)>>}

ReadsOf(type) ==
    IF type \in EntryTypes THEN EntryReads(Entries[type]) ELSE Reads[type]

\* A new entry holds a new message, or zero.
New(type) ==
    IF type \in EntryTypes
    THEN [key |-> "", value |-> IF Entries[type] \in Kinds THEN Zero(Entries[type])
                                ELSE NewOf[Entries[type]]]
    ELSE NewOf[type]

WritesOf(type, array) ==
    CASE type \in EntryTypes ->
             << <<1, Held("key", "string")>>, <<2, Held("value", Entries[type])>> >>
      [] type = "Metric" /\ array               -> MetricWritesToArray
      [] type = "ConfigMap" /\ array            -> ConfigMapWritesToArray
      [] type = "GetConfigPolicyReply" /\ array -> GetConfigPolicyReplyWritesToArray
      [] OTHER                                  -> Writes[type]

SizesOf(type) ==
    IF type \in EntryTypes
    THEN {<<1, Held("key", "string")>>, <<1, Held("value", Entries[type])>>}
    ELSE Sizes[type]
=============================================================================
