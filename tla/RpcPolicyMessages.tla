-------------------------- MODULE RpcPolicyMessages ---------------------------
(***************************************************************************)
(* The messages of rpc/plugin.pb.h and plugin.pb.cc that carry a config    *)
(* policy, laid out as in RpcMetricMessages.                               *)
(***************************************************************************)
EXTENDS RpcFields

-----------------------------------------------------------------------------
BoolRuleMembers ==
    {Value("required", "bool"), Value("default_", "bool"),
     Value("has_default", "bool")}

BoolRuleNew == [required |-> FALSE, default_ |-> FALSE, has_default |-> FALSE]

BoolRuleCleared ==
    {"required", "default_", "has_default"}

BoolRuleReads ==
    {<<8, Value("required", "bool")>>, <<16, Value("default_", "bool")>>,
     <<24, Value("has_default", "bool")>>}

BoolRuleWrites ==
    << <<1, Value("required", "bool")>>, <<2, Value("default_", "bool")>>,
       <<3, Value("has_default", "bool")>> >>

BoolRuleSizes ==
    {<<1, Value("required", "bool")>>, <<1, Value("default_", "bool")>>,
     <<1, Value("has_default", "bool")>>}

BoolRuleMerges ==
    {Value("required", "bool"), Value("default_", "bool"),
     Value("has_default", "bool")}

-----------------------------------------------------------------------------
BoolPolicyMembers ==
    {Mapped("rules", "BoolPolicy_RulesEntry"), Repeated("key", "text")}

BoolPolicyNew == [rules |-> <<>>, key |-> <<>>]

BoolPolicyCleared ==
    {"rules", "key"}

BoolPolicyReads ==
    {<<10, Mapped("rules", "BoolPolicy_RulesEntry")>>,
     <<18, Repeated("key", "string")>>}

BoolPolicyWrites ==
    << <<1, Mapped("rules", "BoolPolicy_RulesEntry")>>,
       <<2, Repeated("key", "string")>> >>

BoolPolicySizes ==
    {<<1, Mapped("rules", "BoolPolicy_RulesEntry")>>,
     <<1, Repeated("key", "string")>>}

BoolPolicyMerges ==
    {Mapped("rules", "BoolPolicy_RulesEntry"), Repeated("key", "text")}

-----------------------------------------------------------------------------
FloatRuleMembers ==
    {Value("minimum", "double"), Value("maximum", "double"),
     Value("default_", "double"), Value("required", "bool"),
     Value("has_default", "bool"), Value("has_min", "bool"),
     Value("has_max", "bool")}

FloatRuleNew ==
    [minimum |-> 0, maximum |-> 0, default_ |-> 0, required |-> FALSE,
     has_default |-> FALSE, has_min |-> FALSE, has_max |-> FALSE]

FloatRuleCleared ==
    {"minimum", "maximum", "default_", "required", "has_default", "has_min",
     "has_max"}

FloatRuleReads ==
    {<<8, Value("required", "bool")>>, <<17, Value("minimum", "double")>>,
     <<25, Value("maximum", "double")>>, <<33, Value("default_", "double")>>,
     <<40, Value("has_default", "bool")>>, <<48, Value("has_min", "bool")>>,
     <<56, Value("has_max", "bool")>>}

FloatRuleWrites ==
    << <<1, Value("required", "bool")>>, <<2, Value("minimum", "double")>>,
       <<3, Value("maximum", "double")>>, <<4, Value("default_", "double")>>,
       <<5, Value("has_default", "bool")>>, <<6, Value("has_min", "bool")>>,
       <<7, Value("has_max", "bool")>> >>

FloatRuleSizes ==
    {<<1, Value("required", "bool")>>, <<1, Value("minimum", "double")>>,
     <<1, Value("maximum", "double")>>, <<1, Value("default_", "double")>>,
     <<1, Value("has_default", "bool")>>, <<1, Value("has_min", "bool")>>,
     <<1, Value("has_max", "bool")>>}

FloatRuleMerges ==
    {Value("required", "bool"), Value("minimum", "double"),
     Value("maximum", "double"), Value("default_", "double"),
     Value("has_default", "bool"), Value("has_min", "bool"),
     Value("has_max", "bool")}

-----------------------------------------------------------------------------
FloatPolicyMembers ==
    {Mapped("rules", "FloatPolicy_RulesEntry"), Repeated("key", "text")}

FloatPolicyNew == [rules |-> <<>>, key |-> <<>>]

FloatPolicyCleared ==
    {"rules", "key"}

FloatPolicyReads ==
    {<<10, Mapped("rules", "FloatPolicy_RulesEntry")>>,
     <<18, Repeated("key", "string")>>}

FloatPolicyWrites ==
    << <<1, Mapped("rules", "FloatPolicy_RulesEntry")>>,
       <<2, Repeated("key", "string")>> >>

FloatPolicySizes ==
    {<<1, Mapped("rules", "FloatPolicy_RulesEntry")>>,
     <<1, Repeated("key", "string")>>}

FloatPolicyMerges ==
    {Mapped("rules", "FloatPolicy_RulesEntry"), Repeated("key", "text")}

-----------------------------------------------------------------------------
IntegerRuleMembers ==
    {Value("minimum", "int64"), Value("maximum", "int64"),
     Value("default_", "int64"), Value("required", "bool"),
     Value("has_default", "bool"), Value("has_min", "bool"),
     Value("has_max", "bool")}

IntegerRuleNew ==
    [minimum |-> 0, maximum |-> 0, default_ |-> 0, required |-> FALSE,
     has_default |-> FALSE, has_min |-> FALSE, has_max |-> FALSE]

IntegerRuleCleared ==
    {"minimum", "maximum", "default_", "required", "has_default", "has_min",
     "has_max"}

IntegerRuleReads ==
    {<<8, Value("required", "bool")>>, <<16, Value("minimum", "int64")>>,
     <<24, Value("maximum", "int64")>>, <<32, Value("default_", "int64")>>,
     <<40, Value("has_default", "bool")>>, <<48, Value("has_min", "bool")>>,
     <<56, Value("has_max", "bool")>>}

IntegerRuleWrites ==
    << <<1, Value("required", "bool")>>, <<2, Value("minimum", "int64")>>,
       <<3, Value("maximum", "int64")>>, <<4, Value("default_", "int64")>>,
       <<5, Value("has_default", "bool")>>, <<6, Value("has_min", "bool")>>,
       <<7, Value("has_max", "bool")>> >>

IntegerRuleSizes ==
    {<<1, Value("required", "bool")>>, <<1, Value("minimum", "int64")>>,
     <<1, Value("maximum", "int64")>>, <<1, Value("default_", "int64")>>,
     <<1, Value("has_default", "bool")>>, <<1, Value("has_min", "bool")>>,
     <<1, Value("has_max", "bool")>>}

IntegerRuleMerges ==
    {Value("required", "bool"), Value("minimum", "int64"),
     Value("maximum", "int64"), Value("default_", "int64"),
     Value("has_default", "bool"), Value("has_min", "bool"),
     Value("has_max", "bool")}

-----------------------------------------------------------------------------
IntegerPolicyMembers ==
    {Mapped("rules", "IntegerPolicy_RulesEntry"), Repeated("key", "text")}

IntegerPolicyNew == [rules |-> <<>>, key |-> <<>>]

IntegerPolicyCleared ==
    {"rules", "key"}

IntegerPolicyReads ==
    {<<10, Mapped("rules", "IntegerPolicy_RulesEntry")>>,
     <<18, Repeated("key", "string")>>}

IntegerPolicyWrites ==
    << <<1, Mapped("rules", "IntegerPolicy_RulesEntry")>>,
       <<2, Repeated("key", "string")>> >>

IntegerPolicySizes ==
    {<<1, Mapped("rules", "IntegerPolicy_RulesEntry")>>,
     <<1, Repeated("key", "string")>>}

IntegerPolicyMerges ==
    {Mapped("rules", "IntegerPolicy_RulesEntry"), Repeated("key", "text")}

-----------------------------------------------------------------------------
StringRuleMembers ==
    {Value("default_", "text"), Value("required", "bool"),
     Value("has_default", "bool")}

StringRuleNew == [default_ |-> "", required |-> FALSE, has_default |-> FALSE]

StringRuleCleared ==
    {"default_", "required", "has_default"}

StringRuleReads ==
    {<<8, Value("required", "bool")>>, <<18, Value("default_", "string")>>,
     <<24, Value("has_default", "bool")>>}

StringRuleWrites ==
    << <<1, Value("required", "bool")>>, <<2, Value("default_", "string")>>,
       <<3, Value("has_default", "bool")>> >>

StringRuleSizes ==
    {<<1, Value("required", "bool")>>, <<1, Value("default_", "string")>>,
     <<1, Value("has_default", "bool")>>}

StringRuleMerges ==
    {Value("required", "bool"), Value("default_", "text"),
     Value("has_default", "bool")}

-----------------------------------------------------------------------------
StringPolicyMembers ==
    {Mapped("rules", "StringPolicy_RulesEntry"), Repeated("key", "text")}

StringPolicyNew == [rules |-> <<>>, key |-> <<>>]

StringPolicyCleared ==
    {"rules", "key"}

StringPolicyReads ==
    {<<10, Mapped("rules", "StringPolicy_RulesEntry")>>,
     <<18, Repeated("key", "string")>>}

StringPolicyWrites ==
    << <<1, Mapped("rules", "StringPolicy_RulesEntry")>>,
       <<2, Repeated("key", "string")>> >>

StringPolicySizes ==
    {<<1, Mapped("rules", "StringPolicy_RulesEntry")>>,
     <<1, Repeated("key", "string")>>}

StringPolicyMerges ==
    {Mapped("rules", "StringPolicy_RulesEntry"), Repeated("key", "text")}

-----------------------------------------------------------------------------
GetConfigPolicyReplyMembers ==
    {Value("error", "text"),
     Mapped("bool_policy", "GetConfigPolicyReply_BoolPolicyEntry"),
     Mapped("float_policy", "GetConfigPolicyReply_FloatPolicyEntry"),
     Mapped("integer_policy", "GetConfigPolicyReply_IntegerPolicyEntry"),
     Mapped("string_policy", "GetConfigPolicyReply_StringPolicyEntry")}

GetConfigPolicyReplyNew ==
    [error |-> "", bool_policy |-> <<>>, float_policy |-> <<>>,
     integer_policy |-> <<>>, string_policy |-> <<>>]

GetConfigPolicyReplyCleared ==
    {"error", "bool_policy", "float_policy", "integer_policy", "string_policy"}

GetConfigPolicyReplyReads ==
    {<<10, Value("error", "string")>>,
     <<18, Mapped("bool_policy", "GetConfigPolicyReply_BoolPolicyEntry")>>,
     <<26, Mapped("float_policy", "GetConfigPolicyReply_FloatPolicyEntry")>>,
     <<34, Mapped("integer_policy", "GetConfigPolicyReply_IntegerPolicyEntry")>>,
     <<42, Mapped("string_policy", "GetConfigPolicyReply_StringPolicyEntry")>>}

GetConfigPolicyReplyWrites ==
    << <<1, Value("error", "string")>>,
       <<2, Mapped("bool_policy", "GetConfigPolicyReply_BoolPolicyEntry")>>,
       <<3, Mapped("float_policy", "GetConfigPolicyReply_FloatPolicyEntry")>>,
       <<4, Mapped("integer_policy", "GetConfigPolicyReply_IntegerPolicyEntry")>>,
       <<5, Mapped("string_policy", "GetConfigPolicyReply_StringPolicyEntry")>> >>

GetConfigPolicyReplyWritesToArray ==
    << <<1, Value("error", "string")>>,
       <<2, Mapped("bool_policy", "GetConfigPolicyReply_BoolPolicyEntry")>>,
       <<3, Mapped("float_policy", "GetConfigPolicyReply_FloatPolicyEntry")>>,
       <<4, Mapped("integer_policy", "GetConfigPolicyReply_IntegerPolicyEntry")>>,
       <<5, Mapped("string_policy", "GetConfigPolicyReply_StringPolicyEntry")>> >>

GetConfigPolicyReplySizes ==
    {<<1, Value("error", "string")>>,
     <<1, Mapped("bool_policy", "GetConfigPolicyReply_BoolPolicyEntry")>>,
     <<1, Mapped("float_policy", "GetConfigPolicyReply_FloatPolicyEntry")>>,
     <<1, Mapped("integer_policy", "GetConfigPolicyReply_IntegerPolicyEntry")>>,
     <<1, Mapped("string_policy", "GetConfigPolicyReply_StringPolicyEntry")>>}

GetConfigPolicyReplyMerges ==
    {Mapped("bool_policy", "GetConfigPolicyReply_BoolPolicyEntry"),
     Mapped("float_policy", "GetConfigPolicyReply_FloatPolicyEntry"),
     Mapped("integer_policy", "GetConfigPolicyReply_IntegerPolicyEntry"),
     Mapped("string_policy", "GetConfigPolicyReply_StringPolicyEntry"),
     Value("error", "text")}

=============================================================================
