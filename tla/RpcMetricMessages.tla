-------------------------- MODULE RpcMetricMessages ---------------------------
(***************************************************************************)
(* The messages of rpc/plugin.pb.h and plugin.pb.cc that carry metrics and *)
(* configs.  For each: the members of its class, the fields that the       *)
(* constructor and Clear reset, and, by field, what its parser, its two    *)
(* serializers, ByteSize and MergeFrom do, each as its own code says it.   *)
(***************************************************************************)
EXTENDS RpcFields

-----------------------------------------------------------------------------
TimeMembers ==
    {Value("sec", "int64"), Value("nsec", "int64")}

TimeNew == [sec |-> 0, nsec |-> 0]

TimeCleared ==
    {"sec", "nsec"}

TimeReads ==
    {<<8, Value("sec", "int64")>>, <<16, Value("nsec", "int64")>>}

TimeWrites ==
    << <<1, Value("sec", "int64")>>, <<2, Value("nsec", "int64")>> >>

\* A form of the next definition that a plausible slip would have given.
TimeSizesHalf ==
    {<<1, Value("sec", "int64")>>}

TimeSizes ==
    {<<1, Value("sec", "int64")>>, <<1, Value("nsec", "int64")>>}

TimeMerges ==
    {Value("sec", "int64"), Value("nsec", "int64")}

-----------------------------------------------------------------------------
NamespaceElementMembers ==
    {Value("value", "text"), Value("description", "text"),
     Value("name", "text")}

NamespaceElementNew == [value |-> "", description |-> "", name |-> ""]

NamespaceElementCleared ==
    {"value", "description", "name"}

\* A form of the next definition that a plausible slip would have given.
NamespaceElementReadsSwapped ==
    {<<10, Value("value", "string")>>, <<18, Value("name", "string")>>,
     <<26, Value("description", "string")>>}

NamespaceElementReads ==
    {<<10, Value("value", "string")>>, <<18, Value("description", "string")>>,
     <<26, Value("name", "string")>>}

NamespaceElementWrites ==
    << <<1, Value("value", "string")>>, <<2, Value("description", "string")>>,
       <<3, Value("name", "string")>> >>

NamespaceElementSizes ==
    {<<1, Value("value", "string")>>, <<1, Value("description", "string")>>,
     <<1, Value("name", "string")>>}

NamespaceElementMerges ==
    {Value("value", "text"), Value("description", "text"),
     Value("name", "text")}

-----------------------------------------------------------------------------
ConfigMapMembers ==
    {Mapped("intmap", "ConfigMap_IntMapEntry"),
     Mapped("stringmap", "ConfigMap_StringMapEntry"),
     Mapped("floatmap", "ConfigMap_FloatMapEntry"),
     Mapped("boolmap", "ConfigMap_BoolMapEntry")}

ConfigMapNew ==
    [intmap |-> <<>>, stringmap |-> <<>>, floatmap |-> <<>>, boolmap |-> <<>>]

ConfigMapCleared ==
    {"intmap", "stringmap", "floatmap", "boolmap"}

ConfigMapReads ==
    {<<10, Mapped("intmap", "ConfigMap_IntMapEntry")>>,
     <<18, Mapped("stringmap", "ConfigMap_StringMapEntry")>>,
     <<26, Mapped("floatmap", "ConfigMap_FloatMapEntry")>>,
     <<34, Mapped("boolmap", "ConfigMap_BoolMapEntry")>>}

ConfigMapWrites ==
    << <<1, Mapped("intmap", "ConfigMap_IntMapEntry")>>,
       <<2, Mapped("stringmap", "ConfigMap_StringMapEntry")>>,
       <<3, Mapped("floatmap", "ConfigMap_FloatMapEntry")>>,
       <<4, Mapped("boolmap", "ConfigMap_BoolMapEntry")>> >>

ConfigMapWritesToArray ==
    << <<1, Mapped("intmap", "ConfigMap_IntMapEntry")>>,
       <<2, Mapped("stringmap", "ConfigMap_StringMapEntry")>>,
       <<3, Mapped("floatmap", "ConfigMap_FloatMapEntry")>>,
       <<4, Mapped("boolmap", "ConfigMap_BoolMapEntry")>> >>

ConfigMapSizes ==
    {<<1, Mapped("intmap", "ConfigMap_IntMapEntry")>>,
     <<1, Mapped("stringmap", "ConfigMap_StringMapEntry")>>,
     <<1, Mapped("floatmap", "ConfigMap_FloatMapEntry")>>,
     <<1, Mapped("boolmap", "ConfigMap_BoolMapEntry")>>}

ConfigMapMerges ==
    {Mapped("intmap", "ConfigMap_IntMapEntry"),
     Mapped("stringmap", "ConfigMap_StringMapEntry"),
     Mapped("floatmap", "ConfigMap_FloatMapEntry"),
     Mapped("boolmap", "ConfigMap_BoolMapEntry")}

-----------------------------------------------------------------------------
MetricDataMembers ==
    {Choice("data", "string_data", "text"),
     Choice("data", "float32_data", "float"),
     Choice("data", "float64_data", "double"),
     Choice("data", "int32_data", "int32"),
     Choice("data", "int64_data", "int64"),
     Choice("data", "bytes_data", "text"),
     Choice("data", "bool_data", "bool"),
     Choice("data", "uint32_data", "uint32"),
     Choice("data", "uint64_data", "uint64")}

MetricMembers ==
    {Repeated("namespace_", "NamespaceElement"), Value("version", "int64"),
     Message("config", "ConfigMap"), Message("lastadvertisedtime", "Time"),
     Mapped("tags", "Metric_TagsEntry"), Message("timestamp", "Time"),
     Value("unit", "text"), Value("description", "text")}
        \cup MetricDataMembers

MetricNew ==
    [namespace_ |-> <<>>, version |-> 0, config |-> <<>>,
     lastadvertisedtime |-> <<>>, tags |-> <<>>, timestamp |-> <<>>,
     unit |-> "", description |-> "", data |-> <<>>]

\* A form of the next definition that a plausible slip would have given.
MetricClearedButUnit ==
    {"namespace_", "version", "config", "lastadvertisedtime", "tags",
     "timestamp", "description", "data"}

MetricCleared ==
    {"namespace_", "version", "config", "lastadvertisedtime", "tags",
     "timestamp", "unit", "description", "data"}

MetricDataReads ==
    {<<74, Choice("data", "string_data", "string")>>,
     <<85, Choice("data", "float32_data", "float")>>,
     <<89, Choice("data", "float64_data", "double")>>,
     <<96, Choice("data", "int32_data", "int32")>>,
     <<104, Choice("data", "int64_data", "int64")>>,
     <<114, Choice("data", "bytes_data", "bytes")>>,
     <<120, Choice("data", "bool_data", "bool")>>,
     <<128, Choice("data", "uint32_data", "uint32")>>,
     <<136, Choice("data", "uint64_data", "uint64")>>}

MetricReads ==
    {<<10, Repeated("namespace_", "NamespaceElement")>>,
     <<16, Value("version", "int64")>>,
     <<26, Message("config", "ConfigMap")>>,
     <<34, Message("lastadvertisedtime", "Time")>>,
     <<42, Mapped("tags", "Metric_TagsEntry")>>,
     <<50, Message("timestamp", "Time")>>, <<58, Value("unit", "string")>>,
     <<66, Value("description", "string")>>}
        \cup MetricDataReads

MetricWrites ==
    << <<1, Repeated("namespace_", "NamespaceElement")>>,
       <<2, Value("version", "int64")>>,
       <<3, Message("config", "ConfigMap")>>,
       <<4, Message("lastadvertisedtime", "Time")>>,
       <<5, Mapped("tags", "Metric_TagsEntry")>>,
       <<6, Message("timestamp", "Time")>>, <<7, Value("unit", "string")>>,
       <<8, Value("description", "string")>>,
       <<9, Choice("data", "string_data", "string")>>,
       <<10, Choice("data", "float32_data", "float")>>,
       <<11, Choice("data", "float64_data", "double")>>,
       <<12, Choice("data", "int32_data", "int32")>>,
       <<13, Choice("data", "int64_data", "int64")>>,
       <<14, Choice("data", "bytes_data", "bytes")>>,
       <<15, Choice("data", "bool_data", "bool")>>,
       <<16, Choice("data", "uint32_data", "uint32")>>,
       <<17, Choice("data", "uint64_data", "uint64")>> >>

MetricWritesToArray ==
    << <<1, Repeated("namespace_", "NamespaceElement")>>,
       <<2, Value("version", "int64")>>,
       <<3, Message("config", "ConfigMap")>>,
       <<4, Message("lastadvertisedtime", "Time")>>,
       <<5, Mapped("tags", "Metric_TagsEntry")>>,
       <<6, Message("timestamp", "Time")>>, <<7, Value("unit", "string")>>,
       <<8, Value("description", "string")>>,
       <<9, Choice("data", "string_data", "string")>>,
       <<10, Choice("data", "float32_data", "float")>>,
       <<11, Choice("data", "float64_data", "double")>>,
       <<12, Choice("data", "int32_data", "int32")>>,
       <<13, Choice("data", "int64_data", "int64")>>,
       <<14, Choice("data", "bytes_data", "bytes")>>,
       <<15, Choice("data", "bool_data", "bool")>>,
       <<16, Choice("data", "uint32_data", "uint32")>>,
       <<17, Choice("data", "uint64_data", "uint64")>> >>

MetricSizes ==
    {<<1, Value("version", "int64")>>, <<1, Message("config", "ConfigMap")>>,
     <<1, Message("lastadvertisedtime", "Time")>>,
     <<1, Message("timestamp", "Time")>>, <<1, Value("unit", "string")>>,
     <<1, Value("description", "string")>>,
     <<1, Repeated("namespace_", "NamespaceElement")>>,
     <<1, Mapped("tags", "Metric_TagsEntry")>>,
     <<1, Choice("data", "string_data", "string")>>,
     <<1, Choice("data", "float32_data", "float")>>,
     <<1, Choice("data", "float64_data", "double")>>,
     <<1, Choice("data", "int32_data", "int32")>>,
     <<1, Choice("data", "int64_data", "int64")>>,
     <<1, Choice("data", "bytes_data", "bytes")>>,
     <<1, Choice("data", "bool_data", "bool")>>,
     <<2, Choice("data", "uint32_data", "uint32")>>,
     <<2, Choice("data", "uint64_data", "uint64")>>}

MetricMerges ==
    {Repeated("namespace_", "NamespaceElement"),
     Mapped("tags", "Metric_TagsEntry"),
     Choice("data", "string_data", "text"),
     Choice("data", "float32_data", "float"),
     Choice("data", "float64_data", "double"),
     Choice("data", "int32_data", "int32"),
     Choice("data", "int64_data", "int64"),
     Choice("data", "bytes_data", "text"),
     Choice("data", "bool_data", "bool"),
     Choice("data", "uint32_data", "uint32"),
     Choice("data", "uint64_data", "uint64"), Value("version", "int64"),
     Message("config", "ConfigMap"), Message("lastadvertisedtime", "Time"),
     Message("timestamp", "Time"), Value("unit", "text"),
     Value("description", "text")}

=============================================================================
