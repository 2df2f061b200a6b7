------------------------------- MODULE Metric --------------------------------
(***************************************************************************)
(* Plugin::Metric (metric.h, metric.cc): an object around an rpc::Metric,  *)
(* its own or one of a message of Snap; memoised copies of the namespace   *)
(* and of the tags; and a Config that refers to the config map of an       *)
(* rpc::Metric or, where that has none, to the one default instance of     *)
(* rpc::ConfigMap.  The rpc::Metrics live in cells of the heap, each with  *)
(* its config map; cells are used again once they are freed.               *)
(***************************************************************************)
EXTENDS Integers, Sequences

CONSTANTS Objects,     \* the variables of type Metric
          Cells,       \* where an rpc::Metric may be
          Namespaces,  \* sequences of namespace elements
          Keys, TagValues,
          DataTypes,   \* the alternatives of the datum
          NotSet,      \* the one of a datum never set
          Configs,     \* contents of a config map
          NoConfig,    \* the empty one
          Times,       \* time points, as counts of ticks since the epoch
          Den,         \* std::nano::den, the ticks of a second
          Nothing      \* no object, no rpc::Metric, no tag, no config map

VARIABLES heap,            \* heap[c]: the rpc::Metric in cell c, or Nothing
          obj,             \* obj[o]: the members of the Metric o, or Nothing
          default_config   \* the default instance of rpc::ConfigMap

vars == <<heap, obj, default_config>>

TagMaps == [Keys -> TagValues \cup {Nothing}]
NoTags == [k \in Keys |-> Nothing]
TimeFields == {"timestamp", "lastadvertisedtime"}
RpcTimes == [sec: Nat, nsec: 0..Den - 1]

RpcMetrics == [ns: Namespaces, tags: TagMaps, data: DataTypes,
               config: Configs \cup {Nothing}, timestamp: RpcTimes, lastadvertisedtime: RpcTimes]

\* A Config refers to the map of a cell, or (Nothing) to the default instance.
Members == [rpc: Cells, owned: BOOLEAN, config: Cells \cup {Nothing},
            memo_ns: Namespaces, memo_tags: TagMaps]

\* What the getters show of a Metric.
Shown == [ns: Namespaces, tags: TagMaps, data: DataTypes,
          timestamp: Nat, lastadvertisedtime: Nat]

ASSUME MetricAssumption ==
    /\ <<>> \in Namespaces /\ NotSet \in DataTypes /\ NoConfig \in Configs
    /\ Den \in Nat \ {0} /\ Times \subseteq Nat /\ 0 \in Times
    /\ Nothing \notin RpcMetrics \cup Members \cup Shown \cup Configs \cup Cells

Exists(o) == obj[o] # Nothing
Free(c) == heap[c] = Nothing
Rpc(o) == heap[obj[o].rpc]

\* rpc::Time counts seconds and the nanoseconds left over.
ToRpc(t) == [sec |-> t \div Den, nsec |-> t % Den]
FromRpc(r) == r.sec * Den + r.nsec

(***************************************************************************)
(* Forms of definitions below that a plausible slip would have given.      *)
(***************************************************************************)
MemoNotCleared(o, n) == obj[o].memo_ns \o n
SharesCell(o, p) == {obj[p].rpc}

-----------------------------------------------------------------------------
\* What rpc_metric_ptr->config() refers to.
ConfigOf(c, m) == IF m.config = Nothing THEN Nothing ELSE c

NewMembers(c, own, cfg) == [rpc |-> c, owned |-> own, config |-> cfg,
                            memo_ns |-> <<>>, memo_tags |-> NoTags]

Blank == [ns |-> <<>>, tags |-> NoTags, data |-> NotSet, config |-> Nothing,
          timestamp |-> ToRpc(0), lastadvertisedtime |-> ToRpc(0)]

\* Metric() and, with set_ns, Metric(ns, unit, description).
Construct(o, n) ==
    \E c \in Cells:
        /\ ~Exists(o) /\ Free(c)
        /\ heap' = [heap EXCEPT ![c] = [Blank EXCEPT !.ns = n]]
        /\ obj' = [obj EXCEPT ![o] = [NewMembers(c, TRUE, ConfigOf(c, Blank))
                                    EXCEPT !.memo_ns = n]]
    /\ UNCHANGED default_config

\* Metric(rpc::Metric*) around the metric m of a message, as the proxies do.
Wrap(o, m) ==
    \E c \in Cells:
        /\ ~Exists(o) /\ Free(c)
        /\ heap' = [heap EXCEPT ![c] = m]
        /\ obj' = [obj EXCEPT ![o] = NewMembers(c, FALSE, ConfigOf(c, m))]
    /\ UNCHANGED default_config

\* Where new rpc::Metric puts the copy's.
CopyCell(o, p) == {c \in Cells: Free(c)}

\* Metric(const Metric&): the copy's Config refers to the original's map.
Copy(o, p) ==
    /\ ~Exists(o) /\ Exists(p)
    /\ \E c \in CopyCell(o, p):
          /\ heap' = [heap EXCEPT ![c] = Rpc(p)]
          /\ obj' = [obj EXCEPT ![o] = NewMembers(c, TRUE, obj[p].config)]
    /\ UNCHANGED default_config

\* ~Metric frees the rpc::Metric that is its own; one of a message goes with
\* the message, which ends together with the handler's Metrics around it.
Destroy(o) ==
    /\ Exists(o)
    /\ heap' = [heap EXCEPT ![obj[o].rpc] = Nothing]
    /\ obj' = [obj EXCEPT ![o] = Nothing]
    /\ UNCHANGED default_config

\* memo_ns.clear() and a push_back for each element.
MemoAfter(o, n) == n

set_ns(o, n) ==
    /\ Exists(o)
    /\ heap' = [heap EXCEPT ![obj[o].rpc].ns = n]
    /\ obj' = [obj EXCEPT ![o].memo_ns = MemoAfter(o, n)]
    /\ UNCHANGED default_config

\* ns() returns memo_ns, filled from the rpc::Metric when it is empty.
ShownNs(o) == IF obj[o].memo_ns # <<>> THEN obj[o].memo_ns ELSE Rpc(o).ns

ns(o) ==
    /\ Exists(o)
    /\ obj' = [obj EXCEPT ![o].memo_ns = ShownNs(o)]
    /\ UNCHANGED <<heap, default_config>>

\* The memo_tags that add_tag empties is a local variable of it.
add_tag(o, k, t) ==
    /\ Exists(o)
    /\ heap' = [heap EXCEPT ![obj[o].rpc].tags[k] = t]
    /\ UNCHANGED <<obj, default_config>>

ShownTags(o) == IF obj[o].memo_tags # NoTags THEN obj[o].memo_tags ELSE Rpc(o).tags

tags(o) ==
    /\ Exists(o)
    /\ obj' = [obj EXCEPT ![o].memo_tags = ShownTags(o)]
    /\ UNCHANGED <<heap, default_config>>

set_data(o, d) ==
    /\ Exists(o)
    /\ heap' = [heap EXCEPT ![obj[o].rpc].data = d]
    /\ UNCHANGED <<obj, default_config>>

\* set_timestamp and set_last_advertised_time
set_time(o, field, t) ==
    /\ Exists(o)
    /\ heap' = [heap EXCEPT ![obj[o].rpc][field] = ToRpc(t)]
    /\ UNCHANGED <<obj, default_config>>

\* The map that config refers to is gone once its rpc::Metric is freed.
Dangling(o) ==
    LET c == obj[o].config IN c # Nothing /\ (Free(c) \/ heap[c].config = Nothing)

\* Config::operator= assigns the map that is referred to.  An assignment to one
\* that is gone changes nothing that can be read, until the cell is used again.
set_diagnostic_config(o, g) ==
    LET c == obj[o].config
    IN  /\ Exists(o)
        /\ default_config' = IF c = Nothing THEN g ELSE default_config
        /\ heap' = IF c = Nothing \/ Dangling(o) THEN heap ELSE [heap EXCEPT ![c].config = g]
        /\ UNCHANGED obj

\* A metric as Snap may send it.
Messages ==
    LET RpcTimesSent == {ToRpc(t): t \in Times}
    IN  [ns: Namespaces, tags: TagMaps, data: DataTypes,
         config: Configs \cup {Nothing}, timestamp: RpcTimesSent, lastadvertisedtime: RpcTimesSent]

Init ==
    /\ heap = [c \in Cells |-> Nothing]
    /\ obj = [o \in Objects |-> Nothing]
    /\ default_config = NoConfig

Next ==
    \E o \in Objects:
        \/ \E n \in Namespaces: Construct(o, n) \/ set_ns(o, n)
        \/ \E m \in Messages: Wrap(o, m)
        \/ \E p \in Objects: Copy(o, p)
        \/ Destroy(o) \/ ns(o) \/ tags(o)
        \/ \E k \in Keys, t \in TagValues: add_tag(o, k, t)
        \/ \E d \in DataTypes: set_data(o, d)
        \/ \E f \in TimeFields, t \in Times: set_time(o, f, t)
        \/ \E g \in Configs: set_diagnostic_config(o, g)

Spec == Init /\ [][Next]_vars
-----------------------------------------------------------------------------
TypeOK ==
    /\ heap \in [Cells -> RpcMetrics \cup {Nothing}]
    /\ obj \in [Objects -> Members \cup {Nothing}]
    /\ default_config \in Configs

\* Each object has an rpc::Metric of its own, and none is left without one.
CellsOwned ==
    /\ \A o \in Objects: Exists(o) => ~Free(obj[o].rpc)
    /\ \A o, p \in Objects: Exists(o) /\ Exists(p) /\ obj[o].rpc = obj[p].rpc => o = p
    /\ \A c \in Cells: ~Free(c) => \E o \in Objects: Exists(o) /\ obj[o].rpc = c

\* A memoised namespace is the one of the rpc::Metric.
NsMemoFresh == \A o \in Objects: Exists(o) => ShownNs(o) = Rpc(o).ns

\* What the getters read was stored by the setters.
TimesStored ==
    \A o \in Objects: Exists(o) => \A f \in TimeFields: \E t \in Times: Rpc(o)[f] = ToRpc(t)

MetricInv == TypeOK /\ CellsOwned /\ NsMemoFresh /\ TimesStored

\* A Metric behaves as a value, in what it shows of its namespace, its datum
\* and its times and in the tags it sends: copies are independent, wherever the
\* originals came from and whichever goes first, and what was set is read back.
ValueSeen(o) ==
    IF ~Exists(o) THEN Nothing
    ELSE [ns |-> ShownNs(o), tags |-> Rpc(o).tags, data |-> Rpc(o).data,
          timestamp |-> FromRpc(Rpc(o).timestamp),
          lastadvertisedtime |-> FromRpc(Rpc(o).lastadvertisedtime)]

AsValues == INSTANCE MetricValue WITH value <- [o \in Objects |-> ValueSeen(o)]

ImplementsMetricValue == AsValues!Spec

(***************************************************************************)
(* What the documentation says and the code does not do.                   *)
(***************************************************************************)
\* "It also invalidates the memoization cache of the tags if it is present."
\* (add_tag, metric.h): tags() shows what has been added.
TagsMemoFresh == \A o \in Objects: Exists(o) => ShownTags(o) = Rpc(o).tags

\* What get_config() shows.
ShownConfig(o) == IF obj[o].config = Nothing THEN default_config ELSE heap[obj[o].config].config

\* "set_diagnostic_config is used to apply generated config to specific metric."
\* (metric.h): the config of every other metric stays what it was.
AppliesToItsMetric ==
    [][\A o \in Objects, g \in Configs:
          set_diagnostic_config(o, g) =>
              \A p \in Objects \ {o}:
                  Exists(p) /\ ~Dangling(p) => ShownConfig(p)' = ShownConfig(p)]_vars
=============================================================================
