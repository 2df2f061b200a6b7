----------------------------- MODULE MetricValue -----------------------------
(***************************************************************************)
(* What Plugin::Metric promises the code that handles metrics: each object *)
(* holds a value of its own, a copy has the value of its original and then *)
(* goes its own way, and what is read back is what was set.                *)
(***************************************************************************)
CONSTANTS Objects,     \* the variables of type Metric
          Namespaces,  \* sequences of namespace elements
          Keys, TagValues,
          DataTypes,   \* the alternatives of the datum, NotSet among them
          Times,       \* time points, as counts of ticks since the epoch
          Nothing      \* no object, no tag

VARIABLE value         \* value[o], or Nothing while o does not exist

TagMaps == [Keys -> TagValues \cup {Nothing}]
TimeFields == {"timestamp", "lastadvertisedtime"}

Values == [ns: Namespaces, tags: TagMaps, data: DataTypes,
           timestamp: Times, lastadvertisedtime: Times]

Exists(o) == value[o] # Nothing

Create(o, v) == ~Exists(o) /\ value' = [value EXCEPT ![o] = v]
Copy(o, p) == ~Exists(o) /\ Exists(p) /\ value' = [value EXCEPT ![o] = value[p]]
Destroy(o) == Exists(o) /\ value' = [value EXCEPT ![o] = Nothing]

Set(o, field, x) == Exists(o) /\ value' = [value EXCEPT ![o] = [@ EXCEPT ![field] = x]]
AddTag(o, k, t) ==
    Exists(o) /\ value' = [value EXCEPT ![o] = [@ EXCEPT !.tags[k] = t]]

Init == value = [o \in Objects |-> Nothing]

Next ==
    \E o \in Objects:
        \/ \E v \in Values: Create(o, v)
        \/ \E p \in Objects: Copy(o, p)
        \/ Destroy(o)
        \/ \E n \in Namespaces: Set(o, "ns", n)
        \/ \E d \in DataTypes: Set(o, "data", d)
        \/ \E f \in TimeFields, t \in Times: Set(o, f, t)
        \/ \E k \in Keys, t \in TagValues: AddTag(o, k, t)

Spec == Init /\ [][Next]_value
=============================================================================
