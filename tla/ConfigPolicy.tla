---------------------------- MODULE ConfigPolicy -----------------------------
(***************************************************************************)
(* The data of Plugin::ConfigPolicy and Plugin::Config (config.h,          *)
(* config.cc): the rules of a plugin and the values it is given.           *)
(***************************************************************************)
CONSTANTS Namespaces,  \* keys of the policies, as build_key writes them
          Keys,        \* names of the values
          Values,      \* of any type
          None         \* no rule, no value

ASSUME NoneAssumption ==
    None \notin Values \cup [key: Keys, required: BOOLEAN, default: Values \cup {None}]

Kinds == {"string", "integer", "bool"}

\* Each of Rule's constructors makes a policy of one rule; the limits of
\* an integer are never looked at by the library.
Rules == [key: Keys, required: BOOLEAN, default: Values \cup {None}]

Policies == [Kinds -> [Namespaces -> Rules \cup {None}]]
ConfigMaps == [Kinds -> [Keys -> Values \cup {None}]]

EmptyPolicy == [kind \in Kinds |-> [ns \in Namespaces |-> None]]

\* (*policy_ptr)[key] = rule takes the place of what the namespace had.
AddRule(policy, kind, ns, rule) == [policy EXCEPT ![kind][ns] = rule]

RulesOf(policy, kind) == {policy[kind][ns]: ns \in Namespaces} \ {None}

Defaults(policy, kind, k) ==
    {r.default: r \in {r \in RulesOf(policy, kind): r.key = k}} \ {None}

\* Forms of definitions below that plausible slips would have given.
DefaultsWin(cfg, policy, kind, k) ==
    LET defaults == Defaults(policy, kind, k)
    IN  IF defaults = {} THEN {cfg[kind][k]} ELSE defaults

MissingIntegersOnly(cfg, policy) ==
    {r.key: r \in {r \in RulesOf(policy, "integer"): 
                        r.required /\ cfg["integer"][r.key] = None}}

(***************************************************************************)
(* apply_defaults sets a default where the map has no value.  If rules of  *)
(* several namespaces have one for the same key, the first that is met     *)
(* sets it; the order in which a protobuf Map is walked is not specified.  *)
(***************************************************************************)
ValuesAfter(cfg, policy, kind, k) ==
    LET defaults == Defaults(policy, kind, k)
    IN  IF cfg[kind][k] # None THEN {cfg[kind][k]}
        ELSE IF defaults = {} THEN {None} ELSE defaults

MapsAfter(cfg, policy, kind) ==
    {m \in [Keys -> Values \cup {None}]: \A k \in Keys: m[k] \in ValuesAfter(cfg, policy, kind, k)}

ApplyDefaults(cfg, policy) ==
    {c \in [Kinds -> UNION {MapsAfter(cfg, policy, kind): kind \in Kinds}]:
        \A kind \in Kinds: c[kind] \in MapsAfter(cfg, policy, kind)}

\* check_for_missing_requirements looks for each required key in stringmap,
\* three times, whatever the kind of its rule.
Missing(cfg, policy) ==
    {r.key: r \in {r \in UNION {RulesOf(policy, kind): kind \in Kinds}:
                        r.required /\ cfg["string"][r.key] = None}}
=============================================================================
