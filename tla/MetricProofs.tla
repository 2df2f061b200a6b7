---------------------------- MODULE MetricProofs -----------------------------
(***************************************************************************)
(* Plugin::Metric behaves as a value: proofs for any objects, cells and    *)
(* data.                                                                   *)
(***************************************************************************)
EXTENDS Metric, TLAPS

LEMMA Division ==
    ASSUME NEW t \in Nat, NEW d \in Nat \ {0}
    PROVE  /\ t \div d \in Nat
           /\ t % d \in 0..d - 1
           /\ (t \div d) * d + (t % d) = t
OBVIOUS

\* Nothing is lost when a time point is split into seconds and nanoseconds.
LEMMA TimeReadBack ==
    ASSUME NEW t \in Times
    PROVE  /\ ToRpc(t) \in RpcTimes
           /\ FromRpc(ToRpc(t)) = t
BY MetricAssumption, Division DEF ToRpc, FromRpc, RpcTimes
-----------------------------------------------------------------------------
TimesOf(m) == \A f \in TimeFields: \E t \in Times: m[f] = ToRpc(t)

LEMMA InitInv == Init => MetricInv
BY MetricAssumption DEF Init, MetricInv, TypeOK, CellsOwned, NsMemoFresh, TimesStored,
   Exists, Free

\* A new object takes a free cell.
LEMMA NewObject ==
    ASSUME MetricInv,
           NEW o \in Objects, ~Exists(o), NEW c \in Cells, Free(c),
           NEW m \in RpcMetrics, TimesOf(m),
           NEW b \in Members, b.rpc = c, b.memo_ns \in {<<>>, m.ns},
           heap' = [heap EXCEPT ![c] = m],
           obj' = [obj EXCEPT ![o] = b],
           UNCHANGED default_config
    PROVE  MetricInv'
<1>0. Nothing \notin RpcMetrics /\ Nothing \notin Members BY MetricAssumption
<1>1. TypeOK' BY DEF MetricInv, TypeOK
<1>2. obj'[o] = b /\ \A p \in Objects \ {o}: obj'[p] = obj[p]
  BY DEF MetricInv, TypeOK
<1>3. heap'[c] = m /\ \A d \in Cells \ {c}: heap'[d] = heap[d]
  BY DEF MetricInv, TypeOK
<1>4. \A p \in Objects: Exists(p) => obj[p].rpc \in Cells /\ obj[p].rpc # c
  BY <1>0 DEF MetricInv, TypeOK, CellsOwned, Exists, Free, Members
<1>5. CellsOwned'
  BY <1>0, <1>2, <1>3, <1>4 DEF MetricInv, CellsOwned, Exists, Free
<1>6. NsMemoFresh'
  BY <1>2, <1>3, <1>4 DEF MetricInv, NsMemoFresh, Exists, ShownNs, Rpc
<1>7. TimesStored'
  BY <1>2, <1>3, <1>4 DEF MetricInv, TimesStored, Exists, Rpc, TimesOf
<1> QED BY <1>1, <1>5, <1>6, <1>7 DEF MetricInv

\* An rpc::Metric changes, and not its namespace.
LEMMA CellUpdate ==
    ASSUME MetricInv,
           NEW c \in Cells, ~Free(c),
           NEW m \in RpcMetrics, TimesOf(m), m.ns = heap[c].ns,
           heap' = [heap EXCEPT ![c] = m],
           default_config' \in Configs,
           UNCHANGED obj
    PROVE  MetricInv'
<1>0. Nothing \notin RpcMetrics BY MetricAssumption
<1>1. TypeOK' BY DEF MetricInv, TypeOK
<1>2. heap'[c] = m /\ \A d \in Cells \ {c}: heap'[d] = heap[d]
  BY DEF MetricInv, TypeOK
<1>3. \A p \in Objects: Exists(p) => obj[p].rpc \in Cells
  BY DEF MetricInv, TypeOK, Exists, Members
<1>4. CellsOwned'
  BY <1>0, <1>2, <1>3 DEF MetricInv, CellsOwned, Exists, Free
<1>5. NsMemoFresh'
  BY <1>2, <1>3 DEF MetricInv, NsMemoFresh, Exists, ShownNs, Rpc
<1>6. TimesStored'
  BY <1>2, <1>3 DEF MetricInv, TimesStored, Exists, Rpc, TimesOf
<1> QED BY <1>1, <1>4, <1>5, <1>6 DEF MetricInv

\* What an object that exists has.
LEMMA Existing ==
    ASSUME MetricInv, NEW o \in Objects, Exists(o)
    PROVE  /\ obj[o] \in Members /\ obj[o].rpc \in Cells /\ ~Free(obj[o].rpc)
           /\ Rpc(o) = heap[obj[o].rpc] /\ Rpc(o) \in RpcMetrics /\ TimesOf(Rpc(o))
           /\ ShownNs(o) = Rpc(o).ns
           /\ \A p \in Objects: Exists(p) /\ p # o => obj[p].rpc # obj[o].rpc
BY DEF MetricInv, TypeOK, CellsOwned, NsMemoFresh, TimesStored, Exists, Free, Members,
   Rpc, TimesOf

LEMMA ConstructInv ==
    ASSUME MetricInv, NEW o \in Objects, NEW n \in Namespaces, Construct(o, n)
    PROVE  MetricInv'
<1>1. PICK c \in Cells:
         /\ ~Exists(o) /\ Free(c)
         /\ heap' = [heap EXCEPT ![c] = [Blank EXCEPT !.ns = n]]
         /\ obj' = [obj EXCEPT ![o] = [NewMembers(c, TRUE, ConfigOf(c, Blank))
                                          EXCEPT !.memo_ns = n]]
  BY DEF Construct
<1> DEFINE m == [Blank EXCEPT !.ns = n]
           b == [NewMembers(c, TRUE, ConfigOf(c, Blank)) EXCEPT !.memo_ns = n]
<1>2. 0 \in Times /\ ToRpc(0) \in RpcTimes BY TimeReadBack, MetricAssumption
<1>3. NoTags \in TagMaps BY DEF NoTags, TagMaps
<1>4. m \in RpcMetrics /\ m.ns = n /\ TimesOf(m)
  BY <1>2, <1>3, MetricAssumption DEF Blank, RpcMetrics, TimesOf, TimeFields
<1>5. b \in Members /\ b.rpc = c /\ b.memo_ns = n
  BY <1>3 DEF NewMembers, ConfigOf, Members
<1>6. UNCHANGED default_config BY DEF Construct
<1> HIDE DEF m, b
<1> QED BY <1>1, <1>4, <1>5, <1>6, NewObject DEF m, b

LEMMA MessageTyped ==
    ASSUME NEW m \in Messages
    PROVE  m \in RpcMetrics /\ TimesOf(m)
<1>1. \A t \in Times: ToRpc(t) \in RpcTimes BY TimeReadBack
<1> QED BY <1>1 DEF Messages, RpcMetrics, TimesOf, TimeFields

LEMMA NewMembersTyped ==
    ASSUME NEW c \in Cells, NEW own \in BOOLEAN, NEW g \in Cells \cup {Nothing}
    PROVE  /\ NewMembers(c, own, g) \in Members
           /\ NewMembers(c, own, g).rpc = c /\ NewMembers(c, own, g).memo_ns = <<>>
BY MetricAssumption DEF NewMembers, Members, NoTags, TagMaps

LEMMA WrapInv ==
    ASSUME MetricInv, NEW o \in Objects, NEW m \in Messages, Wrap(o, m)
    PROVE  MetricInv'
<1>1. PICK c \in Cells:
         /\ ~Exists(o) /\ Free(c)
         /\ heap' = [heap EXCEPT ![c] = m]
         /\ obj' = [obj EXCEPT ![o] = NewMembers(c, FALSE, ConfigOf(c, m))]
  BY DEF Wrap
<1>2. ConfigOf(c, m) \in Cells \cup {Nothing} BY DEF ConfigOf
<1> DEFINE b == NewMembers(c, FALSE, ConfigOf(c, m))
<1>3. b \in Members /\ b.rpc = c /\ b.memo_ns = <<>> BY <1>2, NewMembersTyped
<1>4. UNCHANGED default_config BY DEF Wrap
<1> HIDE DEF b
<1> QED BY <1>1, <1>3, <1>4, MessageTyped, NewObject DEF b

LEMMA CopyInv ==
    ASSUME MetricInv, NEW o \in Objects, NEW p \in Objects, Copy(o, p)
    PROVE  MetricInv'
<1>1. ~Exists(o) /\ Exists(p) /\ UNCHANGED default_config BY DEF Copy
<1>2. PICK c \in CopyCell(o, p):
         /\ heap' = [heap EXCEPT ![c] = Rpc(p)]
         /\ obj' = [obj EXCEPT ![o] = NewMembers(c, TRUE, obj[p].config)]
  BY DEF Copy
<1>3. c \in Cells /\ Free(c) BY DEF CopyCell
<1>4. Rpc(p) \in RpcMetrics /\ TimesOf(Rpc(p)) /\ obj[p].config \in Cells \cup {Nothing}
  BY <1>1, Existing DEF Members
<1> DEFINE b == NewMembers(c, TRUE, obj[p].config)
<1>5. b \in Members /\ b.rpc = c /\ b.memo_ns = <<>> BY <1>3, <1>4, NewMembersTyped
<1> HIDE DEF b
<1> QED BY <1>1, <1>2, <1>3, <1>4, <1>5, NewObject DEF b

LEMMA DestroyInv ==
    ASSUME MetricInv, NEW o \in Objects, Destroy(o)
    PROVE  MetricInv'
<1> DEFINE c == obj[o].rpc
<1>0. Nothing \notin RpcMetrics /\ Nothing \notin Members BY MetricAssumption
<1>1. Exists(o) /\ c \in Cells /\ UNCHANGED default_config BY Existing DEF Destroy
<1>2. obj'[o] = Nothing /\ \A p \in Objects \ {o}: obj'[p] = obj[p]
  BY DEF Destroy, MetricInv, TypeOK
<1>3. heap'[c] = Nothing /\ \A d \in Cells \ {c}: heap'[d] = heap[d]
  BY <1>1 DEF Destroy, MetricInv, TypeOK
<1>4. \A p \in Objects: p # o /\ Exists(p) => obj[p].rpc \in Cells /\ obj[p].rpc # c
  BY <1>1, Existing
<1>5. TypeOK' BY <1>1 DEF Destroy, MetricInv, TypeOK
<1>6. CellsOwned'
  BY <1>0, <1>1, <1>2, <1>3, <1>4 DEF MetricInv, CellsOwned, Exists, Free
<1>7. NsMemoFresh'
  BY <1>2, <1>3, <1>4 DEF MetricInv, NsMemoFresh, Exists, ShownNs, Rpc
<1>8. TimesStored'
  BY <1>2, <1>3, <1>4 DEF MetricInv, TimesStored, Exists, Rpc
<1> QED BY <1>5, <1>6, <1>7, <1>8 DEF MetricInv

LEMMA SetNsInv ==
    ASSUME MetricInv, NEW o \in Objects, NEW n \in Namespaces, set_ns(o, n)
    PROVE  MetricInv'
<1> DEFINE c == obj[o].rpc
<1>0. Nothing \notin RpcMetrics /\ Nothing \notin Members BY MetricAssumption
<1>1. /\ Exists(o) /\ c \in Cells /\ obj[o] \in Members
      /\ heap[c] \in RpcMetrics /\ UNCHANGED default_config
  BY Existing DEF set_ns
<1>2. obj' = [obj EXCEPT ![o] = [obj[o] EXCEPT !.memo_ns = n]]
  BY DEF set_ns, MemoAfter
<1>3. heap' = [heap EXCEPT ![c] = [heap[c] EXCEPT !.ns = n]] BY DEF set_ns
<1>4. [obj[o] EXCEPT !.memo_ns = n] \in Members BY <1>1 DEF Members
<1>5. [heap[c] EXCEPT !.ns = n] \in RpcMetrics BY <1>1 DEF RpcMetrics
<1>6. TypeOK' BY <1>1, <1>2, <1>3, <1>4, <1>5 DEF MetricInv, TypeOK
<1>7. /\ obj'[o] \in Members /\ obj'[o].rpc = c /\ obj'[o].memo_ns = n
      /\ \A p \in Objects \ {o}: obj'[p] = obj[p]
  BY <1>1, <1>2, <1>4 DEF MetricInv, TypeOK, Members
<1>8. /\ heap'[c] \in RpcMetrics /\ heap'[c].ns = n
      /\ \A f \in TimeFields: heap'[c][f] = heap[c][f]
      /\ \A d \in Cells \ {c}: heap'[d] = heap[d]
  BY <1>1, <1>3, <1>5 DEF MetricInv, TypeOK, RpcMetrics, TimeFields
<1>9. \A p \in Objects: p # o /\ Exists(p) => obj[p].rpc \in Cells /\ obj[p].rpc # c
  BY <1>1, Existing
<1>10. CellsOwned'
  BY <1>0, <1>1, <1>7, <1>8, <1>9 DEF MetricInv, CellsOwned, Exists, Free
<1>11. NsMemoFresh'
  BY <1>7, <1>8, <1>9 DEF MetricInv, NsMemoFresh, Exists, ShownNs, Rpc
<1>12. TimesStored'
  BY <1>1, <1>7, <1>8, <1>9 DEF MetricInv, TimesStored, Exists, Rpc
<1> QED BY <1>6, <1>10, <1>11, <1>12 DEF MetricInv

\* ns() and tags() change a memo of the object only.
LEMMA MemoInv ==
    ASSUME MetricInv, NEW o \in Objects, ns(o) \/ tags(o)
    PROVE  MetricInv'
<1>1. Exists(o) /\ UNCHANGED <<heap, default_config>> BY DEF ns, tags
<1>2. obj[o] \in Members /\ Rpc(o) \in RpcMetrics /\ ShownNs(o) = Rpc(o).ns
  BY <1>1, Existing
<1>3. Rpc(o).ns \in Namespaces /\ ShownTags(o) \in TagMaps
  BY <1>2 DEF RpcMetrics, ShownTags, Members
<1>4. /\ \/ obj' = [obj EXCEPT ![o] = [obj[o] EXCEPT !.memo_ns = Rpc(o).ns]]
         \/ obj' = [obj EXCEPT ![o] = [obj[o] EXCEPT !.memo_tags = ShownTags(o)]]
  BY <1>2 DEF ns, tags
<1>5. /\ obj'[o] \in Members /\ obj'[o].rpc = obj[o].rpc
      /\ obj'[o].memo_ns \in {obj[o].memo_ns, Rpc(o).ns}
      /\ \A p \in Objects \ {o}: obj'[p] = obj[p]
  BY <1>2, <1>3, <1>4 DEF MetricInv, TypeOK, Members
<1>6. TypeOK' BY <1>1, <1>4, <1>5 DEF MetricInv, TypeOK
<1>7. \A p \in Objects: Exists(p)' <=> Exists(p)
  BY <1>1, <1>5, MetricAssumption DEF Exists
<1>8. \A p \in Objects: Exists(p) => obj'[p].rpc = obj[p].rpc BY <1>5
<1>9. CellsOwned'
  BY <1>1, <1>7, <1>8 DEF MetricInv, CellsOwned, Exists, Free
<1>10. NsMemoFresh'
  BY <1>1, <1>5, <1>7, <1>8 DEF MetricInv, NsMemoFresh, Exists, ShownNs, Rpc
<1>11. TimesStored'
  BY <1>1, <1>7, <1>8 DEF MetricInv, TimesStored, Exists, Rpc
<1> QED BY <1>6, <1>9, <1>10, <1>11 DEF MetricInv

LEMMA AddTagInv ==
    ASSUME MetricInv, NEW o \in Objects, NEW k \in Keys, NEW t \in TagValues, add_tag(o, k, t)
    PROVE  MetricInv'
<1> DEFINE c == obj[o].rpc
           m == [heap[c] EXCEPT !.tags = [heap[c].tags EXCEPT ![k] = t]]
<1>1. Exists(o) /\ UNCHANGED <<obj, default_config>> BY DEF add_tag
<1>2. c \in Cells /\ ~Free(c) /\ heap[c] \in RpcMetrics /\ TimesOf(heap[c]) BY <1>1, Existing
<1>3. heap' = [heap EXCEPT ![c] = m] BY DEF add_tag
<1>4. m \in RpcMetrics /\ m.ns = heap[c].ns /\ TimesOf(m)
  BY <1>2 DEF RpcMetrics, TagMaps, TimesOf, TimeFields
<1>5. default_config' \in Configs BY <1>1 DEF MetricInv, TypeOK
<1> HIDE DEF c, m
<1> QED BY <1>1, <1>2, <1>3, <1>4, <1>5, CellUpdate

LEMMA SetDataInv ==
    ASSUME MetricInv, NEW o \in Objects, NEW d \in DataTypes, set_data(o, d)
    PROVE  MetricInv'
<1> DEFINE c == obj[o].rpc
           m == [heap[c] EXCEPT !.data = d]
<1>1. Exists(o) /\ UNCHANGED <<obj, default_config>> BY DEF set_data
<1>2. c \in Cells /\ ~Free(c) /\ heap[c] \in RpcMetrics /\ TimesOf(heap[c]) BY <1>1, Existing
<1>3. heap' = [heap EXCEPT ![c] = m] BY DEF set_data
<1>4. m \in RpcMetrics /\ m.ns = heap[c].ns /\ TimesOf(m)
  BY <1>2 DEF RpcMetrics, TimesOf, TimeFields
<1>5. default_config' \in Configs BY <1>1 DEF MetricInv, TypeOK
<1> HIDE DEF c, m
<1> QED BY <1>1, <1>2, <1>3, <1>4, <1>5, CellUpdate

LEMMA SetTimeInv ==
    ASSUME MetricInv, NEW o \in Objects, NEW f \in TimeFields, NEW t \in Times, set_time(o, f, t)
    PROVE  MetricInv'
<1> DEFINE c == obj[o].rpc
           m == [heap[c] EXCEPT ![f] = ToRpc(t)]
<1>1. Exists(o) /\ UNCHANGED <<obj, default_config>> BY DEF set_time
<1>2. c \in Cells /\ ~Free(c) /\ heap[c] \in RpcMetrics /\ TimesOf(heap[c]) BY <1>1, Existing
<1>3. heap' = [heap EXCEPT ![c] = m] BY DEF set_time
<1>4. m \in RpcMetrics /\ m.ns = heap[c].ns /\ TimesOf(m)
  BY <1>2, TimeReadBack DEF RpcMetrics, TimesOf, TimeFields
<1>5. default_config' \in Configs BY <1>1 DEF MetricInv, TypeOK
<1> HIDE DEF c, m
<1> QED BY <1>1, <1>2, <1>3, <1>4, <1>5, CellUpdate

\* Whichever config map is written, no namespace and no time changes.
LEMMA SetConfigInv ==
    ASSUME MetricInv, NEW o \in Objects, NEW g \in Configs, set_diagnostic_config(o, g)
    PROVE  MetricInv'
<1> DEFINE c == obj[o].config
           m == [heap[c] EXCEPT !.config = g]
<1>1. Exists(o) /\ UNCHANGED obj /\ default_config' \in Configs
  BY DEF set_diagnostic_config, MetricInv, TypeOK
<1>2. CASE heap' = heap
  BY <1>1, <1>2 DEF MetricInv, TypeOK, CellsOwned, NsMemoFresh, TimesStored, Exists, Free,
                    ShownNs, Rpc
<1>3. CASE c # Nothing /\ ~Dangling(o) /\ heap' = [heap EXCEPT ![c] = m]
  <2>1. c \in Cells /\ ~Free(c)
    BY <1>1, <1>3, Existing DEF Dangling, Members
  <2>2. heap[c] \in RpcMetrics BY <2>1 DEF MetricInv, TypeOK, Free
  <2>3. PICK p \in Objects: Exists(p) /\ obj[p].rpc = c
    BY <2>1 DEF MetricInv, CellsOwned
  <2>4. TimesOf(heap[c]) BY <2>3, Existing
  <2>5. m \in RpcMetrics /\ m.ns = heap[c].ns /\ TimesOf(m)
    BY <2>2, <2>4 DEF RpcMetrics, TimesOf, TimeFields
  <2> HIDE DEF c, m
  <2> QED BY <1>1, <1>3, <2>1, <2>5, CellUpdate
<1> QED BY <1>2, <1>3 DEF set_diagnostic_config

LEMMA StepInv == MetricInv /\ [Next]_vars => MetricInv'
<1> SUFFICES ASSUME MetricInv, [Next]_vars PROVE MetricInv'
  OBVIOUS
<1>1. CASE UNCHANGED vars
  BY <1>1 DEF vars, MetricInv, TypeOK, CellsOwned, NsMemoFresh, TimesStored, Exists, Free,
              ShownNs, Rpc
<1>2. CASE Next
  BY <1>2, ConstructInv, WrapInv, CopyInv, DestroyInv, SetNsInv, MemoInv, AddTagInv, SetDataInv,
     SetTimeInv, SetConfigInv DEF Next
<1> QED BY <1>1, <1>2

\* Each Metric owns or borrows an rpc::Metric of its own, its namespace memo is
\* never stale (set_ns, ns in metric.cc), and its times are what was set.
THEOREM MetricInvariant == Spec => []MetricInv
<1>1. Init => MetricInv BY InitInv
<1>2. MetricInv /\ [Next]_vars => MetricInv' BY StepInv
<1> QED BY <1>1, <1>2, PTL DEF Spec
-----------------------------------------------------------------------------
\* What is seen of an object is what its rpc::Metric says.
Seen(m) == [ns |-> m.ns, tags |-> m.tags, data |-> m.data,
            timestamp |-> FromRpc(m.timestamp),
            lastadvertisedtime |-> FromRpc(m.lastadvertisedtime)]

value == [o \in Objects |-> ValueSeen(o)]

LEMMA SeenTyped ==
    ASSUME NEW m \in RpcMetrics, TimesOf(m)
    PROVE  Seen(m) \in AsValues!Values /\ Seen(m) # Nothing
<1>1. FromRpc(m.timestamp) \in Times /\ FromRpc(m.lastadvertisedtime) \in Times
  BY TimeReadBack DEF TimesOf, TimeFields
<1>2. Seen(m) \in AsValues!Values
  BY <1>1 DEF Seen, RpcMetrics, AsValues!Values, AsValues!TagMaps, TagMaps
<1>3. Seen(m) \in Shown BY <1>1, MetricAssumption DEF Seen, RpcMetrics, Shown
<1> QED BY <1>2, <1>3, MetricAssumption

LEMMA SeenNow ==
    ASSUME MetricInv, NEW o \in Objects
    PROVE  value[o] = IF obj[o] = Nothing THEN Nothing ELSE Seen(heap[obj[o].rpc])
BY DEF value, ValueSeen, Exists, Rpc, Seen, MetricInv, NsMemoFresh

LEMMA SeenNext ==
    ASSUME MetricInv', NEW o \in Objects
    PROVE  value'[o] = IF obj'[o] = Nothing THEN Nothing ELSE Seen(heap'[obj'[o].rpc])
BY DEF value, ValueSeen, Exists, Rpc, Seen, MetricInv, NsMemoFresh

\* A step that leaves the other objects and their rpc::Metrics alone.
LEMMA OthersKeep ==
    ASSUME MetricInv, MetricInv', NEW o \in Objects,
           \A p \in Objects \ {o}:
              /\ obj'[p] = obj[p]
              /\ Exists(p) => heap'[obj[p].rpc] = heap[obj[p].rpc]
    PROVE  value' = [value EXCEPT ![o] = value'[o]]
<1>1. \A p \in Objects \ {o}: value'[p] = value[p] BY SeenNow, SeenNext DEF Exists
<1>2. value = [p \in Objects |-> value[p]] /\ value' = [p \in Objects |-> value'[p]]
  BY DEF value
<1> QED BY <1>1, <1>2

LEMMA NewObjectSeen ==
    ASSUME MetricInv, MetricInv',
           NEW o \in Objects, ~Exists(o), NEW c \in Cells, Free(c),
           NEW m \in RpcMetrics, TimesOf(m), NEW b \in Members, b.rpc = c,
           heap' = [heap EXCEPT ![c] = m],
           obj' = [obj EXCEPT ![o] = b]
    PROVE  value[o] = Nothing /\ value' = [value EXCEPT ![o] = Seen(m)]
<1>1. obj'[o] = b /\ \A p \in Objects \ {o}: obj'[p] = obj[p]
  BY DEF MetricInv, TypeOK
<1>2. heap'[c] = m /\ \A d \in Cells \ {c}: heap'[d] = heap[d]
  BY DEF MetricInv, TypeOK
<1>3. \A p \in Objects: Exists(p) => obj[p].rpc \in Cells /\ obj[p].rpc # c
  BY Existing
<1>4. value' = [value EXCEPT ![o] = value'[o]] BY <1>1, <1>2, <1>3, OthersKeep
<1>5. value'[o] = Seen(m) BY <1>1, <1>2, SeenNext, MetricAssumption
<1> QED BY <1>4, <1>5, SeenNow DEF Exists

\* A step that changes the rpc::Metric of an object, and maybe its memos.
LEMMA UpdateSeen ==
    ASSUME MetricInv, MetricInv',
           NEW o \in Objects, Exists(o), NEW m,
           heap' = [heap EXCEPT ![obj[o].rpc] = m],
           obj'[o] # Nothing, obj'[o].rpc = obj[o].rpc,
           \A p \in Objects \ {o}: obj'[p] = obj[p]
    PROVE  /\ value' = [value EXCEPT ![o] = Seen(m)]
           /\ value[o] = Seen(heap[obj[o].rpc]) /\ value[o] # Nothing
<1>1. obj[o].rpc \in Cells /\ heap[obj[o].rpc] \in RpcMetrics /\ TimesOf(heap[obj[o].rpc])
  BY Existing
<1>2. heap'[obj[o].rpc] = m /\ \A d \in Cells \ {obj[o].rpc}: heap'[d] = heap[d]
  BY <1>1 DEF MetricInv, TypeOK
<1>3. \A p \in Objects \ {o}: Exists(p) => obj[p].rpc \in Cells /\ obj[p].rpc # obj[o].rpc
  BY Existing
<1>4. value' = [value EXCEPT ![o] = value'[o]] BY <1>2, <1>3, OthersKeep
<1>5. value'[o] = Seen(m) BY <1>2, SeenNext
<1>6. value[o] = Seen(heap[obj[o].rpc]) BY SeenNow DEF Exists
<1> QED BY <1>1, <1>4, <1>5, <1>6, SeenTyped

LEMMA CreateRefines ==
    ASSUME MetricInv, MetricInv', NEW o \in Objects,
           \/ \E n \in Namespaces: Construct(o, n)
           \/ \E m \in Messages: Wrap(o, m)
    PROVE  AsValues!Next
<1>1. ASSUME NEW c \in Cells, ~Exists(o), Free(c), NEW m \in RpcMetrics, TimesOf(m),
             NEW b \in Members, b.rpc = c,
             heap' = [heap EXCEPT ![c] = m], obj' = [obj EXCEPT ![o] = b]
      PROVE  AsValues!Next
  <2>1. value[o] = Nothing /\ value' = [value EXCEPT ![o] = Seen(m)]
    BY <1>1, NewObjectSeen
  <2>2. Seen(m) \in AsValues!Values BY <1>1, SeenTyped
  <2>3. AsValues!Create(o, Seen(m))
    BY <2>1 DEF AsValues!Create, AsValues!Exists, value
  <2> QED BY <2>2, <2>3 DEF AsValues!Next
<1>2. ASSUME NEW n \in Namespaces, Construct(o, n) PROVE AsValues!Next
  <2>1. PICK c \in Cells:
           /\ ~Exists(o) /\ Free(c)
           /\ heap' = [heap EXCEPT ![c] = [Blank EXCEPT !.ns = n]]
           /\ obj' = [obj EXCEPT ![o] = [NewMembers(c, TRUE, ConfigOf(c, Blank))
                                            EXCEPT !.memo_ns = n]]
    BY <1>2 DEF Construct
  <2> DEFINE m == [Blank EXCEPT !.ns = n]
             b == [NewMembers(c, TRUE, ConfigOf(c, Blank)) EXCEPT !.memo_ns = n]
  <2>2. 0 \in Times /\ ToRpc(0) \in RpcTimes BY TimeReadBack, MetricAssumption
  <2>3. NoTags \in TagMaps BY DEF NoTags, TagMaps
  <2>4. m \in RpcMetrics /\ TimesOf(m)
    BY <2>2, <2>3, MetricAssumption DEF Blank, RpcMetrics, TimesOf, TimeFields
  <2>5. b \in Members /\ b.rpc = c BY <2>3 DEF NewMembers, ConfigOf, Members
  <2> HIDE DEF m, b
  <2> QED BY <1>1, <2>1, <2>4, <2>5 DEF m, b
<1>3. ASSUME NEW m \in Messages, Wrap(o, m) PROVE AsValues!Next
  <2>1. PICK c \in Cells:
           /\ ~Exists(o) /\ Free(c)
           /\ heap' = [heap EXCEPT ![c] = m]
           /\ obj' = [obj EXCEPT ![o] = NewMembers(c, FALSE, ConfigOf(c, m))]
    BY <1>3 DEF Wrap
  <2>2. ConfigOf(c, m) \in Cells \cup {Nothing} BY DEF ConfigOf
  <2> DEFINE b == NewMembers(c, FALSE, ConfigOf(c, m))
  <2>3. b \in Members /\ b.rpc = c BY <2>2, NewMembersTyped
  <2> HIDE DEF b
  <2> QED BY <1>1, <2>1, <2>3, MessageTyped DEF b
<1> QED BY <1>2, <1>3

LEMMA CopyRefines ==
    ASSUME MetricInv, MetricInv', NEW o \in Objects, NEW p \in Objects, Copy(o, p)
    PROVE  AsValues!Next
<1>1. ~Exists(o) /\ Exists(p) BY DEF Copy
<1>2. PICK c \in Cells:
         /\ Free(c)
         /\ heap' = [heap EXCEPT ![c] = Rpc(p)]
         /\ obj' = [obj EXCEPT ![o] = NewMembers(c, TRUE, obj[p].config)]
  BY DEF Copy, CopyCell
<1>3. Rpc(p) \in RpcMetrics /\ TimesOf(Rpc(p)) /\ obj[p].config \in Cells \cup {Nothing}
  BY <1>1, Existing DEF Members
<1> DEFINE b == NewMembers(c, TRUE, obj[p].config)
<1>4. b \in Members /\ b.rpc = c BY <1>3, NewMembersTyped
<1> HIDE DEF b
<1>5. value[o] = Nothing /\ value' = [value EXCEPT ![o] = Seen(Rpc(p))]
  BY <1>1, <1>2, <1>3, <1>4, NewObjectSeen DEF b
<1>6. value[p] = Seen(Rpc(p)) /\ value[p] # Nothing
  BY <1>1, <1>3, SeenNow, SeenTyped DEF Exists, Rpc
<1>7. AsValues!Copy(o, p)
  BY <1>5, <1>6 DEF AsValues!Copy, AsValues!Exists, value
<1> QED BY <1>7 DEF AsValues!Next

LEMMA DestroyRefines ==
    ASSUME MetricInv, MetricInv', NEW o \in Objects, Destroy(o)
    PROVE  AsValues!Next
<1>1. Exists(o) /\ obj[o].rpc \in Cells BY Existing DEF Destroy
<1>2. obj'[o] = Nothing /\ \A p \in Objects \ {o}: obj'[p] = obj[p]
  BY DEF Destroy, MetricInv, TypeOK
<1>3. \A d \in Cells \ {obj[o].rpc}: heap'[d] = heap[d]
  BY <1>1 DEF Destroy, MetricInv, TypeOK
<1>4. \A p \in Objects \ {o}: Exists(p) => obj[p].rpc \in Cells /\ obj[p].rpc # obj[o].rpc
  BY <1>1, Existing
<1>5. value' = [value EXCEPT ![o] = value'[o]] BY <1>2, <1>3, <1>4, OthersKeep
<1>6. value'[o] = Nothing BY <1>2, SeenNext
<1>7. value[o] # Nothing
  BY <1>1, Existing, SeenNow, SeenTyped DEF Exists, Rpc
<1>8. AsValues!Destroy(o)
  BY <1>5, <1>6, <1>7 DEF AsValues!Destroy, AsValues!Exists, value
<1> QED BY <1>8 DEF AsValues!Next

LEMMA SetNsRefines ==
    ASSUME MetricInv, MetricInv', NEW o \in Objects, NEW n \in Namespaces, set_ns(o, n)
    PROVE  AsValues!Next
<1> DEFINE c == obj[o].rpc
           m == [heap[c] EXCEPT !.ns = n]
<1>1. Exists(o) /\ heap[c] \in RpcMetrics /\ obj[o] \in Members
  BY Existing DEF set_ns
<1>2. heap' = [heap EXCEPT ![c] = m] BY DEF set_ns
<1>3. obj'[o] = [obj[o] EXCEPT !.memo_ns = MemoAfter(o, n)] /\ \A p \in Objects \ {o}: obj'[p] = obj[p]
  BY DEF set_ns, MetricInv, TypeOK
<1>4. obj'[o].rpc = c /\ obj'[o] # Nothing
  BY <1>1, <1>3, MetricAssumption DEF Members, MemoAfter
<1>5. /\ value' = [value EXCEPT ![o] = Seen(m)]
      /\ value[o] = Seen(heap[c]) /\ value[o] # Nothing
  BY <1>1, <1>2, <1>3, <1>4, UpdateSeen
<1>6. Seen(m) = [Seen(heap[c]) EXCEPT !.ns = n] BY <1>1 DEF Seen, RpcMetrics
<1> HIDE DEF c, m
<1>7. AsValues!Set(o, "ns", n)
  BY <1>5, <1>6 DEF AsValues!Set, AsValues!Exists, value
<1> QED BY <1>7 DEF AsValues!Next

LEMMA MemoRefines ==
    ASSUME MetricInv, MetricInv', NEW o \in Objects, ns(o) \/ tags(o)
    PROVE  value' = value
<1>1. Exists(o) /\ heap' = heap BY DEF ns, tags
<1>2. \/ obj' = [obj EXCEPT ![o] = [obj[o] EXCEPT !.memo_ns = ShownNs(o)]]
      \/ obj' = [obj EXCEPT ![o] = [obj[o] EXCEPT !.memo_tags = ShownTags(o)]]
  BY DEF ns, tags
<1>3. obj[o] \in Members /\ ShownNs(o) \in Namespaces /\ ShownTags(o) \in TagMaps
  BY <1>1, Existing DEF RpcMetrics, ShownTags, Members
<1>4. /\ obj'[o].rpc = obj[o].rpc /\ obj'[o] \in Members
      /\ \A p \in Objects \ {o}: obj'[p] = obj[p]
  BY <1>2, <1>3 DEF MetricInv, TypeOK, Members
<1>5. \A p \in Objects: value'[p] = value[p]
  BY <1>1, <1>4, SeenNow, SeenNext, MetricAssumption DEF Exists
<1> QED BY <1>5 DEF value

LEMMA AddTagRefines ==
    ASSUME MetricInv, MetricInv', NEW o \in Objects, NEW k \in Keys, NEW t \in TagValues,
           add_tag(o, k, t)
    PROVE  AsValues!Next
<1> DEFINE c == obj[o].rpc
           m == [heap[c] EXCEPT !.tags = [heap[c].tags EXCEPT ![k] = t]]
<1>1. Exists(o) /\ heap[c] \in RpcMetrics BY Existing DEF add_tag
<1>2. heap' = [heap EXCEPT ![c] = m] /\ UNCHANGED obj BY DEF add_tag
<1>3. /\ value' = [value EXCEPT ![o] = Seen(m)]
      /\ value[o] = Seen(heap[c]) /\ value[o] # Nothing
  BY <1>1, <1>2, UpdateSeen DEF Exists
<1>4. Seen(m) = [Seen(heap[c]) EXCEPT !.tags = [Seen(heap[c]).tags EXCEPT ![k] = t]]
  BY <1>1 DEF Seen, RpcMetrics
<1> HIDE DEF c, m
<1>5. AsValues!AddTag(o, k, t)
  BY <1>3, <1>4 DEF AsValues!AddTag, AsValues!Exists, value
<1> QED BY <1>5 DEF AsValues!Next

LEMMA SetDataRefines ==
    ASSUME MetricInv, MetricInv', NEW o \in Objects, NEW d \in DataTypes, set_data(o, d)
    PROVE  AsValues!Next
<1> DEFINE c == obj[o].rpc
           m == [heap[c] EXCEPT !.data = d]
<1>1. Exists(o) /\ heap[c] \in RpcMetrics BY Existing DEF set_data
<1>2. heap' = [heap EXCEPT ![c] = m] /\ UNCHANGED obj BY DEF set_data
<1>3. /\ value' = [value EXCEPT ![o] = Seen(m)]
      /\ value[o] = Seen(heap[c]) /\ value[o] # Nothing
  BY <1>1, <1>2, UpdateSeen DEF Exists
<1>4. Seen(m) = [Seen(heap[c]) EXCEPT !.data = d] BY <1>1 DEF Seen, RpcMetrics
<1> HIDE DEF c, m
<1>5. AsValues!Set(o, "data", d)
  BY <1>3, <1>4 DEF AsValues!Set, AsValues!Exists, value
<1> QED BY <1>5 DEF AsValues!Next

LEMMA SetTimeRefines ==
    ASSUME MetricInv, MetricInv', NEW o \in Objects, NEW f \in TimeFields, NEW t \in Times,
           set_time(o, f, t)
    PROVE  AsValues!Next
<1> DEFINE c == obj[o].rpc
           m == [heap[c] EXCEPT ![f] = ToRpc(t)]
<1>1. Exists(o) /\ heap[c] \in RpcMetrics BY Existing DEF set_time
<1>2. heap' = [heap EXCEPT ![c] = m] /\ UNCHANGED obj BY DEF set_time
<1>3. /\ value' = [value EXCEPT ![o] = Seen(m)]
      /\ value[o] = Seen(heap[c]) /\ value[o] # Nothing
  BY <1>1, <1>2, UpdateSeen DEF Exists
<1>4. Seen(m) = [Seen(heap[c]) EXCEPT ![f] = t]
  BY <1>1, TimeReadBack DEF Seen, RpcMetrics, TimeFields
<1> HIDE DEF c, m
<1>5. AsValues!Set(o, f, t)
  BY <1>3, <1>4 DEF AsValues!Set, AsValues!Exists, value
<1> QED BY <1>5 DEF AsValues!Next, AsValues!TimeFields, TimeFields

\* The config maps are no part of what is seen.
LEMMA SetConfigRefines ==
    ASSUME MetricInv, MetricInv', NEW o \in Objects, NEW g \in Configs,
           set_diagnostic_config(o, g)
    PROVE  value' = value
<1> DEFINE c == obj[o].config
<1>1. UNCHANGED obj BY DEF set_diagnostic_config
<1>2. \A d \in Cells: ~Free(d) => Seen(heap'[d]) = Seen(heap[d])
  <2>1. CASE heap' = heap BY <2>1
  <2>2. CASE heap' = [heap EXCEPT ![c] = [heap[c] EXCEPT !.config = g]]
    <3> SUFFICES ASSUME NEW d \in Cells, ~Free(d) PROVE Seen(heap'[d]) = Seen(heap[d])
      OBVIOUS
    <3>1. heap[d] \in RpcMetrics BY DEF MetricInv, TypeOK, Free
    <3>2. heap'[d] = IF d = c THEN [heap[d] EXCEPT !.config = g] ELSE heap[d]
      BY <2>2 DEF MetricInv, TypeOK
    <3> QED BY <3>1, <3>2 DEF Seen, RpcMetrics
  <2> QED BY <2>1, <2>2 DEF set_diagnostic_config
<1>3. \A p \in Objects: Exists(p) => obj[p].rpc \in Cells /\ ~Free(obj[p].rpc) BY Existing
<1>4. \A p \in Objects: value'[p] = value[p]
  BY <1>1, <1>2, <1>3, SeenNow, SeenNext DEF Exists
<1> QED BY <1>4 DEF value

LEMMA StepRefines == MetricInv /\ MetricInv' /\ [Next]_vars => [AsValues!Next]_value
<1> SUFFICES ASSUME MetricInv, MetricInv', [Next]_vars PROVE [AsValues!Next]_value
  OBVIOUS
<1>1. CASE UNCHANGED vars
  <2>1. \A p \in Objects: value'[p] = value[p]
    BY <1>1, SeenNow, SeenNext DEF vars
  <2> QED BY <2>1 DEF value
<1>2. CASE Next
  BY <1>2, CreateRefines, CopyRefines, DestroyRefines, SetNsRefines, MemoRefines, AddTagRefines,
     SetDataRefines, SetTimeRefines, SetConfigRefines DEF Next
<1> QED BY <1>1, <1>2

\* A Metric is a value in what it shows and sends, whatever mixture of owned,
\* wrapped and copied objects the plugin and the proxies make (metric.cc).
THEOREM MetricIsAValue == Spec => ImplementsMetricValue
<1>1. Init => AsValues!Init
  BY DEF Init, AsValues!Init, ValueSeen, Exists
<1>2. MetricInv /\ MetricInv' /\ [Next]_vars
        => [AsValues!Next]_([o \in Objects |-> ValueSeen(o)])
  BY StepRefines DEF value
<1> QED BY <1>1, <1>2, MetricInvariant, PTL DEF Spec, ImplementsMetricValue, AsValues!Spec
=============================================================================
