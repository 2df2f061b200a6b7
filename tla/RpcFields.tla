------------------------------ MODULE RpcFields ------------------------------
(***************************************************************************)
(* What the generated code of rpc/plugin.pb.cc says of a field, whether it *)
(* parses, writes, measures or merges it: which field it is, and of what   *)
(* shape and kind.                                                         *)
(***************************************************************************)
EXTENDS Integers, Sequences

IntegerKinds == {"int32", "int64", "uint32", "uint64"}
TextKinds == {"string", "bytes", "text"}

\* The kinds of scalars.  The class of a message holds strings and bytes
\* alike as text; what parses and writes them tells them apart.
Kinds == IntegerKinds \cup TextKinds \cup {"bool", "float", "double"}

Zero(kind) ==
    CASE kind \in TextKinds -> ""
      [] kind = "bool"      -> FALSE
      [] OTHER              -> 0

\* A scalar that is written unless it is zero.
Value(field, kind) == [shape |-> "value", field |-> field, of |-> kind]

\* The scalar that a union holds, if it is this one.
Choice(field, choice, kind) ==
    [shape |-> "choice", field |-> field, of |-> kind, choice |-> choice]

\* A message that may be absent.
Message(field, type) == [shape |-> "message", field |-> field, of |-> type]

\* Any number of messages or scalars.
Repeated(field, of) == [shape |-> "repeated", field |-> field, of |-> of]

\* A map, which is written as a message for each of its entries.
Mapped(field, entry) == [shape |-> "mapped", field |-> field, of |-> entry]

\* The key or the value of such an entry, always there and always written.
Held(field, of) == [shape |-> "held", field |-> field, of |-> of]

-----------------------------------------------------------------------------
\* A function of one entry, as is a union that holds a choice; and a map that
\* these entries are put into.
Only(key, v) == [k \in {key} |-> v]

Inserted(from, map) ==
    [k \in DOMAIN from \cup DOMAIN map |-> IF k \in DOMAIN from THEN from[k] ELSE map[k]]
=============================================================================
