--------------------------- MODULE StreamReplies ----------------------------
(***************************************************************************)
(* What a streaming collector promises Snap: each reply carries metrics    *)
(* that follow on one another and skip none that was not in a reply yet,   *)
(* though some may come again; and with them the newest error, or the next *)
(* one, or none.  Metrics and errors are numbered as the plugin makes them. *)
(***************************************************************************)
EXTENDS Naturals, Sequences

CONSTANT BatchSizes  \* how many metrics the plugin hands over at a time

VARIABLES made,    \* how many metrics the plugin has made
          raised,  \* and how many errors
          mets,    \* the metrics of all replies
          errs     \* and their errors

vars == <<made, raised, mets, errs>>

\* What comes after a, up to b.
Run(a, b) == [i \in 1..b - a |-> a + i]

\* The first n are in the replies s, and nothing else is.
Has(s, n) == {s[i]: i \in DOMAIN s} = 1..n

Init == made = 0 /\ raised = 0 /\ mets = <<>> /\ errs = <<>>

Make ==
    /\ \E n \in BatchSizes: made' = made + n
    /\ UNCHANGED <<raised, mets, errs>>

Raise == raised' = raised + 1 /\ UNCHANGED <<made, mets, errs>>

CarriesMetrics ==
    \E known \in 0..made: \E from \in 0..known, to \in 0..made:
        Has(mets, known) /\ mets' = mets \o Run(from, to)

CarriesError ==
    \E told \in 0..raised: \E e \in {told, told + 1} \cap 1..raised:
        Has(errs, told) /\ errs' = Append(errs, e)

Reply ==
    /\ CarriesMetrics
    /\ CarriesError \/ UNCHANGED errs
    /\ UNCHANGED <<made, raised>>

Next == Make \/ Raise \/ Reply

Spec == Init /\ [][Next]_vars
=============================================================================
