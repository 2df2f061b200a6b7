------------------------- MODULE MCStreamCollector --------------------------
(***************************************************************************)
(* Instances of StreamCollector: what Snap may send in each of them.       *)
(***************************************************************************)
EXTENDS StreamCollector

ASK == [buffer |-> 0, setsDuration |-> FALSE, hasMetrics |-> TRUE]
LIMITS == [buffer |-> 1, setsDuration |-> TRUE, hasMetrics |-> FALSE]

RAISES == [LIMITS EXCEPT !.buffer = 2]

NoRequests == {}
AskOnly == {ASK}
LimitsOnly == {LIMITS}
AskAndRaise == {ASK, RAISES}

\* What there may be together.  Without errors or requests the metrics have the
\* more room: the cost of all of them at once is the product.
Mix(metrics, errors, requests, calls) ==
    [metrics |-> metrics, errors |-> errors, requests |-> requests, streams |-> calls]

AnyMix == {Mix(MaxMetrics, MaxErrors, MaxRequests, MaxStreams)}
SafeMixes ==
    {Mix(1, 1, 1, 1), Mix(2, 1, 0, 1), Mix(2, 0, 1, 1), Mix(1, 1, 0, 2), Mix(2, 0, 0, 2),
     Mix(0, 2, 0, 2), Mix(0, 0, 2, 2)}
LiveMixes == {Mix(1, 0, 1, 1), Mix(0, 1, 0, 2), Mix(2, 0, 0, 1), Mix(0, 2, 0, 1)}
=============================================================================
