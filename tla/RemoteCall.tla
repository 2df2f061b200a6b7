------------------------------ MODULE RemoteCall ------------------------------
(***************************************************************************)
(* What a call of a service promises: the handler of that method sees the  *)
(* message asked with, and the caller the message it answered, each whole; *)
(* and a call that is not handled or not answered fails for a reason.      *)
(***************************************************************************)
CONSTANTS None,
          Served(_),       \* the server has this method
          Request(_),      \* what a call asks with
          Legible(_),      \* the request can be read
          Answered(_),     \* what the handler may answer
          Returnable(_, _) \* the answer can be read

VARIABLES asked,  \* the call
          stage,  \* how far it has come
          seen,   \* the method and the message that the handler got
          given,  \* the handler's answer
          got     \* what the caller got

vars == <<asked, stage, seen, given, got>>

Goto(from, to) == stage = from /\ stage' = to

Init == stage = "called" /\ seen = None /\ given = None /\ got = None

Refuse ==
    /\ Goto("called", "unimplemented") /\ ~Served(asked)
    /\ UNCHANGED <<asked, seen, given, got>>

Garble ==
    /\ Goto("called", "failed") /\ Served(asked) /\ ~Legible(asked)
    /\ UNCHANGED <<asked, seen, given, got>>

Handle ==
    /\ Goto("called", "handling") /\ Served(asked) /\ Legible(asked)
    /\ seen' = [method |-> asked.method, message |-> Request(asked)]
    /\ UNCHANGED <<asked, given, got>>

Reject ==
    /\ Goto("handling", "rejected")
    /\ UNCHANGED <<asked, seen, given, got>>

Answer ==
    /\ Goto("handling", "answering")
    /\ given' \in Answered(asked)
    /\ UNCHANGED <<asked, seen, got>>

Return ==
    /\ Goto("answering", "answered") /\ Returnable(asked, given)
    /\ got' = given
    /\ UNCHANGED <<asked, seen, given>>

Lose ==
    /\ Goto("answering", "lost") /\ ~Returnable(asked, given)
    /\ UNCHANGED <<asked, seen, given, got>>

Next == Refuse \/ Garble \/ Handle \/ Reject \/ Answer \/ Return \/ Lose

Spec == Init /\ [][Next]_vars
=============================================================================
