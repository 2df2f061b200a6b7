-------------------------- MODULE MCStreamChannel ---------------------------
(***************************************************************************)
(* Three callers, two items and a queue of two: enough for a producer, a   *)
(* closer and two consumers' turns to meet in any combination, since every *)
(* caller may make every call.                                             *)
(***************************************************************************)
EXTENDS StreamChannel
=============================================================================
