------------------------------ MODULE MCMetric -------------------------------
(***************************************************************************)
(* Instances of Metric: one namespace besides the empty one, one key.      *)
(***************************************************************************)
EXTENDS Metric, TLC

CONSTANTS cpu

SomeNamespaces == {<<>>, <<cpu>>}
CellsAndObjectsAlike == Permutations(Cells) \cup Permutations(Objects)
=============================================================================
