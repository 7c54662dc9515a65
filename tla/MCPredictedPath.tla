--------------------------- MODULE MCPredictedPath ---------------------------
(***************************************************************************)
(* Instances of PredictedPath for TLC.                                     *)
(***************************************************************************)
EXTENDS PredictedPath

\* One way along an axis, the other way along a diagonal.
MCDirections == {<<1, 0>>, <<-1, 1>>}
=============================================================================
