------------------------------ MODULE MCServer ------------------------------
(***************************************************************************)
(* Instances of Server for TLC, with its history.                          *)
(***************************************************************************)
EXTENDS ServerHistory, TLC

\* One direction in range and one whose x component must be clamped.
MCMoveInputs == {<<1, 0>>, <<-2, 1>>}

MCSymmetry == Permutations(Endpoints)
=============================================================================
