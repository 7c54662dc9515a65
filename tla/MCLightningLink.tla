-------------------------- MODULE MCLightningLink --------------------------
(***************************************************************************)
(* Instances of LightningLink for TLC.                                     *)
(***************************************************************************)
EXTENDS LightningLink

\* A client moves right, then stands; a stranger sends either.
MCDirections == {<<1, 0>>}
MCMoveInputs == {<<1, 0>>, Still}
=============================================================================
