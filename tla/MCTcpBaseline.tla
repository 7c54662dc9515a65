---------------------------- MODULE MCTcpBaseline ----------------------------
(***************************************************************************)
(* Instances of TcpBaseline for TLC.                                       *)
(***************************************************************************)
EXTENDS TcpBaseline

MCMove == <<1, 0>>
=============================================================================
