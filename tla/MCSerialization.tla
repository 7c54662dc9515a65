-------------------------- MODULE MCSerialization --------------------------
(***************************************************************************)
(* Instances of Serialization for TLC: each number at its bounds.          *)
(***************************************************************************)
EXTENDS Serialization

MCShorts == {0, 1, Power[2] - 1}
MCLongs == {0, Base, Power[4] - 1}
MCMoves == {-(Base \div 2), -1, 0, 1, Base \div 2 - 1}

\* Two players that have no field in common.
MCStates ==
    {[id |-> 1, x |-> 2, y |-> 3, vx |-> 4, vy |-> 5,
      last_processed_input_seq |-> 6],
     [id |-> Power[2] - 1, x |-> Power[4] - 1, y |-> Power[3], vx |-> Power[2],
      vy |-> Base, last_processed_input_seq |-> 0]}
=============================================================================
