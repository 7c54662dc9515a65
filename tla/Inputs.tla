------------------------------- MODULE Inputs -------------------------------
(***************************************************************************)
(* The inputs a client records, and their replay (client/prediction.cpp).  *)
(***************************************************************************)
EXTENDS Kinematics, Sequences

CONSTANTS
    Directions,     \* the <<mx, my>> pairs the player may press
    Durations,      \* the dt of a step, in server ticks
    MaxInputs       \* bound on the inputs recorded; next_seq_ is a uint32

ASSUME InputsAssumption ==
    /\ Directions \subseteq Axis \X Axis
    /\ Durations \subseteq Nat
    /\ MaxInputs \in Nat

PredictedInput ==
    [seq : 1..MaxInputs, mx : Axis, my : Axis, dt : Durations]

Input(seq, mx, my, dt) == [seq |-> seq, mx |-> mx, my |-> my, dt |-> dt]

-----------------------------------------------------------------------------
\* Where the inputs not yet acknowledged lead from a position: after each of
\* the inputs in turn, and after all of them.
Positions(inputs, from, ack) ==
    LET pos[i \in 0..Len(inputs)] ==
            IF i = 0 THEN from
            ELSE IF inputs[i].seq > ack
            THEN apply_move(pos[i - 1], inputs[i].mx, inputs[i].my,
                            inputs[i].dt)
            ELSE pos[i - 1]
    IN  pos

\* Mutant of Replay: the acknowledged input is replayed too.
ReplayFromAck(inputs, from, ack) ==
    Positions(inputs, from, ack - 1)[Len(inputs)]

Replay(inputs, from, ack) == Positions(inputs, from, ack)[Len(inputs)]
=============================================================================
