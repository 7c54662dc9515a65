---------------------------- MODULE InputHistory ----------------------------
(***************************************************************************)
(* What the Predictor promises, without its ring: it remembers the newest  *)
(* INPUT_HISTORY_SIZE inputs in the order they were made, shows each one   *)
(* at once, and corrects the position shown by replaying what it remembers *)
(* beyond the acknowledgement.                                             *)
(***************************************************************************)
EXTENDS Inputs

CONSTANT INPUT_HISTORY_SIZE

VARIABLES
    window,     \* the inputs remembered, oldest first
    made,       \* how many inputs have been made
    told,       \* the newest state the server has told, at most one
    shown       \* the position shown

vars == <<window, made, told, shown>>

Init ==
    /\ window = <<>>
    /\ made = 0
    /\ told = {}
    /\ shown = Spawn

Make(mx, my, dt) ==
    LET input == Input(made + 1, mx, my, dt)
    IN  /\ made' = made + 1
        /\ window' = IF Len(window) < INPUT_HISTORY_SIZE
                     THEN Append(window, input)
                     ELSE Append(Tail(window), input)
        /\ UNCHANGED told

\* An input made while prediction is on moves the position shown; one made
\* while it is off is remembered as a standstill.
Show(mx, my, dt) == Make(mx, my, dt) /\ shown' = apply_move(shown, mx, my, dt)

Hide(dt) == Make(0, 0, dt) /\ UNCHANGED shown

\* The server tells something, or repeats what it told: either the position
\* shown is corrected, or, with prediction off, the one told is shown.
Correct ==
    /\ \E state \in told' :
           /\ told' = {state}
           /\ \/ shown' = Replay(window, state.pos,
                                state.last_processed_input_seq)
              \/ shown' = state.pos
    /\ UNCHANGED <<window, made>>

Next ==
    \/ \E d \in Directions, dt \in Durations : Show(d[1], d[2], dt)
    \/ \E dt \in Durations : Hide(dt)
    \/ Correct

Spec == Init /\ [][Next]_vars
=============================================================================
