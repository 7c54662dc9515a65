---------------------------- MODULE LocalPlayer ----------------------------
(***************************************************************************)
(* The local player on an optimized client (client/client.cpp): the input  *)
(* step, the reconciliation with each snapshot, and the F3 key.  What the  *)
(* server says is left open: any position, and any acknowledgement, for a  *)
(* snapshot may be late or overtaken, or acknowledge sequence numbers the  *)
(* server saw from an earlier client at the same endpoint.                 *)
(***************************************************************************)
EXTENDS Predictor

VARIABLES
    local_pos,
    prediction_enabled,     \* hud.prediction_enabled
    authoritative,          \* latest_authoritative[my_pid], a set of at most one
    packet                  \* the InputPacket sent by the last step, likewise

localVars ==
    <<ringVars, local_pos, prediction_enabled, authoritative, packet>>

Acks == 0..MaxInputs

LocalState == [pos : Arena, last_processed_input_seq : Acks]

Init ==
    /\ PredictorInit
    /\ local_pos = Spawn
    /\ prediction_enabled \in BOOLEAN   \* --disable-prediction
    /\ authoritative = {}
    /\ packet = {}

-----------------------------------------------------------------------------
\* The input step: the direction pressed is sent whether or not prediction
\* is on; when it is off a standstill is recorded.
SendInput(mx, my, dt) ==
    /\ IF prediction_enabled
       THEN Record(mx, my, dt) /\ local_pos' = apply_move(local_pos, mx, my, dt)
       ELSE Record(0, 0, dt) /\ UNCHANGED local_pos
    /\ packet' = {[seq |-> next_seq, mx |-> mx, my |-> my]}
    /\ UNCHANGED <<prediction_enabled, authoritative>>

\* Mutant of reconcile: inputs are replayed from the position shown.
reconcile_without_snap(state) ==
    Replay(Chronological, local_pos, state.last_processed_input_seq)

\* Predictor::reconcile: the new local position.
reconcile(state) ==
    Replay(Chronological, state.pos, state.last_processed_input_seq)

\* A snapshot is popped: `mine` is what it says of the local player, if
\* anything.  What is reconciled with is the state kept from the newest
\* snapshot that said something.
DrainSnapshot(mine) ==
    /\ authoritative' = IF mine = {} THEN authoritative ELSE mine
    /\ local_pos' \in IF authoritative' = {} THEN {local_pos}
                      ELSE {IF prediction_enabled THEN reconcile(state)
                            ELSE state.pos : state \in authoritative'}
    /\ packet' = {}
    /\ UNCHANGED <<ringVars, prediction_enabled>>

\* F3.
TogglePrediction ==
    /\ prediction_enabled' = ~prediction_enabled
    /\ packet' = {}
    /\ UNCHANGED <<ringVars, local_pos, authoritative>>

Next ==
    \/ \E d \in Directions, dt \in Durations : SendInput(d[1], d[2], dt)
    \/ DrainSnapshot({})
    \/ \E state \in LocalState : DrainSnapshot({state})
    \/ TogglePrediction

Spec == Init /\ [][Next]_localVars

-----------------------------------------------------------------------------
\* Every variable keeps its type: the position shown is in the arena.
LocalTypeOK ==
    /\ RingTypeOK
    /\ local_pos \in Arena
    /\ prediction_enabled \in BOOLEAN
    /\ authoritative \subseteq LocalState
    /\ packet \subseteq [seq : 1..MaxInputs, mx : Axis, my : Axis]

\* The client keeps what InputHistory promises: the ring, with its wrapping
\* head and its count, is the window of the newest inputs, each shown at
\* once, and every correction replays that window in order.
History == INSTANCE InputHistory WITH
    window <- Chronological,
    made   <- next_seq - 1,
    told   <- authoritative,
    shown  <- local_pos

RemembersInputs == History!Spec
=============================================================================
