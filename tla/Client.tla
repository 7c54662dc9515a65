------------------------------- MODULE Client -------------------------------
(***************************************************************************)
(* The optimized client (client/client.cpp), as the value of its record    *)
(* after each thing it does.  `window` is the ring of the Predictor as     *)
(* InputHistory has it, which LocalPlayer is shown to implement.           *)
(*                                                                         *)
(* A client makes inputs for as long as it runs.  From MaxSeq on they are  *)
(* standstills, which the model does not tell apart: all have that number. *)
(*                                                                         *)
(* Left out: what only the HUD and the periodic log show, and the remote   *)
(* players' histories, which are in RemoteView.                            *)
(***************************************************************************)
EXTENDS WorldState, Inputs, SequencesExt

CONSTANTS
    INPUT_HISTORY_SIZE, \* common/constants.hpp:29
    MaxPending          \* pending inputs kept whatever their age, 256 in the code

ASSUME ClientAssumption ==
    /\ INPUT_HISTORY_SIZE \in Nat \ {0}
    /\ MaxPending \in Nat

Still == <<0, 0>>

\* `moves` is a history variable: what was sent under each number.  A client
\* started with prediction disabled is one that toggles it at once.
NewClient ==
    [at                   |-> "outside",    \* "joining", "playing", "gone"
     my_pid               |-> 0,
     prediction_enabled   |-> TRUE,
     window               |-> <<>>,
     next_seq             |-> 1,
     local_pos            |-> Spawn,
     latest_authoritative |-> NoEntries,
     pending              |-> {},
     moves                |-> NoEntries]

Started(c) == [c EXCEPT !.at = "joining"]

Accepted(c, player_id) == [c EXCEPT !.at = "playing", !.my_pid = player_id]

\* The process ends, and with it what it knew.
Ended(c) == [NewClient EXCEPT !.at = "gone"]

Toggled(c) == [c EXCEPT !.prediction_enabled = ~@]

-----------------------------------------------------------------------------
\* Mutant of Remembered: an input too many is kept.
RememberedOneMore(window, input) ==
    LET longer == Append(window, input)
    IN  IF Len(longer) > INPUT_HISTORY_SIZE + 1 THEN Tail(longer) ELSE longer

\* InputHistory's Remember, as an operator.
Remembered(window, input) ==
    LET longer == Append(window, input)
    IN  IF Len(longer) > INPUT_HISTORY_SIZE THEN Tail(longer) ELSE longer

\* The moves that may be pressed for the next input.
Presses(c) == IF c.next_seq = MaxSeq THEN {Still} ELSE Directions

InputPacket(c, move) ==
    [type |-> "INPUT_COMMAND", player_id |-> c.my_pid, seq |-> c.next_seq,
     mx |-> move[1], my |-> move[2]]

\* Too many inputs pending: those sent more than two seconds ago, however
\* many they are, are forgotten.
Bounded(pending, newest) ==
    IF Cardinality(pending) > MaxPending
    THEN {{seq \in pending : seq >= oldest} : oldest \in 1..newest}
    ELSE {pending}

\* The input step: what is recorded, moved by and kept pending.
InputMade(c, move) ==
    LET pressed == IF c.prediction_enabled THEN move ELSE Still
        input   == Input(c.next_seq, pressed[1], pressed[2], 1)
    IN  {[c EXCEPT
             !.window    = Remembered(@, input),
             !.local_pos = IF c.prediction_enabled
                           THEN apply_move(@, move[1], move[2], 1) ELSE @,
             !.pending   = kept,
             !.moves     = Put(@, c.next_seq, move),
             !.next_seq  = IF @ < MaxSeq THEN @ + 1 ELSE @] :
         kept \in Bounded(c.pending \cup {c.next_seq}, c.next_seq)}

-----------------------------------------------------------------------------
\* Mutant of Merged: inserting does not replace what is there.
MergedByInserting(latest, states) ==
    [id \in DOMAIN latest \cup DOMAIN states |->
        IF id \in DOMAIN latest THEN latest[id] ELSE states[id]]

\* The newest states received, once a snapshot's are among them.
Merged(latest, states) ==
    [id \in DOMAIN latest \cup DOMAIN states |->
        IF id \in DOMAIN states THEN states[id] ELSE latest[id]]

\* Mutant of Retired: one input too many.
RetiredUpToNext(pending, ack) == {seq \in pending : seq <= ack + 1}

\* The pending inputs an acknowledgement retires, each with a row in the log.
Retired(pending, ack) == {seq \in pending : seq <= ack}

\* A snapshot is drained: the states are taken over, the local player is
\* reconciled with the one kept for it, and inputs are retired.
Drained(c, states) ==
    LET latest == Merged(c.latest_authoritative, states)
        mine   == latest[c.my_pid]
        ack    == mine.last_processed_input_seq
    IN  IF c.my_pid \notin DOMAIN latest
        THEN [c EXCEPT !.latest_authoritative = latest]
        ELSE [c EXCEPT
                 !.latest_authoritative = latest,
                 !.local_pos = IF c.prediction_enabled
                               THEN Replay(c.window, mine.pos, ack)
                               ELSE mine.pos,
                 !.pending = @ \ Retired(@, ack)]
=============================================================================
