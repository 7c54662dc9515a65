--------------------------- MODULE PredictedPath ---------------------------
(***************************************************************************)
(* LocalPlayer with a history variable: where the client believes it was   *)
(* after each of its inputs, since the last snapshot it reconciled with.   *)
(* `path` is empty while there is no such belief: prediction is off, or    *)
(* the snapshot acknowledged inputs this client has not made.              *)
(***************************************************************************)
EXTENDS LocalPlayer

VARIABLE path

pathVars == <<localVars, path>>

NoPath == [seq \in {} |-> Spawn]

PathInit == Init /\ path = NoPath

\* Where an input is in the ring, read from the oldest.
Place(seq) == CHOOSE i \in 1..count : Chronological[i].seq = seq

Believed(state) ==
    LET ack   == state.last_processed_input_seq
        after == Positions(Chronological, state.pos, ack)
        later == {input.seq : input \in ToSet(Chronological)} \ 0..ack
    IN  [seq \in {ack} \cup later |->
            IF seq = ack THEN state.pos ELSE after[Place(seq)]]

\* The path after a step of LocalPlayer: an input extends it, a snapshot gives
\* a new one, and so does one that says nothing, with the state kept.
PathAfter ==
    CASE packet' # {} /\ path # NoPath ->
             [seq \in DOMAIN path \cup {next_seq} |->
                 IF seq = next_seq THEN local_pos' ELSE path[seq]]
      [] packet' # {} /\ path = NoPath -> NoPath
      [] prediction_enabled' # prediction_enabled -> NoPath
      [] OTHER ->
             LET held == {state \in authoritative' :
                             prediction_enabled
                             /\ state.last_processed_input_seq < next_seq}
             IN  IF held = {} THEN NoPath
                 ELSE Believed(CHOOSE state \in held : TRUE)

PathNext == Next /\ path' = PathAfter

PathSpec == PathInit /\ [][PathNext]_pathVars

-----------------------------------------------------------------------------
\* A snapshot that says what the client predicted moves nobody: however many
\* inputs are still on their way, if the position the server acknowledges is
\* the one the client had after that input, reconciling with it leaves the
\* position shown alone.  The inputs on their way must still be in the ring.
ConfirmedPredictionStays ==
    [][\A state \in authoritative' :
           LET ack == state.last_processed_input_seq
           IN  (/\ next_seq' = next_seq
                /\ ack \in DOMAIN path /\ state.pos = path[ack]
                /\ next_seq - 1 - ack <= N)
               => local_pos' = local_pos]_pathVars
=============================================================================
