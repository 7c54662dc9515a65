----------------------------- MODULE WorldState -----------------------------
(***************************************************************************)
(* The authoritative world of server/world_state.cpp.  The UDP server and  *)
(* the TCP baseline server each own one.  `players` is a function from the *)
(* ids in play to the player's record; each operator below is the value    *)
(* `players` has after the method of the same name.                        *)
(*                                                                         *)
(* Left out: vel, which is recomputed from the pending direction at each   *)
(* tick and never read back, and has_pending, which is set and never read. *)
(***************************************************************************)
EXTENDS Kinematics, FiniteSets, Maps

CONSTANT MaxSeq     \* bound on the uint32 input sequence numbers

ASSUME SeqAssumption == MaxSeq \in Nat

Seqs == 0..MaxSeq

\* ServerPlayer (server/world_state.hpp) with the PlayerState it holds.
Player ==
    [pos                      : Arena,
     pending_mx               : Axis,
     pending_my               : Axis,
     latest_seen_seq          : Seqs,
     last_processed_input_seq : Seqs]

NewPlayer ==
    [pos                      |-> Spawn,
     pending_mx               |-> 0,
     pending_my               |-> 0,
     latest_seen_seq          |-> 0,
     last_processed_input_seq |-> 0]

\* What a snapshot says of a player.
PlayerState == [pos : Arena, last_processed_input_seq : Seqs]

add_player(players, id) ==
    IF id \in DOMAIN players THEN players ELSE Put(players, id, NewPlayer)

\* remove_player for each id of a set; ids not in play are ignored.
remove_player(players, ids) == Erase(players, ids)

-----------------------------------------------------------------------------
\* Mutants of apply_input: the stale check forgotten; the input moved by on
\* arrival, as the client's prediction does, instead of at the next tick.
apply_input_without_stale_check(players, id, seq, mx, my) ==
    IF id \in DOMAIN players
    THEN [players EXCEPT ![id].latest_seen_seq = seq,
                         ![id].pending_mx = clampf(mx, -1, 1),
                         ![id].pending_my = clampf(my, -1, 1),
                         ![id].last_processed_input_seq = seq]
    ELSE players

apply_input_moving_at_once(players, id, seq, mx, my) ==
    IF id \in DOMAIN players /\ seq >= players[id].latest_seen_seq
    THEN [players EXCEPT ![id].latest_seen_seq = seq,
                         ![id].pos = apply_move(@, clampf(mx, -1, 1),
                                                clampf(my, -1, 1), 1),
                         ![id].last_processed_input_seq = seq]
    ELSE players
-----------------------------------------------------------------------------

\* An input older than the newest one seen is dropped; one with the same
\* sequence number is applied again.
apply_input(players, id, seq, mx, my) ==
    IF id \in DOMAIN players /\ seq >= players[id].latest_seen_seq
    THEN [players EXCEPT ![id].latest_seen_seq = seq,
                         ![id].pending_mx = clampf(mx, -1, 1),
                         ![id].pending_my = clampf(my, -1, 1),
                         ![id].last_processed_input_seq = seq]
    ELSE players

\* The pending direction is kept, so a player whose inputs stop arriving
\* keeps moving.
step_tick(players) ==
    [id \in DOMAIN players |->
        [players[id] EXCEPT !.pos = apply_move(@, players[id].pending_mx,
                                               players[id].pending_my, 1)]]

collect_player_states(players) ==
    [id \in DOMAIN players |->
        [pos                      |-> players[id].pos,
         last_processed_input_seq |-> players[id].last_processed_input_seq]]
=============================================================================
