------------------------------- MODULE Server -------------------------------
(***************************************************************************)
(* The authoritative UDP server (server/server.cpp): a single thread that  *)
(* repeatedly drains the datagrams that have arrived and runs one          *)
(* simulation tick when it is due.                                         *)
(*                                                                         *)
(* The environment is open: any endpoint may send any datagram at any      *)
(* time, so a datagram that is late, duplicated, reordered, from a client  *)
(* whose seat has been given away, or lost, is among the behaviours.       *)
(* Datagrams arrive between any two steps of the loop, so each handled     *)
(* datagram is an action and so is each tick.                              *)
(*                                                                         *)
(* `sent` holds what the last step handed to the socket.                   *)
(***************************************************************************)
EXTENDS SessionManager, WorldState

CONSTANTS
    MoveInputs,         \* the <<mx, my>> pairs an INPUT_COMMAND may carry
    TickModulus,        \* tick numbers wrap here: 2^32 in the code
    TICKS_PER_SNAPSHOT  \* common/constants.hpp:11

ASSUME ServerAssumption ==
    /\ MoveInputs \subseteq (-128..127) \X (-128..127)
    /\ TickModulus \in Nat \ {0}
    /\ TICKS_PER_SNAPSHOT \in Nat \ {0}

VARIABLES
    players,    \* WorldState::players_
    tick,       \* WorldState::tick_
    sent        \* the datagrams sent by the last step

serverVars == <<sessions, id_to_endpoint, players, tick, sent>>

Ticks == 0..TickModulus - 1

JoinAccept(e, id) == [to |-> e, type |-> "JOIN_ACCEPT", player_id |-> id]

WorldSnapshot(e, server_tick, states) ==
    [to |-> e, type |-> "WORLD_SNAPSHOT",
     server_tick |-> server_tick, players |-> states]

Init ==
    /\ SessionInit
    /\ players = NoEntries
    /\ tick = 0
    /\ sent = {}

-----------------------------------------------------------------------------
\* handle_inbound_udp, case JOIN_REQUEST: both for a new endpoint and for a
\* seated one, add_player is called and JOIN_ACCEPT is sent.
JoinRequest(e) ==
    /\ \/ GetSession(e)
       \/ \E id \in next_free_id : Register(e, id)
    /\ players' = add_player(players, sessions'[e].player_id)
    /\ sent' = {JoinAccept(e, sessions'[e].player_id)}
    /\ UNCHANGED tick

\* handle_inbound_udp, case JOIN_REQUEST with every seat taken: no answer.
JoinRequestWhenFull(e) ==
    /\ Refuse(e)
    /\ sent' = {}
    /\ UNCHANGED <<players, tick>>

\* Mutant of InputCommand: the session of the id the input claims is
\* refreshed before the claim is verified.
InputCommandTouchingFirst(e, player_id, seq, mx, my) ==
    /\ sent' = {}
    /\ UNCHANGED tick
    /\ IF player_id \in DOMAIN id_to_endpoint
       THEN Touch(id_to_endpoint[player_id])
       ELSE UNCHANGED sessionVars
    /\ players' = IF verify_input(e, player_id)
                  THEN apply_input(players, player_id, seq, mx, my)
                  ELSE players

\* handle_inbound_udp, case INPUT_COMMAND.
InputCommand(e, player_id, seq, mx, my) ==
    /\ sent' = {}
    /\ UNCHANGED tick
    /\ IF verify_input(e, player_id)
       THEN /\ Touch(e)
            /\ players' = apply_input(players, player_id, seq, mx, my)
       ELSE UNCHANGED <<sessions, id_to_endpoint, players>>

\* Mutant of DisconnectNotice: the player named goes with its owner, whoever
\* sent the notice.
DisconnectNoticeOfAnybody(e, player_id) ==
    /\ sent' = {}
    /\ UNCHANGED tick
    /\ IF player_id \in DOMAIN id_to_endpoint
       THEN /\ players' = remove_player(players, {player_id})
            /\ RemoveByEndpoint(id_to_endpoint[player_id])
       ELSE UNCHANGED <<sessions, id_to_endpoint, players>>

\* Mutant of DisconnectNotice: the sender's session goes, whatever id the
\* notice names, and the player named goes.
DisconnectNoticeUnchecked(e, player_id) ==
    /\ sent' = {}
    /\ UNCHANGED tick
    /\ IF e \in DOMAIN sessions
       THEN /\ players' = remove_player(players, {player_id})
            /\ RemoveByEndpoint(e)
       ELSE UNCHANGED <<sessions, id_to_endpoint, players>>

\* handle_inbound_udp, case DISCONNECT_NOTICE.
DisconnectNotice(e, player_id) ==
    /\ sent' = {}
    /\ UNCHANGED tick
    /\ IF e \in DOMAIN sessions /\ sessions[e].player_id = player_id
       THEN /\ players' = remove_player(players, {player_id})
            /\ RemoveByEndpoint(e)
       ELSE UNCHANGED <<sessions, id_to_endpoint, players>>

-----------------------------------------------------------------------------
\* Mutant of Broadcast: a full server's snapshot taken for one too large.
BroadcastUnlessFull(server_tick, states) ==
    IF Cardinality(DOMAIN states) < MAX_PLAYERS
    THEN {WorldSnapshot(e, server_tick, states) : e \in DOMAIN sessions'}
    ELSE {}

\* UdpSnapshotBroadcaster::broadcast to the endpoints seated after the
\* reaper ran; a snapshot too large to encode is not sent at all.
Broadcast(server_tick, states) ==
    IF Cardinality(DOMAIN states) <= MAX_PLAYERS
    THEN {WorldSnapshot(e, server_tick, states) : e \in DOMAIN sessions'}
    ELSE {}

\* Mutant of TickAndMaybeBroadcast: the players of reaped sessions stay.
TickWithoutRemovingPlayers ==
    /\ ReapTimeouts
    /\ players' = step_tick(players)
    /\ tick' = (tick + 1) % TickModulus
    /\ sent' = IF tick' % TICKS_PER_SNAPSHOT = 0
               THEN Broadcast(tick', collect_player_states(players'))
               ELSE {}

\* tick_and_maybe_broadcast: reap, remove the reaped players, move everyone,
\* and on every third tick send all endpoints the new state.
TickAndMaybeBroadcast ==
    /\ ReapTimeouts
    /\ players' = step_tick(remove_player(players, ReapedIds))
    /\ tick' = (tick + 1) % TickModulus
    /\ sent' = IF tick' % TICKS_PER_SNAPSHOT = 0
               THEN Broadcast(tick', collect_player_states(players'))
               ELSE {}

\* Time passes.
Elapse ==
    /\ Age
    /\ sent' = {}
    /\ UNCHANGED <<players, tick>>

-----------------------------------------------------------------------------
Inbound(e) ==
    \/ JoinRequest(e)
    \/ JoinRequestWhenFull(e)
    \/ \E id \in PlayerIds, seq \in Seqs, m \in MoveInputs :
           InputCommand(e, id, seq, m[1], m[2])
    \/ \E id \in PlayerIds : DisconnectNotice(e, id)

Next ==
    \/ \E e \in Endpoints : Inbound(e)
    \/ TickAndMaybeBroadcast
    \/ Elapse

Spec == Init /\ [][Next]_serverVars

-----------------------------------------------------------------------------
\* Every variable keeps its type: positions in the arena, ids among the seats.
TypeOK ==
    /\ SessionTypeOK
    /\ DOMAIN players \subseteq PlayerIds
    /\ players \in [DOMAIN players -> Player]
    /\ tick \in Ticks
    /\ \A d \in sent :
           \/ \E e \in Endpoints, id \in PlayerIds : d = JoinAccept(e, id)
           \/ \E e \in Endpoints, t \in Ticks :
                  /\ d = WorldSnapshot(e, t, d.players)
                  /\ DOMAIN d.players \subseteq PlayerIds
                  /\ d.players \in [DOMAIN d.players -> PlayerState]

\* The world simulates exactly the players that are seated: the reaper and
\* the disconnect handler, which update the world and the table separately,
\* never leave a player without a session or a session without a player.
WorldMatchesSessions ==
    DOMAIN players = {sessions[e].player_id : e \in DOMAIN sessions}

\* Everything handed to the socket is for an endpoint that is seated, and is
\* about that endpoint's seat: JOIN_ACCEPT names the recipient's own id, and
\* a snapshot has the recipient's own player in its current state, so that
\* the client can reconcile.
SentServesRecipient ==
    \A d \in sent :
        /\ d.to \in DOMAIN sessions
        /\ LET id == sessions[d.to].player_id
           IN  IF d.type = "JOIN_ACCEPT"
               THEN d.player_id = id
               ELSE /\ id \in DOMAIN d.players
                    /\ d.players[id].pos = players[id].pos
                    /\ d.players[id].last_processed_input_seq =
                           players[id].last_processed_input_seq

\* A snapshot tick reaches every seated endpoint: the encoder never refuses
\* a snapshot for having more than MAX_PLAYERS players.
SnapshotReachesAll ==
    [][(tick' # tick /\ tick' % TICKS_PER_SNAPSHOT = 0)
           => {d.to : d \in sent'} = DOMAIN sessions']_serverVars

-----------------------------------------------------------------------------
\* A seat is kept: as long as an endpoint stays in the table, its id is the
\* one it was given, however often it repeats JOIN_REQUEST.
SeatKept ==
    [][\A e \in DOMAIN sessions \cap DOMAIN sessions' :
           sessions'[e].player_id = sessions[e].player_id]_serverVars

\* An endpoint that takes a seat starts from a new player at the spawn point
\* with sequence number 0: it inherits neither the position nor the newest
\* sequence number of whoever had the id before (with the old number, all of
\* its first inputs would be dropped as stale).
NewSeatIsFresh ==
    [][\A e \in DOMAIN sessions' \ DOMAIN sessions :
           players'[sessions'[e].player_id] = NewPlayer]_serverVars

\* Only the seated endpoint steers a player: when the direction or the
\* sequence numbers of a player change, its owner has just been heard from.
\* Late datagrams of an endpoint that lost the seat change nothing.
OnlyOwnerSteers ==
    [][\A id \in DOMAIN players \cap DOMAIN players' :
           \/ /\ players'[id].pending_mx = players[id].pending_mx
              /\ players'[id].pending_my = players[id].pending_my
              /\ players'[id].latest_seen_seq = players[id].latest_seen_seq
           \/ sessions'[id_to_endpoint[id]].idle = 0]_serverVars

\* While a seat has the same owner, the acknowledged sequence number never
\* goes back, whatever order the inputs arrive in.
AckMonotone ==
    [][\A id \in DOMAIN players \cap DOMAIN players' :
           players'[id].last_processed_input_seq >=
               players[id].last_processed_input_seq]_serverVars

\* A position changes only in a tick, and by at most one step on each axis,
\* however many inputs arrived since the tick before.
SpeedLimit ==
    [][\A id \in DOMAIN players \cap DOMAIN players' :
           players'[id].pos = players[id].pos
           \/ /\ tick' = (tick + 1) % TickModulus
              /\ players'[id].pos.x - players[id].pos.x
                     \in -StraightStep..StraightStep
              /\ players'[id].pos.y - players[id].pos.y
                     \in -StraightStep..StraightStep]_serverVars

-----------------------------------------------------------------------------
\* The server allocates seats as SeatAllocation promises: one endpoint a
\* seat, one seat an endpoint, the lowest free seat to each newcomer.
AllocatesSeats == Allocation!Spec
=============================================================================
