----------------------------- MODULE LinkProofs -----------------------------
(***************************************************************************)
(* The composed game, for any number of clients, strangers and seats, any  *)
(* arena, and a network that loses and reorders at will.                   *)
(*                                                                         *)
(* That a client hears only of its own player, and is steered by what it   *)
(* pressed, rests on an invariant about what is under way: a client asks   *)
(* for a seat once, so between two seats of one id there is always another *)
(* client, and nothing that was said to one of them is heard by the other. *)
(***************************************************************************)
EXTENDS LightningLink, ServerProofs

\* What a datagram of a client holds.
PacketOK(p) ==
    \/ p = [type |-> "JOIN_REQUEST"]
    \/ /\ p.type = "INPUT_COMMAND"
       /\ p.player_id \in PlayerIds
       /\ p.seq \in Seqs
       /\ <<p.mx, p.my>> \in Directions \cup {Still}
    \/ /\ p.type = "DISCONNECT_NOTICE"
       /\ p.player_id \in PlayerIds

\* What one of the server's holds.
ReplyOK(d) ==
    \/ /\ d.type = "JOIN_ACCEPT"
       /\ d.player_id \in PlayerIds
    \/ /\ d.type = "WORLD_SNAPSHOT"
       /\ d.players \in [DOMAIN d.players -> PlayerState]

\* What a client remembers of an input.
WindowInputs == [seq : Nat, mx : Axis, my : Axis, dt : Nat]

\* A number is used for one input, but for the last, which is a standstill
\* whenever it is used.
ClientOK(c) ==
    /\ DOMAIN c = DOMAIN NewClient
    /\ c.at \in {"outside", "joining", "playing", "gone"}
    /\ c.at = "playing" => c.my_pid \in PlayerIds
    /\ c.at # "playing" => DOMAIN c.moves = {}
    /\ c.next_seq \in 1..MaxSeq
    /\ DOMAIN c.moves \subseteq 1..c.next_seq
    /\ c.next_seq \in DOMAIN c.moves => c.next_seq = MaxSeq
    /\ MaxSeq \in DOMAIN c.moves => c.moves[MaxSeq] = Still
    /\ c.pending \subseteq 1..MaxSeq
    /\ c.my_pid \in PlayerIds \cup {0}
    /\ c.local_pos \in Arena
    /\ c.window \in Seq(WindowInputs)
    /\ Len(c.window) <= INPUT_HISTORY_SIZE
    /\ c.latest_authoritative
           \in [DOMAIN c.latest_authoritative -> PlayerState]

LinkTyped ==
    /\ \A d \in up :
           /\ d = [from |-> d.from, packet |-> d.packet]
           /\ d.from \in Clients
           /\ PacketOK(d.packet)
    /\ \A d \in down : d.to \in Clients /\ ReplyOK(d)
    /\ client = [e \in Clients |-> client[e]]
    /\ \A e \in Clients : ClientOK(client[e])

-----------------------------------------------------------------------------
\* Nobody has heard of e yet: its JOIN_REQUEST is all there may be.
Unheard(e) ==
    /\ client[e].at \in {"outside", "joining"}
    /\ e \notin DOMAIN sessions
    /\ \A d \in down : d.to # e
    /\ \A d \in up :
           d.from = e => /\ d.packet = [type |-> "JOIN_REQUEST"]
                         /\ client[e].at = "joining"

\* The server has seen `seq`, or nothing, of what c made.
Seen(c, seq) == seq \in {0} \cup DOMAIN c.moves

\* e has the id i, or had it and has been reaped: what is under way is about
\* that id and about what e has made, and e's player is steered by it.
Has(e, i) ==
    LET c == client[e]
    IN  /\ c.at \in {"joining", "playing"}
        /\ c.at = "playing" => c.my_pid = i
        /\ \A d \in up :
               d.from = e =>
                   /\ d.packet.type = "INPUT_COMMAND"
                   /\ d.packet.seq \in DOMAIN c.moves
                   /\ <<d.packet.mx, d.packet.my>> = c.moves[d.packet.seq]
        /\ \A d \in down :
               d.to = e =>
                   /\ d.type = "JOIN_ACCEPT" => d.player_id = i
                   /\ d.type = "WORLD_SNAPSHOT" =>
                          /\ i \in DOMAIN d.players
                          /\ Seen(c, d.players[i].last_processed_input_seq)
                          /\ e \in DOMAIN sessions =>
                                 d.players[i].last_processed_input_seq
                                     <= players[i].latest_seen_seq
        /\ e \in DOMAIN sessions =>
               /\ sessions[e].player_id = i
               /\ Seen(c, players[i].latest_seen_seq)
               /\ \/ players[i].latest_seen_seq = 0
                  \/ <<players[i].pending_mx, players[i].pending_my>>
                         = c.moves[players[i].latest_seen_seq]

Connection(e) ==
    \/ client[e].at = "gone"
    \/ Unheard(e)
    \/ \E i : Has(e, i)

\* The inductive invariant of the composed game.
LinkInv ==
    /\ ServerInv
    /\ AckIsNewest
    /\ SentServesRecipient
    /\ LinkTyped
    /\ \A e \in Clients : Connection(e)

-----------------------------------------------------------------------------
\* What a client does keeps it well formed.
LEMMA NewClientOK ==
    /\ ClientOK(NewClient)
    /\ NewClient.at = "outside"
<1>1. Spawn \in Arena
  BY KinematicsAssumption DEF Spawn, Arena
<1>2. <<>> \in Seq(WindowInputs) /\ Len(<<>>) <= INPUT_HISTORY_SIZE
  BY ClientAssumption
<1> QED BY <1>1, <1>2, LinkAssumption, SeqAssumption
        DEF NewClient, ClientOK, NoEntries

\* A client that starts to join is one that is joining.
LEMMA StartedOK ==
    ASSUME NEW c, ClientOK(c), c.at = "outside"
    PROVE  ClientOK(Started(c)) /\ Started(c).at = "joining"
BY DEF ClientOK, NewClient, Started

\* A client that has ended is gone.
LEMMA EndedOK ==
    ASSUME NEW c
    PROVE  ClientOK(Ended(c)) /\ Ended(c).at = "gone"
BY NewClientOK DEF ClientOK, NewClient, Ended

\* A client that a JOIN_ACCEPT reaches plays under the id in it.
LEMMA AcceptedOK ==
    ASSUME NEW c, ClientOK(c), NEW id \in PlayerIds
    PROVE  /\ ClientOK(Accepted(c, id))
           /\ Accepted(c, id).at = "playing"
           /\ Accepted(c, id).my_pid = id
           /\ Accepted(c, id).moves = c.moves
BY DEF ClientOK, NewClient, Accepted

\* F3 changes neither the id nor the inputs of a client.
LEMMA ToggledOK ==
    ASSUME NEW c, ClientOK(c)
    PROVE  /\ ClientOK(Toggled(c))
           /\ Toggled(c).at = c.at
           /\ Toggled(c).my_pid = c.my_pid
           /\ Toggled(c).moves = c.moves
BY DEF ClientOK, NewClient, Toggled

\* Replaying the window ends in the arena.
LEMMA WindowReplays ==
    ASSUME NEW window \in Seq(WindowInputs), NEW from \in Arena, NEW ack
    PROVE  Replay(window, from, ack) \in Arena
<1>1. Len(window) \in Nat /\ \A i \in 1..Len(window) : window[i] \in WindowInputs
  OBVIOUS
<1>2. Replayable(window)
  BY <1>1 DEF Replayable, WindowInputs
<1> DEFINE pos == Positions(window, from, ack)
<1>3. pos \in [0..Len(window) -> Arena]
  BY <1>2, PositionsOneByOne
<1>4. Replay(window, from, ack) = pos[Len(window)]
  BY DEF Replay
<1> HIDE DEF pos
<1> QED BY <1>1, <1>3, <1>4

\* The window forgets what does not fit.
LEMMA WindowBounded ==
    ASSUME NEW window \in Seq(WindowInputs), NEW input \in WindowInputs,
           Len(window) <= INPUT_HISTORY_SIZE
    PROVE  /\ Remembered(window, input) \in Seq(WindowInputs)
           /\ Len(Remembered(window, input)) <= INPUT_HISTORY_SIZE
<1> DEFINE longer == Append(window, input)
<1>1. longer \in Seq(WindowInputs) /\ Len(longer) = Len(window) + 1
  OBVIOUS
<1> HIDE DEF longer
<1>2. /\ Len(window) \in Nat /\ INPUT_HISTORY_SIZE \in Nat
      /\ longer # <<>>
  BY <1>1, ClientAssumption
<1>3. Tail(longer) \in Seq(WindowInputs) /\ Len(Tail(longer)) = Len(longer) - 1
  BY <1>1, <1>2
<1>4. Remembered(window, input) =
          IF Len(longer) > INPUT_HISTORY_SIZE THEN Tail(longer) ELSE longer
  BY DEF Remembered, longer
<1> QED BY <1>1, <1>2, <1>3, <1>4

\* A snapshot that has the client in it retires what it acknowledges.
LEMMA DrainedOK ==
    ASSUME NEW c, ClientOK(c),
           NEW states, states \in [DOMAIN states -> PlayerState]
    PROVE  /\ ClientOK(Drained(c, states))
           /\ Drained(c, states).at = c.at
           /\ Drained(c, states).my_pid = c.my_pid
           /\ Drained(c, states).moves = c.moves
           /\ c.my_pid \in DOMAIN states =>
                  \A seq \in c.pending \ Drained(c, states).pending :
                      seq <= states[c.my_pid].last_processed_input_seq
<1> DEFINE latest == Merged(c.latest_authoritative, states)
           mine   == latest[c.my_pid]
           ack    == mine.last_processed_input_seq
<1>0. latest \in [DOMAIN latest -> PlayerState]
  BY DEF Merged, ClientOK
<1>1. CASE c.my_pid \notin DOMAIN latest
  <2>1. c.my_pid \notin DOMAIN states
    BY <1>1 DEF Merged
  <2>2. Drained(c, states) = [c EXCEPT !.latest_authoritative = latest]
    BY <1>1 DEF Drained
  <2> HIDE DEF latest
  <2> QED BY <1>0, <2>1, <2>2 DEF ClientOK, NewClient
<1>2. CASE c.my_pid \in DOMAIN latest
  <2> DEFINE pos == IF c.prediction_enabled
                    THEN Replay(c.window, mine.pos, ack) ELSE mine.pos
  <2>1. Drained(c, states) =
            [c EXCEPT !.latest_authoritative = latest,
                      !.local_pos = pos,
                      !.pending = @ \ Retired(@, ack)]
    BY <1>2 DEF Drained
  <2>2. c.my_pid \in DOMAIN states => mine = states[c.my_pid]
    BY DEF Merged
  <2>6. pos \in Arena
    <3>1. mine.pos \in Arena
      BY <1>0, <1>2 DEF PlayerState
    <3>2. c.window \in Seq(WindowInputs)
      BY DEF ClientOK
    <3> HIDE DEF mine
    <3> QED BY <3>1, <3>2, WindowReplays
  <2> HIDE DEF pos, mine, latest
  <2>3. Drained(c, states).pending = c.pending \ Retired(c.pending, ack)
    BY <2>1 DEF ClientOK, NewClient
  <2>4. /\ Drained(c, states).at = c.at
        /\ Drained(c, states).my_pid = c.my_pid
        /\ Drained(c, states).moves = c.moves
        /\ Drained(c, states).next_seq = c.next_seq
        /\ Drained(c, states).window = c.window
        /\ Drained(c, states).local_pos = pos
        /\ Drained(c, states).latest_authoritative = latest
        /\ DOMAIN Drained(c, states) = DOMAIN c
    BY <2>1 DEF ClientOK, NewClient
  <2>5. ClientOK(Drained(c, states))
    BY <1>0, <2>3, <2>4, <2>6 DEF ClientOK
  <2> QED BY <2>2, <2>3, <2>4, <2>5 DEF Retired
<1> QED BY <1>1, <1>2

\* An input made is recorded under its number, and those before it stay.
LEMMA InputMadeOK ==
    ASSUME NEW c, ClientOK(c), c.at = "playing",
           NEW move \in Presses(c), NEW d \in InputMade(c, move)
    PROVE  /\ ClientOK(d)
           /\ d.at = c.at
           /\ d.my_pid = c.my_pid
           /\ DOMAIN d.moves = DOMAIN c.moves \cup {c.next_seq}
           /\ d.moves[c.next_seq] = move
           /\ \A seq \in DOMAIN c.moves : d.moves[seq] = c.moves[seq]
<1> DEFINE pressed == IF c.prediction_enabled THEN move ELSE Still
           window  == Remembered(c.window,
                                 Input(c.next_seq, pressed[1], pressed[2], 1))
           pos     == IF c.prediction_enabled
                      THEN apply_move(c.local_pos, move[1], move[2], 1)
                      ELSE c.local_pos
           made    == c.pending \cup {c.next_seq}
           moves   == Put(c.moves, c.next_seq, move)
           next    == IF c.next_seq < MaxSeq THEN c.next_seq + 1
                      ELSE c.next_seq
<1>1. \A field \in {"window", "local_pos", "pending", "moves", "next_seq",
                    "at", "my_pid", "latest_authoritative"} :
          field \in DOMAIN c
  BY DEF ClientOK, NewClient
<1>2. PICK kept \in Bounded(made, c.next_seq) :
          d = [c EXCEPT !.window = window, !.local_pos = pos,
                        !.pending = kept, !.moves = moves,
                        !.next_seq = next]
  BY <1>1 DEF InputMade
<1>11. move[1] \in Axis /\ move[2] \in Axis /\ 0 \in Axis
  BY InputsAssumption DEF Presses, Still, Axis
<1>12. pos \in Arena
  BY <1>11, MoveEndsInArena DEF ClientOK
<1>13. window \in Seq(WindowInputs) /\ Len(window) <= INPUT_HISTORY_SIZE
  <2> DEFINE input == Input(c.next_seq, pressed[1], pressed[2], 1)
  <2>1. pressed[1] \in Axis /\ pressed[2] \in Axis
    BY <1>11 DEF Still
  <2>2. c.next_seq \in Nat
    BY SeqAssumption DEF ClientOK
  <2> HIDE DEF pressed
  <2>3. input \in WindowInputs
    BY <2>1, <2>2 DEF Input, WindowInputs
  <2> HIDE DEF input
  <2>4. c.window \in Seq(WindowInputs) /\ Len(c.window) <= INPUT_HISTORY_SIZE
    BY DEF ClientOK
  <2> QED BY <2>3, <2>4, WindowBounded DEF input
<1> HIDE DEF window, pos, moves, next, made
<1>3. /\ DOMAIN d = DOMAIN c
      /\ d.window = window /\ d.local_pos = pos
      /\ d.latest_authoritative = c.latest_authoritative
      /\ d.at = c.at /\ d.my_pid = c.my_pid
      /\ d.pending = kept /\ d.moves = moves /\ d.next_seq = next
  BY <1>1, <1>2
<1>4. /\ c.next_seq \in 1..MaxSeq /\ MaxSeq \in Nat
      /\ DOMAIN c.moves \subseteq 1..c.next_seq
      /\ c.next_seq \in DOMAIN c.moves => c.next_seq = MaxSeq
      /\ MaxSeq \in DOMAIN c.moves => c.moves[MaxSeq] = Still
      /\ c.pending \subseteq 1..MaxSeq
  BY SeqAssumption DEF ClientOK
<1>5. kept \subseteq 1..MaxSeq
  <2>1. kept \subseteq made
    BY <1>2 DEF Bounded
  <2> QED BY <1>4, <2>1 DEF made
<1>6. /\ DOMAIN moves = DOMAIN c.moves \cup {c.next_seq}
      /\ moves[c.next_seq] = move
      /\ \A seq \in DOMAIN c.moves : seq # c.next_seq => moves[seq] = c.moves[seq]
  BY DEF moves, Put
<1>7. c.next_seq = MaxSeq => move = Still
  BY DEF Presses
<1>8. \A seq \in DOMAIN c.moves : moves[seq] = c.moves[seq]
  BY <1>4, <1>6, <1>7
<1>9. /\ next \in 1..MaxSeq
      /\ DOMAIN moves \subseteq 1..next
      /\ next \in DOMAIN moves => next = MaxSeq
  BY <1>4, <1>6 DEF next
<1>10. MaxSeq \in DOMAIN moves => moves[MaxSeq] = Still
  BY <1>4, <1>6, <1>7, <1>8
<1> QED BY <1>3, <1>5, <1>6, <1>8, <1>9, <1>10, <1>12, <1>13 DEF ClientOK

-----------------------------------------------------------------------------
\* A datagram of a client is one the server may get from anybody.
LEMMA HandledIsInbound ==
    ASSUME NEW e, NEW p, PacketOK(p), Handled(e, p)
    PROVE  Inbound(e)
<1>1. CASE p.type = "JOIN_REQUEST"
  BY <1>1 DEF Handled, Inbound
<1>2. CASE p.type = "INPUT_COMMAND"
  <2>1. /\ p.player_id \in PlayerIds /\ p.seq \in Seqs
        /\ <<p.mx, p.my>> \in MoveInputs
    BY <1>2, LinkAssumption DEF PacketOK
  <2>2. InputCommand(e, p.player_id, p.seq, <<p.mx, p.my>>[1],
                     <<p.mx, p.my>>[2])
    BY <1>2 DEF Handled
  <2> QED BY <2>1, <2>2 DEF Inbound
<1>3. CASE p.type = "DISCONNECT_NOTICE"
  BY <1>3 DEF Handled, Inbound, PacketOK
<1> QED BY <1>1, <1>2, <1>3 DEF Handled

\* Every step of the composed game is one of the server, or leaves it alone.
LEMMA LinkStepOfServer == LinkTyped /\ [LinkNext]_linkVars => [Next]_serverVars
<1> SUFFICES ASSUME LinkTyped, [LinkNext]_linkVars PROVE [Next]_serverVars
  OBVIOUS
<1>1. ASSUME NEW e \in Clients, ServerReceives(e)
      PROVE  Next
  <2>1. \E p : PacketOK(p) /\ Handled(e, p)
    BY <1>1 DEF ServerReceives, LinkTyped
  <2> QED BY <2>1, HandledIsInbound, LinkAssumption DEF Next
<1>2. ASSUME NEW e \in Endpoints, StrangerSends(e)
      PROVE  Next
  BY <1>2 DEF StrangerSends, Next
<1>3. ASSUME NEW e \in Clients, ClientStep(e)
      PROVE  UNCHANGED serverVars
  BY <1>3 DEF ClientStep, Start, GiveUp, ClientReceives, MakeInput,
              TogglePrediction, Leave
<1>4. ASSUME LinkTick \/ LinkElapse
      PROVE  Next
  BY <1>4 DEF LinkTick, LinkElapse, Next
<1>5. ASSUME UNCHANGED linkVars
      PROVE  UNCHANGED serverVars
  BY <1>5 DEF linkVars
<1> QED BY <1>1, <1>2, <1>3, <1>4, <1>5 DEF LinkNext

-----------------------------------------------------------------------------
\* A player's steering is as it was, or is that of a newer input.
SteeringKept(i) ==
    /\ players'[i].latest_seen_seq = players[i].latest_seen_seq
    /\ players'[i].pending_mx = players[i].pending_mx
    /\ players'[i].pending_my = players[i].pending_my

SteeredBy(i, seq, mx, my) ==
    /\ players'[i].latest_seen_seq = seq
    /\ seq >= players[i].latest_seen_seq
    /\ <<players'[i].pending_mx, players'[i].pending_my>> = <<mx, my>>

\* A step of the server that handles no datagram of e.
OthersStep(e) ==
    \/ \E x \in Endpoints \ {e} : Inbound(x)
    \/ TickAndMaybeBroadcast
    \/ Elapse
    \/ UNCHANGED serverVars

\* Nobody else seats e.
LEMMA OthersSeatNot ==
    ASSUME ServerInv, NEW e, OthersStep(e), e \in DOMAIN sessions'
    PROVE  e \in DOMAIN sessions
<1>1. ASSUME NEW x \in Endpoints \ {e}, JoinRequest(x)
      PROVE  e \in DOMAIN sessions
  <2>1. CASE GetSession(x)
    BY <2>1 DEF GetSession, Refreshed
  <2>2. CASE \E id \in next_free_id : Register(x, id)
    BY <1>1, <2>2 DEF Register, Put
  <2> QED BY <1>1, <2>1, <2>2 DEF JoinRequest
<1>2. CASE \/ \E x \in Endpoints : JoinRequestWhenFull(x)
           \/ Elapse
           \/ UNCHANGED serverVars
  BY <1>2 DEF JoinRequestWhenFull, Refuse, sessionVars, Elapse, Age,
              serverVars
<1>3. CASE \E x, id, seq, mx, my : InputCommand(x, id, seq, mx, my)
  BY <1>3 DEF InputCommand, Touch, Refreshed
<1>4. CASE \E x, id : DisconnectNotice(x, id)
  BY <1>4 DEF DisconnectNotice, RemoveByEndpoint, Erase, Restrict
<1>5. CASE TickAndMaybeBroadcast
  BY <1>5 DEF TickAndMaybeBroadcast, ReapTimeouts, Erase, Restrict
<1> QED BY <1>1, <1>2, <1>3, <1>4, <1>5 DEF OthersStep, Inbound

\* The player of a seat, before and after a step that keeps the seat.
LEMMA SeatedPlayer ==
    ASSUME ServerInv, NEW e \in DOMAIN sessions
    PROVE  /\ sessions[e].player_id \in DOMAIN players
           /\ players[sessions[e].player_id] \in Player
BY DEF ServerInv, TableOK, IndexesAgree, PlayersOK

\* Nobody else steers e's player.
LEMMA OthersSteerNot ==
    ASSUME ServerInv, ServerInv', NEW e \in DOMAIN sessions, OthersStep(e),
           [Next]_serverVars, e \in DOMAIN sessions'
    PROVE  SteeringKept(sessions[e].player_id)
<1> DEFINE i == sessions[e].player_id
<1>0. /\ i \in DOMAIN players \cap DOMAIN players'
      /\ players[i] \in Player
  <2>1. i \in DOMAIN players /\ players[i] \in Player
    BY SeatedPlayer
  <2>2. sessions'[e].player_id \in DOMAIN players'
    BY DEF ServerInv, TableOK, IndexesAgree, PlayersOK
  <2>3. sessions'[e].player_id = i
    BY SeatKeptNext
  <2> QED BY <2>1, <2>2, <2>3
<1>1. ASSUME NEW x \in Endpoints \ {e}, NEW id \in PlayerIds, NEW seq \in Seqs,
             NEW m \in MoveInputs, InputCommand(x, id, seq, m[1], m[2])
      PROVE  players'[i] = players[i]
  <2>1. m[1] \in Int /\ m[2] \in Int
    BY ServerAssumption
  <2>2. ~(x \in DOMAIN sessions /\ sessions[x].player_id = i)
    BY <1>1 DEF ServerInv, TableOK, IndexesAgree
  <2> QED BY <1>0, <1>1, <2>1, <2>2, InputSteersOwn
<1> HIDE DEF i
<1>2. ASSUME \/ \E x \in Endpoints : JoinRequest(x) \/ JoinRequestWhenFull(x)
             \/ \E x, id : DisconnectNotice(x, id)
             \/ TickAndMaybeBroadcast
             \/ Elapse
             \/ UNCHANGED serverVars
      PROVE  SteeringKept(i)
  <2>1. \/ players'[i] = players[i]
        \/ players'[i] = [players[i] EXCEPT
                             !.pos = apply_move(players[i].pos,
                                                players[i].pending_mx,
                                                players[i].pending_my, 1)]
    BY <1>0, <1>2, PlayerUnsteered
  <2> QED BY <1>0, <2>1 DEF Player, SteeringKept
<1>3. SteeringKept(i)
  BY <1>1, <1>2 DEF OthersStep, Inbound, SteeringKept
<1> QED BY <1>3 DEF i

\* An input of e's steers e's player by what it carries, or not at all.
LEMMA OwnInput ==
    ASSUME ServerInv, NEW e \in DOMAIN sessions, NEW p, PacketOK(p),
           p.type = "INPUT_COMMAND", Handled(e, p)
    PROVE  /\ DOMAIN sessions' = DOMAIN sessions
           /\ \/ SteeringKept(sessions[e].player_id)
              \/ SteeredBy(sessions[e].player_id, p.seq, p.mx, p.my)
<1> DEFINE i == sessions[e].player_id
<1>1. InputCommand(e, p.player_id, p.seq, p.mx, p.my)
  BY DEF Handled
<1>2. /\ p.seq \in Seqs
      /\ p.mx \in Axis /\ p.my \in Axis
  BY InputsAssumption DEF PacketOK, Axis, Still
<1>3. p.mx \in Int /\ p.my \in Int
  BY <1>2 DEF Axis
<1>4. DOMAIN sessions' = DOMAIN sessions
  BY <1>1 DEF InputCommand, Touch, Refreshed
<1>5. i \in DOMAIN players /\ players[i] \in Player
  BY SeatedPlayer
<1> HIDE DEF i
<1>6. ASSUME players'[i] # players[i]
      PROVE  SteeredBy(i, p.seq, p.mx, p.my)
  <2>1. players' = apply_input(players, i, p.seq, p.mx, p.my)
    BY <1>1, <1>2, <1>3, <1>5, <1>6, InputSteersOwn
  <2>2. p.seq >= players[i].latest_seen_seq
    BY <1>6, <2>1 DEF apply_input
  <2>3. clampf(p.mx, -1, 1) = p.mx /\ clampf(p.my, -1, 1) = p.my
    BY <1>2 DEF clampf, Axis
  <2> QED BY <1>5, <2>1, <2>2, <2>3 DEF apply_input, Player, SteeredBy
<1>7. SteeringKept(i) \/ SteeredBy(i, p.seq, p.mx, p.my)
  BY <1>6 DEF SteeringKept
<1> QED BY <1>4, <1>7 DEF i

-----------------------------------------------------------------------------
\* A step of the server as a client at e sees it: some datagrams under way
\* are gone, and those that are new have just been sent.
ServerSide(e) ==
    /\ [Next]_serverVars
    /\ UNCHANGED client
    /\ up' \subseteq up
    /\ \A d \in down' : d \in down \/ d \in sent'

\* What the server has just sent is typed and about its recipient's seat.
SentToSeat ==
    \A d \in sent :
        /\ ReplyOK(d)
        /\ d.to \in DOMAIN sessions
        /\ LET id == sessions[d.to].player_id
           IN  /\ d.type = "JOIN_ACCEPT" => d.player_id = id
               /\ d.type = "WORLD_SNAPSHOT" =>
                      /\ id \in DOMAIN d.players
                      /\ d.players[id].last_processed_input_seq
                             = players[id].latest_seen_seq

\* Whatever the server sends is sent to a seat, and tells it its own id or the
\* newest input seen of it.
LEMMA SentIsToSeat ==
    ServerInv /\ AckIsNewest /\ SentServesRecipient => SentToSeat
<1> SUFFICES ASSUME ServerInv, AckIsNewest, SentServesRecipient,
                    NEW d \in sent
             PROVE  /\ ReplyOK(d)
                    /\ d.to \in DOMAIN sessions
                    /\ LET id == sessions[d.to].player_id
                       IN  /\ d.type = "JOIN_ACCEPT" => d.player_id = id
                           /\ d.type = "WORLD_SNAPSHOT" =>
                                  /\ id \in DOMAIN d.players
                                  /\ d.players[id].last_processed_input_seq
                                         = players[id].latest_seen_seq
  BY DEF SentToSeat
<1>1. /\ d.to \in DOMAIN sessions
      /\ sessions[d.to].player_id \in DOMAIN players
  BY SeatedPlayer DEF SentServesRecipient
<1>2. CASE \E e \in Endpoints, id \in PlayerIds : d = JoinAccept(e, id)
  BY <1>1, <1>2 DEF JoinAccept, ReplyOK, SentServesRecipient
<1>3. CASE \E e \in Endpoints, t \in Ticks :
               /\ d = WorldSnapshot(e, t, d.players)
               /\ d.players \in [DOMAIN d.players -> PlayerState]
  <2>1. d.type = "WORLD_SNAPSHOT"
    BY <1>3 DEF WorldSnapshot
  <2> QED BY <1>1, <1>3, <2>1 DEF ReplyOK, SentServesRecipient, AckIsNewest
<1> QED BY <1>2, <1>3 DEF ServerInv, SentTyped

\* A client of which nobody has heard is unheard of until it is seated.
LEMMA UnheardStays ==
    ASSUME NEW e, Unheard(e), ServerSide(e),
           SentToSeat', e \notin DOMAIN sessions'
    PROVE  Unheard(e)'
<1>1. \A d \in sent' : d.to # e
  BY DEF SentToSeat
<1>2. UNCHANGED client
  BY DEF ServerSide
<1> QED BY <1>1, <1>2 DEF Unheard, ServerSide

\* The server answers the one JOIN_REQUEST of e, which has the id from here
\* on and starts from nothing.
LEMMA UnheardIsSeated ==
    ASSUME LinkInv, NEW e \in Clients, Unheard(e), ServerSide(e),
           SentToSeat', NEW d \in up, d.from = e, up' = up \ {d},
           e \in DOMAIN sessions', NEW i, i = sessions'[e].player_id
    PROVE  Has(e, i)'
<1>1. players'[i] = NewPlayer
  BY SeatFreshNext DEF LinkInv, Unheard, ServerSide
<1>2. /\ client' = client
      /\ client[e].at = "joining"
      /\ DOMAIN client[e].moves = {}
  BY DEF Unheard, ServerSide, LinkInv, LinkTyped, ClientOK
<1>3. \A other \in up' : other.from # e
  <2>1. \A any \in up : any.from = e => any = d
    BY DEF Unheard, LinkInv, LinkTyped
  <2> QED BY <2>1
<1>4. ASSUME NEW reply \in down', reply.to = e
      PROVE  /\ reply.type = "JOIN_ACCEPT" => reply.player_id = i
             /\ reply.type = "WORLD_SNAPSHOT" =>
                    /\ i \in DOMAIN reply.players
                    /\ reply.players[i].last_processed_input_seq = 0
  <2>1. reply \in sent'
    BY <1>4 DEF Unheard, ServerSide
  <2> QED BY <1>1, <1>4, <2>1 DEF SentToSeat, NewPlayer
<1>5. players'[i].latest_seen_seq = 0
  BY <1>1 DEF NewPlayer
<1> QED BY <1>2, <1>3, <1>4, <1>5 DEF Has, Seen

\* A client that has an id keeps it through every step of the server that
\* does not seat it anew and steers its player by its own inputs only.
LEMMA HasStays ==
    ASSUME LinkInv, NEW e \in Clients, NEW i, Has(e, i), ServerSide(e),
           ServerInv', SentToSeat',
           e \in DOMAIN sessions' =>
               /\ e \in DOMAIN sessions
               /\ \/ SteeringKept(i)
                  \/ \E d \in up :
                         /\ d.from = e
                         /\ SteeredBy(i, d.packet.seq, d.packet.mx,
                                      d.packet.my)
    PROVE  Has(e, i)'
<1> DEFINE c == client[e]
<1>1. client' = client
  BY DEF ServerSide
<1>2. ASSUME e \in DOMAIN sessions'
      PROVE  /\ sessions'[e].player_id = i
             /\ Seen(c, players'[i].latest_seen_seq)
             /\ \/ players'[i].latest_seen_seq = 0
                \/ <<players'[i].pending_mx, players'[i].pending_my>>
                       = c.moves[players'[i].latest_seen_seq]
             /\ players'[i].latest_seen_seq >= players[i].latest_seen_seq
  <2>1. e \in DOMAIN sessions /\ sessions[e].player_id = i
    BY <1>2 DEF Has
  <2>2. sessions'[e].player_id = i
    BY <1>2, <2>1, SeatKeptNext DEF LinkInv, ServerSide
  <2>3. players[i].latest_seen_seq \in Int
    BY <2>1, SeatedPlayer, SeqAssumption DEF LinkInv, Player, Seqs
  <2>4. CASE SteeringKept(i)
    BY <2>1, <2>2, <2>3, <2>4 DEF SteeringKept, Has
  <2>5. CASE \E d \in up :
                 /\ d.from = e
                 /\ SteeredBy(i, d.packet.seq, d.packet.mx, d.packet.my)
    BY <2>1, <2>2, <2>5 DEF SteeredBy, Has, Seen
  <2> QED BY <1>2, <2>4, <2>5
<1>3. ASSUME NEW d \in down', d.to = e
      PROVE  /\ d.type = "JOIN_ACCEPT" => d.player_id = i
             /\ d.type = "WORLD_SNAPSHOT" =>
                    /\ i \in DOMAIN d.players
                    /\ Seen(c, d.players[i].last_processed_input_seq)
                    /\ e \in DOMAIN sessions' =>
                           d.players[i].last_processed_input_seq
                               <= players'[i].latest_seen_seq
  <2>1. CASE d \in down
    <3>1. /\ d.type = "JOIN_ACCEPT" => d.player_id = i
          /\ d.type = "WORLD_SNAPSHOT" =>
                 /\ i \in DOMAIN d.players
                 /\ Seen(c, d.players[i].last_processed_input_seq)
                 /\ e \in DOMAIN sessions =>
                        d.players[i].last_processed_input_seq
                            <= players[i].latest_seen_seq
      BY <1>3, <2>1 DEF Has
    <3>2. ASSUME d.type = "WORLD_SNAPSHOT", e \in DOMAIN sessions'
          PROVE  d.players[i].last_processed_input_seq
                     <= players'[i].latest_seen_seq
      <4>1. /\ e \in DOMAIN sessions
            /\ sessions[e].player_id = i
        BY <3>2 DEF Has
      <4>2. /\ players[i].latest_seen_seq \in Int
            /\ players'[i].latest_seen_seq \in Int
        <5>1. players[i] \in Player
          BY <4>1, SeatedPlayer DEF LinkInv
        <5>2. players'[i] \in Player
          BY <1>2, <3>2 DEF ServerInv, TableOK, IndexesAgree, PlayersOK
        <5> QED BY <5>1, <5>2, SeqAssumption DEF Player, Seqs
      <4>3. d.players[i].last_processed_input_seq \in Int
        <5>1. d.players[i] \in PlayerState
          BY <2>1, <3>1, <3>2 DEF LinkInv, LinkTyped, ReplyOK
        <5> QED BY <5>1, SeqAssumption DEF PlayerState, Seqs
      <4> QED BY <1>2, <3>1, <3>2, <4>1, <4>2, <4>3
    <3> QED BY <3>1, <3>2
  <2>2. CASE d \in sent'
    <3>1. /\ e \in DOMAIN sessions'
          /\ d.type = "JOIN_ACCEPT" => d.player_id = sessions'[e].player_id
          /\ d.type = "WORLD_SNAPSHOT" =>
                 /\ sessions'[e].player_id \in DOMAIN d.players
                 /\ d.players[sessions'[e].player_id].last_processed_input_seq
                        = players'[sessions'[e].player_id].latest_seen_seq
      BY <1>3, <2>2 DEF SentToSeat
    <3>2. players'[i].latest_seen_seq \in Int
      <4>1. players'[i] \in Player
        BY <1>2, <3>1 DEF ServerInv, TableOK, IndexesAgree, PlayersOK
      <4> QED BY <4>1, SeqAssumption DEF Player, Seqs
    <3> QED BY <1>2, <3>1, <3>2
  <2> QED BY <2>1, <2>2 DEF ServerSide
<1>4. \A d \in up' : d \in up
  BY DEF ServerSide
<1> QED BY <1>1, <1>2, <1>3, <1>4 DEF Has

-----------------------------------------------------------------------------
\* What is under way is typed after a step of the server.
LEMMA ServerSideTyped ==
    ASSUME LinkTyped, NEW e, ServerSide(e), SentToSeat',
           \A d \in down' : d.to \in Clients
    PROVE  LinkTyped'
<1>1. \A d \in down' : ReplyOK(d)
  BY DEF ServerSide, SentToSeat, LinkTyped
<1> QED BY <1>1 DEF ServerSide, LinkTyped

\* A step of the server that handles no datagram of e.
LEMMA OthersStepKeeps ==
    ASSUME LinkInv, NEW e \in Clients, ServerSide(e), OthersStep(e),
           ServerInv', SentToSeat'
    PROVE  Connection(e)'
<1>1. e \in DOMAIN sessions' => e \in DOMAIN sessions
  BY OthersSeatNot DEF LinkInv
<1>2. CASE client[e].at = "gone"
  BY <1>2 DEF Connection, ServerSide
<1>3. CASE Unheard(e)
  <2>1. e \notin DOMAIN sessions'
    BY <1>1, <1>3 DEF Unheard
  <2> QED BY <1>3, <2>1, UnheardStays DEF Connection
<1>4. ASSUME NEW i, Has(e, i)
      PROVE  Connection(e)'
  <2>1. ASSUME e \in DOMAIN sessions'
        PROVE  e \in DOMAIN sessions /\ SteeringKept(i)
    <3>1. e \in DOMAIN sessions /\ sessions[e].player_id = i
      BY <1>1, <1>4, <2>1 DEF Has
    <3> QED BY <2>1, <3>1, OthersSteerNot DEF LinkInv, ServerSide
  <2>2. Has(e, i)'
    BY <1>4, <2>1, HasStays
  <2> QED BY <2>2 DEF Connection
<1> QED BY <1>2, <1>3, <1>4 DEF LinkInv, Connection

\* The server handles a datagram of e.
LEMMA OwnStepKeeps ==
    ASSUME LinkInv, NEW e \in Clients, ServerSide(e),
           ServerInv', SentToSeat',
           NEW d \in up, d.from = e, up' = up \ {d}, Handled(e, d.packet)
    PROVE  Connection(e)'
<1>1. CASE client[e].at = "gone"
  BY <1>1 DEF Connection, ServerSide
<1>2. CASE Unheard(e)
  <2>1. CASE e \notin DOMAIN sessions'
    BY <1>2, <2>1, UnheardStays DEF Connection
  <2>2. CASE e \in DOMAIN sessions'
    <3>1. \E i : i = sessions'[e].player_id
      OBVIOUS
    <3>2. PICK i : i = sessions'[e].player_id
      BY <3>1
    <3>3. Has(e, i)'
      BY <1>2, <2>2, <3>2, UnheardIsSeated
    <3> QED BY <3>3 DEF Connection
  <2> QED BY <2>1, <2>2
<1>3. ASSUME NEW i, Has(e, i)
      PROVE  Connection(e)'
  <2>1. /\ d.packet.type = "INPUT_COMMAND"
        /\ PacketOK(d.packet)
    BY <1>3 DEF Has, LinkInv, LinkTyped
  <2>2. DOMAIN sessions' = DOMAIN sessions
    BY <2>1 DEF Handled, InputCommand, Touch, Refreshed
  <2>3. ASSUME e \in DOMAIN sessions'
        PROVE  \/ SteeringKept(i)
               \/ SteeredBy(i, d.packet.seq, d.packet.mx, d.packet.my)
    <3>1. e \in DOMAIN sessions /\ sessions[e].player_id = i
      BY <1>3, <2>2, <2>3 DEF Has
    <3> QED BY <2>1, <3>1, OwnInput DEF LinkInv
  <2>4. Has(e, i)'
    BY <1>3, <2>2, <2>3, HasStays
  <2> QED BY <2>4 DEF Connection
<1> QED BY <1>1, <1>2, <1>3 DEF LinkInv, Connection

\* Every step of the server keeps what the clients and it know of each other.
LEMMA ServerStepKeeps ==
    ASSUME LinkInv, NEW e \in Clients, SentToSeat', ServerInv',
           \/ \E x \in Clients : ServerReceives(x)
           \/ \E x \in Endpoints \ Clients : StrangerSends(x)
           \/ LinkTick
           \/ LinkElapse
    PROVE  /\ ServerSide(e)
           /\ \A d \in down' : d.to \in Clients
           /\ Connection(e)'
<1>1. /\ ServerSide(e)
      /\ \A d \in down' : d.to \in Clients
  <2>1. [Next]_serverVars
    BY LinkStepOfServer DEF LinkInv, LinkNext
  <2>2. \A d \in down' : d \in down \/ (d \in sent' /\ d.to \in Clients)
    BY DEF ServerReceives, StrangerSends, LinkTick, LinkElapse, Downlink
  <2>3. UNCHANGED client /\ up' \subseteq up
    BY DEF ServerReceives, StrangerSends, LinkTick, LinkElapse
  <2> QED BY <2>1, <2>2, <2>3 DEF ServerSide, LinkInv, LinkTyped
<1>2. ASSUME NEW x \in Clients, ServerReceives(x)
      PROVE  Connection(e)'
  <2>1. PICK d \in up :
            d.from = x /\ up' = up \ {d} /\ Handled(x, d.packet)
    BY <1>2 DEF ServerReceives
  <2>2. CASE x = e
    BY <1>1, <2>1, <2>2, OwnStepKeeps
  <2>3. CASE x # e
    <3>1. Inbound(x)
      BY <2>1, HandledIsInbound DEF LinkInv, LinkTyped
    <3>2. OthersStep(e)
      BY <2>3, <3>1, LinkAssumption DEF OthersStep
    <3> QED BY <1>1, <3>2, OthersStepKeeps
  <2> QED BY <2>2, <2>3
<1>3. ASSUME \/ \E x \in Endpoints \ Clients : StrangerSends(x)
             \/ LinkTick
             \/ LinkElapse
      PROVE  Connection(e)'
  <2>1. OthersStep(e)
    BY <1>3 DEF StrangerSends, LinkTick, LinkElapse, OthersStep
  <2> QED BY <1>1, <2>1, OthersStepKeeps
<1> QED BY <1>1, <1>2, <1>3

-----------------------------------------------------------------------------
\* A datagram that a client sends gets on its way or does not.
LEMMA UplinkAdds ==
    ASSUME NEW e, NEW p, Uplink(e, p), NEW d \in up'
    PROVE  d \in up \/ d = [from |-> e, packet |-> p]
BY DEF Uplink

\* What another client does is no concern of e's.
LEMMA OtherClientStep ==
    ASSUME NEW e \in Clients, Connection(e), UNCHANGED serverVars,
           client'[e] = client[e],
           \A d \in up' : d.from = e => d \in up,
           \A d \in down' : d \in down
    PROVE  Connection(e)'
<1>1. UNCHANGED <<sessions, players>>
  BY DEF serverVars
<1>2. CASE client[e].at = "gone"
  BY <1>2 DEF Connection
<1>3. CASE Unheard(e)
  BY <1>1, <1>3 DEF Connection, Unheard
<1>4. ASSUME NEW i, Has(e, i)
      PROVE  Connection(e)'
  <2>1. Has(e, i)'
    BY <1>1, <1>4 DEF Has, Seen
  <2> QED BY <2>1 DEF Connection
<1> QED BY <1>2, <1>3, <1>4 DEF Connection

\* A client that has an id goes on under it, when what it recorded stays
\* recorded and what it sends is an input it recorded.
LEMMA HasGoesOn ==
    ASSUME NEW e \in Clients, NEW i, Has(e, i), UNCHANGED serverVars,
           client'[e].at \in {"joining", "playing"},
           client'[e].at = "playing" => client'[e].my_pid = i,
           DOMAIN client[e].moves \subseteq DOMAIN client'[e].moves,
           \A seq \in DOMAIN client[e].moves :
               client'[e].moves[seq] = client[e].moves[seq],
           \A d \in up' :
               d.from = e =>
                   \/ d \in up
                   \/ /\ d.packet.type = "INPUT_COMMAND"
                      /\ d.packet.seq \in DOMAIN client'[e].moves
                      /\ <<d.packet.mx, d.packet.my>> =
                             client'[e].moves[d.packet.seq],
           \A d \in down' : d \in down
    PROVE  Has(e, i)'
<1>1. UNCHANGED <<sessions, players>>
  BY DEF serverVars
<1>2. \A d \in up' :
          d.from = e =>
              /\ d.packet.type = "INPUT_COMMAND"
              /\ d.packet.seq \in DOMAIN client'[e].moves
              /\ <<d.packet.mx, d.packet.my>> =
                     client'[e].moves[d.packet.seq]
  BY DEF Has
<1>3. \A seq : Seen(client[e], seq) => Seen(client'[e], seq)
  BY DEF Seen
<1>4. \A d \in down' :
          d.to = e =>
              /\ d.type = "JOIN_ACCEPT" => d.player_id = i
              /\ d.type = "WORLD_SNAPSHOT" =>
                     /\ i \in DOMAIN d.players
                     /\ Seen(client'[e], d.players[i].last_processed_input_seq)
                     /\ e \in DOMAIN sessions' =>
                            d.players[i].last_processed_input_seq
                                <= players'[i].latest_seen_seq
  BY <1>1, <1>3 DEF Has
<1>5. e \in DOMAIN sessions' =>
          /\ sessions'[e].player_id = i
          /\ Seen(client'[e], players'[i].latest_seen_seq)
          /\ \/ players'[i].latest_seen_seq = 0
             \/ <<players'[i].pending_mx, players'[i].pending_my>>
                    = client'[e].moves[players'[i].latest_seen_seq]
  BY <1>1, <1>3 DEF Has, Seen
<1> QED BY <1>2, <1>4, <1>5 DEF Has

\* What is under way is typed after a step of a client.
LEMMA ClientSideTyped ==
    ASSUME LinkTyped, NEW e \in Clients, NEW c, ClientOK(c),
           client' = [client EXCEPT ![e] = c],
           down' \subseteq down,
           up' = up \/ \E p : PacketOK(p) /\ Uplink(e, p)
    PROVE  LinkTyped'
<1>1. \A d \in up' :
          \/ d \in up
          \/ \E p : PacketOK(p) /\ d = [from |-> e, packet |-> p]
  BY UplinkAdds
<1>2. \A d \in up' :
          /\ d = [from |-> d.from, packet |-> d.packet]
          /\ d.from \in Clients
          /\ PacketOK(d.packet)
  BY <1>1 DEF LinkTyped
<1>3. /\ client' = [x \in Clients |-> client'[x]]
      /\ \A x \in Clients : client'[x] = IF x = e THEN c ELSE client[x]
  BY DEF LinkTyped
<1> QED BY <1>2, <1>3 DEF LinkTyped

\* A step of e's client, by what it makes of it and what it sends.
ClientSide(e, c) ==
    /\ UNCHANGED serverVars
    /\ ClientOK(c)
    /\ client' = [client EXCEPT ![e] = c]
    /\ down' \subseteq down
    /\ up' = up \/ \E p : PacketOK(p) /\ Uplink(e, p)

\* A client that starts asks for a seat, once.
LEMMA StartKeeps ==
    ASSUME LinkInv, NEW e \in Clients, Start(e)
    PROVE  /\ ClientSide(e, Started(client[e]))
           /\ Connection(e)'
<1> DEFINE c == Started(client[e])
<1>1. /\ ClientOK(c) /\ c.at = "joining"
      /\ client'[e] = c
  BY StartedOK DEF Start, LinkInv, LinkTyped
<1> HIDE DEF c
<1>2. Unheard(e)
  BY DEF Start, LinkInv, Connection, Has
<1>3. \A d \in up' : d.from = e => d.packet = [type |-> "JOIN_REQUEST"]
  <2>1. \A d \in up : d.from # e
    BY <1>2 DEF Unheard, Start
  <2> QED BY <2>1, UplinkAdds DEF Start
<1>4. UNCHANGED <<sessions, down>>
  BY DEF Start, serverVars
<1>5. Unheard(e)'
  BY <1>1, <1>2, <1>3, <1>4 DEF Unheard
<1>6. ClientSide(e, c)
  <2>1. Uplink(e, [type |-> "JOIN_REQUEST"])
    BY DEF Start
  <2>2. PacketOK([type |-> "JOIN_REQUEST"])
    BY DEF PacketOK
  <2> QED BY <1>1, <2>1, <2>2 DEF Start, ClientSide, c
<1> QED BY <1>5, <1>6 DEF Connection, c

\* A client that ends is forgotten, whatever of it is still under way.
LEMMA EndKeeps ==
    ASSUME LinkInv, NEW e \in Clients, GiveUp(e) \/ Leave(e)
    PROVE  /\ ClientSide(e, Ended(client[e]))
           /\ Connection(e)'
<1> DEFINE c == Ended(client[e])
<1>1. /\ ClientOK(c) /\ c.at = "gone"
      /\ client'[e] = c
  BY EndedOK DEF GiveUp, Leave, LinkInv, LinkTyped
<1> HIDE DEF c
<1>2. ClientSide(e, c)
  <2>1. CASE GiveUp(e)
    BY <1>1, <2>1 DEF GiveUp, ClientSide, c
  <2>2. CASE Leave(e)
    <3> DEFINE notice == [type |-> "DISCONNECT_NOTICE",
                          player_id |-> client[e].my_pid]
    <3>1. PacketOK(notice)
      BY <2>2 DEF Leave, LinkInv, LinkTyped, ClientOK, PacketOK
    <3>2. Uplink(e, notice)
      BY <2>2 DEF Leave
    <3> QED BY <1>1, <2>2, <3>1, <3>2 DEF Leave, ClientSide, c
  <2> QED BY <2>1, <2>2
<1> QED BY <1>1, <1>2 DEF Connection, c

\* F3 changes nothing that is said.
LEMMA ToggleKeeps ==
    ASSUME LinkInv, NEW e \in Clients, TogglePrediction(e)
    PROVE  /\ ClientSide(e, Toggled(client[e]))
           /\ Connection(e)'
<1> DEFINE c == Toggled(client[e])
<1>1. /\ ClientOK(c)
      /\ c.at = client[e].at /\ c.my_pid = client[e].my_pid
      /\ c.moves = client[e].moves
      /\ client'[e] = c
  BY ToggledOK DEF TogglePrediction, LinkInv, LinkTyped
<1> HIDE DEF c
<1>2. PICK i : Has(e, i)
  BY DEF TogglePrediction, LinkInv, Connection, Unheard
<1>3. Has(e, i)'
  <2>1. client[e].at = "playing" /\ client[e].my_pid = i
    BY <1>2 DEF TogglePrediction, Has
  <2> QED BY <1>1, <1>2, <2>1, HasGoesOn DEF TogglePrediction
<1>4. ClientSide(e, c)
  BY <1>1 DEF TogglePrediction, ClientSide, c
<1> QED BY <1>3, <1>4 DEF Connection, c

\* An input made is recorded before it is sent.
LEMMA MakeInputKeeps ==
    ASSUME LinkInv, NEW e \in Clients, MakeInput(e)
    PROVE  /\ \E c : ClientSide(e, c)
           /\ Connection(e)'
<1>1. PICK move \in Presses(client[e]) :
          /\ \E c \in InputMade(client[e], move) :
                 client' = [client EXCEPT ![e] = c]
          /\ Uplink(e, InputPacket(client[e], move))
  BY DEF MakeInput
<1>2. PICK c \in InputMade(client[e], move) :
          client' = [client EXCEPT ![e] = c]
  BY <1>1
<1>3. /\ client[e].at = "playing"
      /\ ClientOK(client[e])
      /\ client'[e] = c
  BY <1>2 DEF MakeInput, LinkInv, LinkTyped
<1>4. /\ ClientOK(c)
      /\ c.at = "playing"
      /\ c.my_pid = client[e].my_pid
      /\ DOMAIN c.moves = DOMAIN client[e].moves \cup {client[e].next_seq}
      /\ c.moves[client[e].next_seq] = move
      /\ \A seq \in DOMAIN client[e].moves : c.moves[seq] = client[e].moves[seq]
  BY <1>3, InputMadeOK
<1> DEFINE packet == InputPacket(client[e], move)
<1>5. /\ packet.type = "INPUT_COMMAND"
      /\ packet.player_id = client[e].my_pid
      /\ packet.seq = client[e].next_seq
      /\ packet.mx = move[1] /\ packet.my = move[2]
  BY DEF InputPacket
<1>6. move = <<move[1], move[2]>> /\ move \in Directions \cup {Still}
  BY InputsAssumption DEF Presses, Still
<1>7. PacketOK(packet)
  <2>1. client[e].next_seq \in Seqs
    BY <1>3, SeqAssumption DEF ClientOK, Seqs
  <2> QED BY <1>3, <1>5, <1>6, <2>1 DEF PacketOK, ClientOK
<1> HIDE DEF packet
<1>8. ClientSide(e, c)
  <2>1. Uplink(e, packet)
    BY <1>1 DEF packet
  <2> QED BY <1>2, <1>4, <1>7, <2>1 DEF MakeInput, ClientSide
<1>9. PICK i : Has(e, i)
  BY <1>3 DEF LinkInv, Connection, Unheard
<1>10. \A d \in up' :
           d.from = e =>
               \/ d \in up
               \/ /\ d.packet.type = "INPUT_COMMAND"
                  /\ d.packet.seq \in DOMAIN client'[e].moves
                  /\ <<d.packet.mx, d.packet.my>> =
                         client'[e].moves[d.packet.seq]
  <2>1. \A d \in up' : d \in up \/ d.packet = packet
    BY <1>1, UplinkAdds DEF packet
  <2> QED BY <1>3, <1>4, <1>5, <1>6, <2>1
<1>11. /\ UNCHANGED serverVars
       /\ \A d \in down' : d \in down
  BY DEF MakeInput
<1>12. client[e].my_pid = i
  BY <1>3, <1>9 DEF Has
<1>13. Has(e, i)'
  BY <1>3, <1>4, <1>9, <1>10, <1>11, <1>12, HasGoesOn
<1> QED BY <1>8, <1>13 DEF Connection

\* What a client receives is about its own seat: a JOIN_ACCEPT gives it the
\* id it has, and a snapshot retires what the server has seen.
LEMMA ClientReceivesKeeps ==
    ASSUME LinkInv, NEW e \in Clients, ClientReceives(e)
    PROVE  /\ \E c : ClientSide(e, c)
           /\ Connection(e)'
<1>1. PICK d \in down :
          /\ d.to = e
          /\ down' = down \ {d}
          /\ client' =
                 CASE d.type = "JOIN_ACCEPT" /\ client[e].at = "joining" ->
                          [client EXCEPT ![e] = Accepted(@, d.player_id)]
                   [] d.type = "WORLD_SNAPSHOT" /\ client[e].at = "playing" ->
                          [client EXCEPT ![e] = Drained(@, d.players)]
                   [] OTHER -> client
  BY DEF ClientReceives
<1>2. /\ ClientOK(client[e]) /\ ReplyOK(d)
      /\ e \in DOMAIN client
  BY DEF LinkInv, LinkTyped
<1>3. UNCHANGED <<serverVars, up>>
  BY DEF ClientReceives
<1>4. ASSUME NEW c, ClientOK(c), client' = [client EXCEPT ![e] = c],
             c.moves = client[e].moves,
             \/ c.at = client[e].at /\ c.my_pid = client[e].my_pid
             \/ /\ client[e].at = "joining" /\ d.type = "JOIN_ACCEPT"
                /\ c.at = "playing" /\ c.my_pid = d.player_id
      PROVE  /\ \E some : ClientSide(e, some)
             /\ Connection(e)'
  <2>1. ClientSide(e, c)
    BY <1>1, <1>3, <1>4 DEF ClientSide
  <2>2. client'[e] = c
    BY <1>2, <1>4
  <2>3. CASE client[e].at = "gone"
    BY <1>4, <2>1, <2>2, <2>3 DEF Connection
  <2>4. CASE Unheard(e)
    BY <1>1, <2>4 DEF Unheard
  <2>5. ASSUME NEW i, Has(e, i)
        PROVE  Connection(e)'
    <3>1. /\ c.at \in {"joining", "playing"}
          /\ c.at = "playing" => c.my_pid = i
      BY <1>1, <1>4, <2>5 DEF Has
    <3>2. Has(e, i)'
      BY <1>1, <1>3, <1>4, <2>2, <2>5, <3>1, HasGoesOn
    <3> QED BY <3>2 DEF Connection
  <2> QED BY <2>1, <2>3, <2>4, <2>5 DEF LinkInv, Connection
<1>5. CASE d.type = "JOIN_ACCEPT" /\ client[e].at = "joining"
  <2>1. client' = [client EXCEPT ![e] = Accepted(client[e], d.player_id)]
    BY <1>1, <1>5
  <2>2. d.player_id \in PlayerIds
    BY <1>2, <1>5 DEF ReplyOK
  <2> QED BY <1>2, <1>4, <1>5, <2>1, <2>2, AcceptedOK
<1>6. CASE d.type = "WORLD_SNAPSHOT" /\ client[e].at = "playing"
  <2>1. client' = [client EXCEPT ![e] = Drained(client[e], d.players)]
    BY <1>1, <1>6
  <2>2. d.players \in [DOMAIN d.players -> PlayerState]
    BY <1>2, <1>6 DEF ReplyOK
  <2> QED BY <1>2, <1>4, <2>1, <2>2, DrainedOK
<1>7. CASE /\ ~(d.type = "JOIN_ACCEPT" /\ client[e].at = "joining")
           /\ ~(d.type = "WORLD_SNAPSHOT" /\ client[e].at = "playing")
  <2>1. client' = client
    BY <1>1, <1>7
  <2>2. client' = [client EXCEPT ![e] = client[e]]
    <3>1. client = [x \in Clients |-> client[x]]
      BY DEF LinkInv, LinkTyped
    <3> QED BY <2>1, <3>1
  <2> QED BY <1>2, <1>4, <2>2
<1> QED BY <1>5, <1>6, <1>7

-----------------------------------------------------------------------------
\* A step of a client keeps what the clients and the server know of each
\* other.
LEMMA ClientStepKeeps ==
    ASSUME LinkInv, NEW e \in Clients, ClientStep(e)
    PROVE  /\ LinkTyped'
           /\ UNCHANGED serverVars
           /\ \A x \in Clients : Connection(x)'
<1>1. /\ \E c : ClientSide(e, c)
      /\ Connection(e)'
  BY StartKeeps, EndKeeps, ToggleKeeps, MakeInputKeeps, ClientReceivesKeeps
     DEF ClientStep
<1>2. PICK c : ClientSide(e, c)
  BY <1>1
<1>3. LinkTyped'
  BY <1>2, ClientSideTyped DEF LinkInv, ClientSide
<1>4. ASSUME NEW x \in Clients, x # e
      PROVE  Connection(x)'
  <2>1. client'[x] = client[x]
    BY <1>2, <1>4 DEF ClientSide
  <2>2. \A d \in up' : d.from = x => d \in up
    BY <1>2, <1>4, UplinkAdds DEF ClientSide
  <2>3. /\ UNCHANGED serverVars
        /\ \A d \in down' : d \in down
    BY <1>2 DEF ClientSide
  <2> QED BY <2>1, <2>2, <2>3, OtherClientStep DEF LinkInv
<1> QED BY <1>1, <1>2, <1>3, <1>4 DEF ClientSide

\* The invariant holds initially, when nobody has been heard of.
LEMMA LinkInvInit == LinkInit => LinkInv
<1> SUFFICES ASSUME LinkInit PROVE LinkInv
  OBVIOUS
<1>1. ServerInv
  BY ServerInvInit DEF LinkInit
<1>2. AckIsNewest
  BY DEF LinkInit, Init, NoEntries, AckIsNewest
<1>3. SentServesRecipient
  BY DEF LinkInit, Init, SentServesRecipient
<1>4. LinkTyped
  BY NewClientOK DEF LinkInit, LinkTyped
<1>5. ASSUME NEW e \in Clients
      PROVE  Unheard(e)
  BY NewClientOK DEF LinkInit, Init, SessionInit, NoEntries, Unheard
<1> QED BY <1>1, <1>2, <1>3, <1>4, <1>5 DEF LinkInv, Connection

\* Every step of the composed game keeps the invariant.
LEMMA LinkInvNext == LinkInv /\ [LinkNext]_linkVars => LinkInv'
<1> SUFFICES ASSUME LinkInv, [LinkNext]_linkVars PROVE LinkInv'
  OBVIOUS
<1>1. [Next]_serverVars
  BY LinkStepOfServer DEF LinkInv
<1>2. ServerInv' /\ AckIsNewest' /\ SentServesRecipient'
  BY <1>1, ServerInvNext, AckIsNewestNext, SendsServeNext DEF LinkInv
<1>3. SentToSeat'
  BY <1>2, SentIsToSeat, PTL
<1>4. ASSUME NEW e \in Clients, ClientStep(e)
      PROVE  LinkTyped' /\ \A x \in Clients : Connection(x)'
  BY <1>4, ClientStepKeeps
<1>5. ASSUME \/ \E x \in Clients : ServerReceives(x)
             \/ \E x \in Endpoints \ Clients : StrangerSends(x)
             \/ LinkTick
             \/ LinkElapse
      PROVE  LinkTyped' /\ \A x \in Clients : Connection(x)'
  <2>1. \A x \in Clients : /\ ServerSide(x)
                           /\ \A d \in down' : d.to \in Clients
                           /\ Connection(x)'
    BY <1>2, <1>3, <1>5, ServerStepKeeps
  <2>2. LinkTyped'
    <3>1. CASE Clients = {}
      <4>1. up' = up /\ client' = client
        BY <1>5, <3>1 DEF ServerReceives, StrangerSends, LinkTick, LinkElapse
      <4>2. \A d \in down' : d.to \in Clients
        BY <1>5, <3>1 DEF StrangerSends, LinkTick, LinkElapse, Downlink,
                          LinkInv, LinkTyped
      <4> QED BY <3>1, <4>1, <4>2 DEF LinkInv, LinkTyped
    <3>2. CASE Clients # {}
      BY <1>3, <2>1, <3>2, ServerSideTyped DEF LinkInv
    <3> QED BY <3>1, <3>2
  <2> QED BY <2>1, <2>2
<1>6. ASSUME UNCHANGED linkVars
      PROVE  LinkTyped' /\ \A x \in Clients : Connection(x)'
  <2>1. UNCHANGED <<serverVars, up, down, client>>
    BY <1>6 DEF linkVars
  <2>2. LinkTyped'
    BY <2>1 DEF LinkInv, LinkTyped
  <2> QED BY <2>1, <2>2, OtherClientStep DEF LinkInv
<1> QED BY <1>2, <1>4, <1>5, <1>6 DEF LinkInv, LinkNext

\* The composed game always satisfies its inductive invariant.
THEOREM LinkInvariant == LinkSpec => []LinkInv
<1>1. LinkInit => LinkInv
  BY LinkInvInit
<1>2. LinkInv /\ [LinkNext]_linkVars => LinkInv'
  BY LinkInvNext
<1> QED BY <1>1, <1>2, PTL DEF LinkSpec

-----------------------------------------------------------------------------
\* The server among its clients is a server: what Spec promises under any
\* environment, the allocation of seats included, it promises here.
THEOREM LinkRunsServer == LinkSpec => Spec
<1>1. LinkInit => Init
  BY DEF LinkInit
<1>2. LinkInv /\ [LinkNext]_linkVars => [Next]_serverVars
  BY LinkStepOfServer DEF LinkInv
<1> QED BY <1>1, <1>2, LinkInvariant, PTL DEF LinkSpec, Spec

\* Every datagram under way and every client keeps its type: however the
\* network drops and reorders, the player shown stays in the arena and a
\* client remembers no more inputs than the ring has room for.
THEOREM LinkTypeCorrect == LinkSpec => []LinkTypeOK
<1>1. LinkInv => LinkTypeOK
  BY DEF LinkInv, LinkTyped, ClientOK, LinkTypeOK
<1> QED BY <1>1, LinkInvariant, PTL

\* A client that plays has its id, and what is under way to it is about that.
LEMMA PlayingHas ==
    ASSUME LinkInv, NEW e \in Playing
    PROVE  e \in Clients /\ Has(e, client[e].my_pid)
<1>1. e \in Clients /\ client[e].at = "playing"
  BY DEF Playing
<1>2. PICK i : Has(e, i)
  BY <1>1 DEF LinkInv, Connection, Unheard
<1>3. client[e].my_pid = i
  BY <1>1, <1>2 DEF Has
<1> QED BY <1>1, <1>2, <1>3

\* A client that plays is sent its own player, under the id it was given,
\* and acknowledgements of its own inputs, whoever had that id before.
THEOREM ClientsHearOfTheirOwn == LinkSpec => []StatesAreOwn
<1>1. LinkInv => StatesAreOwn
  BY PlayingHas DEF Has, Seen, StatesAreOwn
<1> QED BY <1>1, LinkInvariant, PTL

\* A seated player is steered by what its client pressed for the newest input
\* the server has seen of it, and what was acknowledged stays seen.
THEOREM NewestInputSteers == LinkSpec => []SteeredByNewest
<1>1. LinkInv => SteeredByNewest
  BY PlayingHas DEF Has, Seen, SteeredByNewest
<1> QED BY <1>1, LinkInvariant, PTL

\* No input is retired, and logged with its round trip, unless the server has
\* seen it or a newer one.
THEOREM RetiredHaveBeenSeen == LinkSpec => RetiredWereSeen
<1> DEFINE A == \A e \in Playing \cap DOMAIN sessions :
                    ClientReceives(e) =>
                        \A seq \in client[e].pending \ client'[e].pending :
                            seq <= players[client[e].my_pid].latest_seen_seq
<1>1. ASSUME LinkInv
      PROVE  A
  <2> SUFFICES ASSUME NEW e \in Playing \cap DOMAIN sessions,
                      ClientReceives(e),
                      NEW seq \in client[e].pending \ client'[e].pending
               PROVE  seq <= players[client[e].my_pid].latest_seen_seq
    OBVIOUS
  <2> DEFINE i == client[e].my_pid
  <2>1. e \in Clients /\ client[e].at = "playing" /\ Has(e, i)
    BY <1>1, PlayingHas DEF Playing
  <2>2. /\ ClientOK(client[e])
        /\ client = [x \in Clients |-> client[x]]
    BY <1>1, <2>1 DEF LinkInv, LinkTyped
  <2>3. PICK d \in down :
            /\ d.to = e
            /\ d.type = "WORLD_SNAPSHOT"
            /\ client' = [client EXCEPT ![e] = Drained(client[e], d.players)]
    BY <2>1 DEF ClientReceives
  <2>4. client'[e] = Drained(client[e], d.players)
    BY <2>1, <2>2, <2>3
  <2>5. /\ i \in DOMAIN d.players
        /\ d.players[i].last_processed_input_seq <= players[i].latest_seen_seq
    BY <2>1, <2>3 DEF Has
  <2>6. seq <= d.players[i].last_processed_input_seq
    <3>1. d.players \in [DOMAIN d.players -> PlayerState]
      BY <1>1, <2>3 DEF LinkInv, LinkTyped, ReplyOK
    <3> QED BY <2>2, <2>4, <2>5, <3>1, DrainedOK
  <2>7. /\ seq \in Int
        /\ d.players[i].last_processed_input_seq \in Int
        /\ players[i].latest_seen_seq \in Int
    <3>1. seq \in Int
      BY <2>2, SeqAssumption DEF ClientOK
    <3>2. d.players[i] \in PlayerState
      BY <1>1, <2>3, <2>5 DEF LinkInv, LinkTyped, ReplyOK
    <3>3. players[i] \in Player
      <4>1. sessions[e].player_id = i
        BY <2>1 DEF Has
      <4> QED BY <1>1, <4>1, SeatedPlayer DEF LinkInv
    <3> QED BY <3>1, <3>2, <3>3, SeqAssumption DEF PlayerState, Player, Seqs
  <2> QED BY <2>5, <2>6, <2>7
<1>2. LinkInv /\ [LinkNext]_linkVars => [A]_linkVars
  BY <1>1
<1> HIDE DEF A
<1>3. LinkSpec => [][A]_linkVars
  BY <1>2, LinkInvariant, PTL DEF LinkSpec
<1> QED BY <1>3 DEF RetiredWereSeen, A
=============================================================================
