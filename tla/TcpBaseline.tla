---------------------------- MODULE TcpBaseline ----------------------------
(***************************************************************************)
(* The baseline mode: the TCP text server (server/tcp_baseline.cpp) and    *)
(* its clients (client/tcp_baseline_client.cpp), each a single thread in a *)
(* loop, with one connection per client.                                   *)
(*                                                                         *)
(* A loop of the server accepts, reads every connection and ticks when     *)
(* due.  Connections and bytes take any time to arrive, so accepting, each *)
(* read and each tick are actions of their own: a loop that finds nothing  *)
(* to accept or read is one they had not reached.  A loop of a client      *)
(* reads, releases what its conditioner has held long enough, makes an     *)
(* input when due, and sends what the conditioner has held long enough.    *)
(*                                                                         *)
(* Sockets always have room: a ::send that writes part of a line is left   *)
(* out, and so is a failing one.                                           *)
(***************************************************************************)
EXTENDS LineStream, WorldState

CONSTANTS
    Conns,              \* the connections, each with its client
    MAX_PLAYERS,        \* common/constants.hpp:24
    TICKS_PER_SNAPSHOT, \* common/constants.hpp:11
    MaxPending,         \* pending inputs kept, 256 in the code
    Latency,            \* add_latency_ms_each_direction
    Lossy,              \* whether loss_prob > 0
    Move,               \* the <<mx, my>> pressed
    MaxTick,            \* bound on the ticks
    MaxTime             \* bound on the clock

ASSUME BaselineAssumption ==
    /\ MAX_PLAYERS \in Nat
    /\ TICKS_PER_SNAPSHOT \in Nat \ {0}
    /\ MaxPending \in Nat
    /\ Latency \in Nat
    /\ Lossy \in BOOLEAN
    /\ Move \in Axis \X Axis
    /\ MaxTick \in Nat
    /\ MaxTime \in Nat

VARIABLES
    clock,      \* wall_time_ms()
    accepted,   \* the connections the server has taken off the backlog
    clients,    \* the connection -> its player_id, open, rx_buffer
    players,    \* the server's world
    tick,
    up, down,   \* the bytes on their way to the server and to the client
    client      \* connection -> the state of its client

serverVars == <<accepted, clients, players, tick>>
baselineVars == <<clock, serverVars, up, down, client>>

PlayerIds == 1..MAX_PLAYERS

JA(id) == [cmd |-> "JA", player_id |-> id]
SS(server_tick, states) ==
    [cmd |-> "SS", tick |-> server_tick, players |-> states]
IN_(seq, move) == [cmd |-> "IN", seq |-> seq, mx |-> move[1], my |-> move[2]]
BYE == [cmd |-> "BYE"]

NewClient ==
    [at          |-> "outside", \* "joining", "releasing", "draining", "gone"
     my_pid      |-> 0,
     rx_buf      |-> <<>>,
     in_queue    |-> {},
     out_queue   |-> {},
     latest      |-> NoEntries,
     latest_tick |-> 0,
     pending     |-> {},
     next_seq    |-> 1]

Init ==
    /\ clock = 0
    /\ accepted = {}
    /\ clients = NoEntries
    /\ players = NoEntries
    /\ tick = 0
    /\ up = [c \in Conns |-> <<>>]
    /\ down = [c \in Conns |-> <<>>]
    /\ client = [c \in Conns |-> NewClient]

-----------------------------------------------------------------------------
IdsTaken == {clients[c].player_id : c \in DOMAIN clients}

\* Mutants of alloc_id: one id too many; ids taken are not looked at.
alloc_id_past_the_end ==
    {id \in (1..MAX_PLAYERS + 1) \ IdsTaken : 1..(id - 1) \subseteq IdsTaken}

alloc_id_always_first == {id \in PlayerIds : id = 1}

\* The lowest id no client has, as a set that is empty when all are taken.
alloc_id == {id \in PlayerIds \ IdsTaken : 1..(id - 1) \subseteq IdsTaken}

\* The accept loop: a connection gets an id, a player and a JA line, or is
\* closed when there is no id left.
Accept(c) ==
    /\ client[c].at # "outside"
    /\ c \notin accepted
    /\ accepted' = accepted \cup {c}
    /\ \/ /\ alloc_id = {}
          /\ UNCHANGED <<clients, players, down>>
       \/ \E id \in alloc_id :
              /\ clients' = Put(clients, c, [player_id |-> id, open |-> TRUE,
                                             rx_buffer |-> <<>>])
              /\ players' = add_player(players, id)
              /\ down' = [down EXCEPT ![c] = @ \o Pieces(JA(id))]
    /\ UNCHANGED <<clock, tick, up, client>>

\* Mutant of RemoveClient: the player stays in the world.
RemoveClientOnly(c) ==
    /\ clients' = Erase(clients, {c})
    /\ UNCHANGED players

\* The read loop finds the client's fd is -1: it goes, and what its buffer
\* holds goes unread.
RemoveClient(c) ==
    /\ players' = remove_player(players, {clients[c].player_id})
    /\ clients' = Erase(clients, {c})

\* The world after lines from the client with an id, one by one.
AfterLines(id, lines) ==
    LET world[i \in 0..Len(lines)] ==
            IF i = 0 THEN players
            ELSE IF lines[i].cmd = "IN"
            THEN apply_input(world[i - 1], id,
                             lines[i].seq, lines[i].mx, lines[i].my)
            ELSE world[i - 1]
    IN  world[Len(lines)]

\* process_lines: every line that is complete; after a BYE too.
ProcessLines(c, buffer) ==
    /\ players' = AfterLines(clients[c].player_id, Lines(buffer))
    /\ clients' =
           [clients EXCEPT ![c].rx_buffer = Rest(buffer),
                           ![c].open = BYE \notin ToSet(Lines(buffer))]

\* The read loop, for one client: some more bytes have arrived ...
ServerReads(c, n) ==
    /\ c \in DOMAIN clients
    /\ clients[c].open
    /\ n \in 1..Len(up[c])
    /\ up' = [up EXCEPT ![c] = SubSeq(@, n + 1, Len(@))]
    /\ ProcessLines(c, clients[c].rx_buffer \o SubSeq(up[c], 1, n))
    /\ UNCHANGED <<clock, accepted, tick, down, client>>

\* Mutant of ServerReadsEnd: the end of the stream is taken for a lull.
ServerReadsLull(c) ==
    /\ c \in DOMAIN clients
    /\ ~clients[c].open
    /\ RemoveClient(c)
    /\ UNCHANGED <<clock, accepted, tick, up, down, client>>

\* ... or all bytes have and the stream has ended, or a BYE was read before.
ServerReadsEnd(c) ==
    /\ c \in DOMAIN clients
    /\ clients[c].open => client[c].at = "gone"
    /\ up' = [up EXCEPT ![c] = <<>>]
    /\ RemoveClient(c)
    /\ UNCHANGED <<clock, accepted, tick, down, client>>

\* A tick, and on every third one a line to each client.
ServerTick ==
    /\ tick < MaxTick
    /\ tick' = tick + 1
    /\ players' = step_tick(players)
    /\ down' =
           IF tick' % TICKS_PER_SNAPSHOT = 0
           THEN [c \in Conns |->
                    IF c \in DOMAIN clients
                    THEN down[c] \o
                         Pieces(SS(tick', collect_player_states(players')))
                    ELSE down[c]]
           ELSE down
    /\ UNCHANGED <<clock, accepted, clients, up, client>>

-----------------------------------------------------------------------------
\* A client connects.
Connect(c) ==
    /\ client[c].at = "outside"
    /\ client' = [client EXCEPT ![c].at = "joining"]
    /\ UNCHANGED <<clock, serverVars, up, down>>

\* Mutant of Joins: what was read after the line is thrown away.
JoinsForgettingTheRest(c, n) ==
    /\ client[c].at = "joining"
    /\ n \in 1..Len(down[c])
    /\ down' = [down EXCEPT ![c] = SubSeq(@, n + 1, Len(@))]
    /\ LET buffer == client[c].rx_buf \o SubSeq(down[c], 1, n)
       IN  client' =
               IF Lines(buffer) = <<>>
               THEN [client EXCEPT ![c].rx_buf = buffer]
               ELSE [client EXCEPT ![c].rx_buf = <<>>,
                                   ![c].my_pid = Lines(buffer)[1].player_id,
                                   ![c].at = "draining"]
    /\ UNCHANGED <<clock, serverVars, up>>

\* It reads until it has a line, which is the JA ...
Joins(c, n) ==
    /\ client[c].at = "joining"
    /\ n \in 1..Len(down[c])
    /\ down' = [down EXCEPT ![c] = SubSeq(@, n + 1, Len(@))]
    /\ LET buffer == client[c].rx_buf \o SubSeq(down[c], 1, n)
       IN  client' =
               IF Lines(buffer) = <<>>
               THEN [client EXCEPT ![c].rx_buf = buffer]
               ELSE [client EXCEPT ![c].rx_buf = AfterFirst(buffer),
                                   ![c].my_pid = Lines(buffer)[1].player_id,
                                   ![c].at = "draining"]
    /\ UNCHANGED <<clock, serverVars, up>>

\* ... or until two seconds are over: then it closes the connection.
GivesUp(c) ==
    /\ client[c].at = "joining"
    /\ client' = [client EXCEPT ![c].at = "gone"]
    /\ UNCHANGED <<clock, serverVars, up, down>>

-----------------------------------------------------------------------------
\* The lines of a conditioner queue that may be released next: of those due,
\* any of the first, since the queue is ordered by milliseconds alone.
Due(queue) ==
    {d \in queue : /\ d.deliver_at_ms <= clock
                   /\ \A e \in queue : d.deliver_at_ms <= e.deliver_at_ms}

Delayed(line) == [deliver_at_ms |-> clock + Latency, data |-> line]

LoopHead(c) == client[c].at = "draining" /\ Due(client[c].out_queue) = {}

\* The loop reads what has arrived; lines are dropped or queued.
ClientReads(c, n) ==
    /\ LoopHead(c)
    /\ n \in 0..Len(down[c])
    /\ down' = [down EXCEPT ![c] = SubSeq(@, n + 1, Len(@))]
    /\ LET buffer == client[c].rx_buf \o SubSeq(down[c], 1, n)
           all    == ToSet(Lines(buffer))
       IN  \E kept \in IF Lossy THEN SUBSET all ELSE {all} :
               client' =
                   [client EXCEPT
                       ![c].rx_buf = Rest(buffer),
                       ![c].in_queue = @ \cup {Delayed(line) : line \in kept},
                       ![c].at = "releasing"]
    /\ UNCHANGED <<clock, serverVars, up>>

\* Mutant of Retired: seeing oneself in a snapshot retires everything.
RetiredWhenSeen(pending, my_pid, states) ==
    IF my_pid \in DOMAIN states THEN pending ELSE {}

\* The pending inputs a snapshot retires.
Retired(pending, my_pid, states) ==
    {seq \in pending : /\ my_pid \in DOMAIN states
                       /\ seq <= states[my_pid].last_processed_input_seq}

\* A snapshot line is released: it is merged into the states shown.
ClientReleases(c, d) ==
    /\ client[c].at = "releasing"
    /\ d \in Due(client[c].in_queue)
    /\ LET states == d.data.players
       IN  client' =
               [client EXCEPT
                   ![c].in_queue = @ \ {d},
                   ![c].latest_tick = d.data.tick,
                   ![c].latest = [id \in DOMAIN @ \cup DOMAIN states |->
                                     IF id \in DOMAIN states THEN states[id]
                                     ELSE @[id]],
                   ![c].pending =
                       @ \ Retired(@, client[c].my_pid, states)]
    /\ UNCHANGED <<clock, serverVars, up, down>>

\* Nothing more is due: an input is made, if it is time, ...
ClientInputs(c) ==
    /\ client[c].at = "releasing"
    /\ Due(client[c].in_queue) = {}
    /\ client[c].next_seq <= MaxSeq
    /\ \E kept \in IF Lossy THEN BOOLEAN ELSE {TRUE} :
           LET seq == client[c].next_seq
           IN  client' =
                   [client EXCEPT
                       ![c].out_queue =
                           IF kept THEN @ \cup {Delayed(IN_(seq, Move))}
                           ELSE @,
                       ![c].pending =
                           IF Cardinality(@ \cup {seq}) > MaxPending THEN {}
                           ELSE @ \cup {seq},
                       ![c].next_seq = seq + 1,
                       ![c].at = "draining"]
    /\ UNCHANGED <<clock, serverVars, up, down>>

\* ... or is not.
ClientWaits(c) ==
    /\ client[c].at = "releasing"
    /\ Due(client[c].in_queue) = {}
    /\ client' = [client EXCEPT ![c].at = "draining"]
    /\ UNCHANGED <<clock, serverVars, up, down>>

\* An input line held long enough is sent.
ClientSends(c, d) ==
    /\ client[c].at = "draining"
    /\ d \in Due(client[c].out_queue)
    /\ client' = [client EXCEPT ![c].out_queue = @ \ {d}]
    /\ up' = [up EXCEPT ![c] = @ \o Pieces(d.data)]
    /\ UNCHANGED <<clock, serverVars, down>>

\* The loop is left: BYE is sent and the connection closed.
ClientLeaves(c) ==
    /\ LoopHead(c)
    /\ client' = [client EXCEPT ![c].at = "gone"]
    /\ up' = [up EXCEPT ![c] = @ \o Pieces(BYE)]
    /\ UNCHANGED <<clock, serverVars, down>>

\* Time passes.
Advance ==
    /\ clock < MaxTime
    /\ clock' = clock + 1
    /\ UNCHANGED <<serverVars, up, down, client>>

ServerNext ==
    \/ \E c \in Conns :
           \/ Accept(c)
           \/ \E n \in 1..Len(up[c]) : ServerReads(c, n)
           \/ ServerReadsEnd(c)
    \/ ServerTick

ClientNext(c) ==
    \/ Connect(c)
    \/ \E n \in 1..Len(down[c]) : Joins(c, n)
    \/ GivesUp(c)
    \/ \E n \in 0..Len(down[c]) : ClientReads(c, n)
    \/ \E d \in client[c].in_queue : ClientReleases(c, d)
    \/ ClientInputs(c)
    \/ ClientWaits(c)
    \/ \E d \in client[c].out_queue : ClientSends(c, d)
    \/ ClientLeaves(c)

Next == ServerNext \/ (\E c \in Conns : ClientNext(c)) \/ Advance

\* The server's loop goes on, with its accept loop and its read loop, and TCP
\* delivers.  Nothing obliges a client to do anything.
Spec ==
    /\ Init /\ [][Next]_baselineVars
    /\ \A c \in Conns : WF_baselineVars(Accept(c))
    /\ \A c \in Conns : WF_baselineVars(ServerReadsEnd(c))

-----------------------------------------------------------------------------
\* Every variable keeps its type.
BaselineTypeOK ==
    /\ accepted \subseteq Conns
    /\ DOMAIN clients \subseteq accepted
    /\ \A c \in DOMAIN clients : clients[c].player_id \in PlayerIds
    /\ DOMAIN players \subseteq PlayerIds
    /\ players \in [DOMAIN players -> Player]
    /\ \A c \in Conns :
           /\ client[c].my_pid \in 0..MAX_PLAYERS
           /\ client[c].pending \subseteq 1..MaxSeq
           /\ client[c].latest_tick \in 0..MaxTick
           /\ \A d \in client[c].in_queue : d.data.cmd = "SS"
           /\ \A d \in client[c].out_queue : d.data.cmd = "IN"

\* No two clients have the same id, and the world simulates exactly the
\* players of the clients: an end of stream, a BYE and a refused connection
\* leave nobody behind.
WorldMatchesClients ==
    /\ \A c, d \in DOMAIN clients :
           clients[c].player_id = clients[d].player_id => c = d
    /\ DOMAIN players = IdsTaken

\* Wherever reads end, each side's buffer followed by what is on its way is
\* whole lines: no byte is dropped, handled twice, or taken for the end of
\* another line, in the join loop, the main loop or the server.
StreamsFramed ==
    /\ \A c \in DOMAIN clients : Framed(clients[c].rx_buffer \o up[c])
    /\ \A c \in Conns :
           client[c].at # "gone" => Framed(client[c].rx_buf \o down[c])

Joined == {c \in Conns : client[c].at \in {"releasing", "draining"}}

\* The snapshots a client has yet to show.
OnTheWay(c) ==
    {l \in ToSet(Lines(client[c].rx_buf \o down[c]))
               \cup {d.data : d \in client[c].in_queue} : l.cmd = "SS"}

\* Every snapshot on its way to a client has the client in it, under the id
\* it was given, and acknowledges only inputs it has made: never those of the
\* client that had the id before.
AcksAreOwn ==
    \A c \in Joined : \A l \in OnTheWay(c) :
        /\ client[c].my_pid \in DOMAIN l.players
        /\ l.players[client[c].my_pid].last_processed_input_seq
               < client[c].next_seq

\* An input that a client in the game has been waiting for is dropped from
\* `pending` for one of two reasons.  The server has processed it or a newer
\* one of that client: what is logged as a round trip ended with its own
\* acknowledgement, however late and cumulative.  Or MaxPending inputs were
\* waiting when one more was made: then all are forgotten, and none is logged
\* (client/tcp_baseline_client.cpp:284).
PendingLeavesForCause ==
    [][\A c \in Joined : \A seq \in client[c].pending \ client'[c].pending :
           \/ /\ c \in DOMAIN clients
              /\ seq <= players[clients[c].player_id].last_processed_input_seq
           \/ /\ client'[c].next_seq = client[c].next_seq + 1
              /\ Cardinality(client[c].pending) >= MaxPending]_baselineVars

\* When a client is gone, by BYE, by closing or by giving up while joining,
\* the server sees it go: its id is free again.
GoneIsRemoved ==
    \A c \in Conns :
        client[c].at = "gone" ~> c \in accepted /\ c \notin DOMAIN clients

\* "Renders only the most recently received authoritative state"
\* (client/tcp_baseline_client.cpp:1): once a snapshot newer than all before
\* has been released, what is shown is what it says.
ShowsTheNewest ==
    [][\A c \in Conns : \A d \in client[c].in_queue :
           ClientReleases(c, d) /\ d.data.tick > client[c].latest_tick
               => client'[c].latest = d.data.players]_baselineVars
=============================================================================
