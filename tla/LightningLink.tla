--------------------------- MODULE LightningLink ---------------------------
(***************************************************************************)
(* The optimized game: the server of module Server, its clients, and the   *)
(* UDP network between them, which loses datagrams and delivers the rest   *)
(* in any order.  A client that leaves silently is one whose notice is     *)
(* lost; one that starts again is a client at another endpoint, for        *)
(* bind_any takes a port of the system's choice.                           *)
(*                                                                         *)
(* From an endpoint that is not of Clients anything may come, as module    *)
(* Server has it: there is a client of another make, a stale one, or one   *)
(* whose datagrams are late.                                               *)
(*                                                                         *)
(* The delays of the conditioner and of the snapshot queue are delays of   *)
(* the network here.  What a Server promises under any environment it      *)
(* promises in this one.                                                   *)
(***************************************************************************)
EXTENDS Server, Client

CONSTANTS
    Clients,    \* the endpoints where client/client.cpp runs
    MaxUp,      \* bound on a client's datagrams on their way to the server
    MaxDown     \* bound on those on their way to a client

ASSUME LinkAssumption ==
    /\ Clients \subseteq Endpoints
    /\ Directions \cup {Still} \subseteq MoveInputs
    /\ MaxSeq > 0
    /\ MaxUp \in Nat
    /\ MaxDown \in Nat

VARIABLES
    up,         \* the datagrams on their way to the server
    down,       \* those on their way to the clients
    client      \* the client at each endpoint of Clients

linkVars == <<serverVars, up, down, client>>

LinkInit ==
    /\ Init
    /\ up = {}
    /\ down = {}
    /\ client = [e \in Clients |-> NewClient]

Playing == {e \in Clients : client[e].at = "playing"}

-----------------------------------------------------------------------------
\* Of what the server has just sent, some gets on its way.
Downlink ==
    /\ \E kept \in SUBSET {d \in sent' : d.to \in Clients} :
           down' = down \cup kept
    /\ \A e \in Clients : Cardinality({d \in down' : d.to = e}) <= MaxDown

\* A datagram of a client gets on its way or is lost.
Uplink(e, packet) ==
    \/ up' = up
    \/ /\ up' = up \cup {[from |-> e, packet |-> packet]}
       /\ Cardinality({d \in up' : d.from = e}) <= MaxUp

\* handle_inbound_udp, by the packet's type.
Handled(e, p) ==
    \/ /\ p.type = "JOIN_REQUEST"
       /\ JoinRequest(e) \/ JoinRequestWhenFull(e)
    \/ /\ p.type = "INPUT_COMMAND"
       /\ InputCommand(e, p.player_id, p.seq, p.mx, p.my)
    \/ /\ p.type = "DISCONNECT_NOTICE"
       /\ DisconnectNotice(e, p.player_id)

\* The server receives a datagram of a client.
ServerReceives(e) ==
    /\ \E d \in up :
           /\ d.from = e
           /\ up' = up \ {d}
           /\ Handled(e, d.packet)
    /\ Downlink
    /\ UNCHANGED client

\* A datagram of anyone else reaches the server.
StrangerSends(e) ==
    /\ Inbound(e)
    /\ Downlink
    /\ UNCHANGED <<up, client>>

LinkTick == TickAndMaybeBroadcast /\ Downlink /\ UNCHANGED <<up, client>>

LinkElapse == Elapse /\ UNCHANGED <<up, down, client>>

-----------------------------------------------------------------------------
\* A client starts and asks to join.
Start(e) ==
    /\ client[e].at = "outside"
    /\ client' = [client EXCEPT ![e] = Started(@)]
    /\ Uplink(e, [type |-> "JOIN_REQUEST"])
    /\ UNCHANGED <<serverVars, down>>

\* Two seconds are over: it ends without a word.
GiveUp(e) ==
    /\ client[e].at = "joining"
    /\ client' = [client EXCEPT ![e] = Ended(@)]
    /\ UNCHANGED <<serverVars, up, down>>

\* A datagram arrives.  While joining, all but JOIN_ACCEPT are dropped; while
\* playing, all but snapshots; afterwards nobody is there.
ClientReceives(e) ==
    /\ \E d \in down :
           /\ d.to = e
           /\ down' = down \ {d}
           /\ client' =
                  CASE d.type = "JOIN_ACCEPT" /\ client[e].at = "joining" ->
                           [client EXCEPT ![e] = Accepted(@, d.player_id)]
                    [] d.type = "WORLD_SNAPSHOT" /\ client[e].at = "playing" ->
                           [client EXCEPT ![e] = Drained(@, d.players)]
                    [] OTHER -> client
    /\ UNCHANGED <<serverVars, up>>

\* The input step.
MakeInput(e) ==
    /\ client[e].at = "playing"
    /\ \E move \in Presses(client[e]) :
           /\ \E c \in InputMade(client[e], move) :
                  client' = [client EXCEPT ![e] = c]
           /\ Uplink(e, InputPacket(client[e], move))
    /\ UNCHANGED <<serverVars, down>>

\* F3.
TogglePrediction(e) ==
    /\ client[e].at = "playing"
    /\ client' = [client EXCEPT ![e] = Toggled(@)]
    /\ UNCHANGED <<serverVars, up, down>>

\* The loop is left, with a notice.
Leave(e) ==
    /\ client[e].at = "playing"
    /\ client' = [client EXCEPT ![e] = Ended(@)]
    /\ Uplink(e, [type |-> "DISCONNECT_NOTICE",
                  player_id |-> client[e].my_pid])
    /\ UNCHANGED <<serverVars, down>>

-----------------------------------------------------------------------------
ClientStep(e) ==
    \/ Start(e)
    \/ GiveUp(e)
    \/ ClientReceives(e)
    \/ MakeInput(e)
    \/ TogglePrediction(e)
    \/ Leave(e)

LinkNext ==
    \/ \E e \in Clients : ServerReceives(e) \/ ClientStep(e)
    \/ \E e \in Endpoints \ Clients : StrangerSends(e)
    \/ LinkTick
    \/ LinkElapse

LinkSpec == LinkInit /\ [][LinkNext]_linkVars

\* A tick that has a session to reap.
ReapingTick ==
    /\ ReapedIds # {}
    /\ LinkTick

\* A tick whose snapshot gets on its way to e.
SnapshotPasses(e) ==
    /\ e \in DOMAIN sessions
    /\ LinkTick
    /\ \E d \in sent' \cap down' : d.to = e

\* The clock goes on, and so does the server's loop: it takes what arrives and
\* reaps what is due.  A client's receiver takes what arrives, and its loop
\* makes inputs for as long as it plays.  Of what is sent again and again,
\* some gets through.
LinkFairSpec ==
    /\ LinkSpec
    /\ WF_linkVars(ReapingTick)
    /\ WF_linkVars(LinkElapse)
    /\ \A e \in Clients :
           /\ WF_linkVars(ServerReceives(e))
           /\ WF_linkVars(ClientReceives(e))
           /\ SF_linkVars(MakeInput(e) /\ up' # up)
           /\ SF_linkVars(SnapshotPasses(e))

-----------------------------------------------------------------------------
\* Every variable keeps its type.
LinkTypeOK ==
    /\ \A d \in up : d.from \in Clients
    /\ \A d \in down : d.to \in Clients
    /\ \A e \in Clients :
           /\ client[e].my_pid \in PlayerIds \cup {0}
           /\ client[e].local_pos \in Arena
           /\ client[e].pending \subseteq 1..MaxSeq
           /\ Len(client[e].window) <= INPUT_HISTORY_SIZE

\* Every snapshot on its way to a client that plays has that client in it,
\* under the id it was given, and acknowledges an input of its own: never one
\* of whoever had the id before or has it now.
StatesAreOwn ==
    \A d \in down :
        d.type = "WORLD_SNAPSHOT" /\ d.to \in Playing =>
            LET c == client[d.to]
            IN  /\ c.my_pid \in DOMAIN d.players
                /\ d.players[c.my_pid].last_processed_input_seq
                       \in {0} \cup DOMAIN c.moves

\* A player in its seat is steered by what its client pressed for the newest
\* input the server has seen, in whatever order inputs arrive and whoever
\* else sends inputs for that id; and what a snapshot has acknowledged stays
\* seen.
SteeredByNewest ==
    \A e \in Playing \cap DOMAIN sessions :
        LET c == client[e]
            p == players[c.my_pid]
        IN  /\ \/ p.latest_seen_seq = 0
               \/ <<p.pending_mx, p.pending_my>> = c.moves[p.latest_seen_seq]
            /\ \A d \in down :
                   d.type = "WORLD_SNAPSHOT" /\ d.to = e =>
                       d.players[c.my_pid].last_processed_input_seq
                           <= p.latest_seen_seq

\* An input retired by a snapshot, and logged with its round trip, has reached
\* the server, or a newer one has.
RetiredWereSeen ==
    [][\A e \in Playing \cap DOMAIN sessions :
           ClientReceives(e) =>
               \A seq \in client[e].pending \ client'[e].pending :
                   seq <= players[client[e].my_pid].latest_seen_seq]_linkVars

\* A client that has ended does not hold a seat for ever: not when its notice
\* is lost, when its JOIN_REQUEST or an input arrives after it has ended, or
\* when others go on sending inputs for the id it had.
GoneIsUnseated ==
    \A e \in Clients :
        <>[](client[e].at = "gone" => e \notin DOMAIN sessions)

\* What a client shows of its own player settles at what the server has, once
\* the player stands still, whatever was lost, overtaken or replayed on the
\* way, and whatever F3 did to what was recorded.
Settles ==
    \A e \in Clients :
        <>[](e \in Playing \cap DOMAIN sessions) =>
            <>[](e \in Playing \cap DOMAIN sessions
                 /\ client[e].local_pos = players[client[e].my_pid].pos)
=============================================================================
