# Lightning Link in TLA+

Lightning Link is a client-server game prototype with two networking modes: an
optimized one (UDP, binary packets, client-side prediction, interpolation of
remote players) and a baseline (TCP, lines of text). This directory models the
parts of it that keep state, checks them with TLC on small instances, and
proves the properties that matter most with TLAPS for instances of any size.

## 1. The system

### Components, their state and their operations

| Component (source) | State | Operations | What makes it correct |
|---|---|---|---|
| Kinematics (`common/math_utils.hpp`) | none | normalise a direction, move, clamp | a move ends in the arena, no further than one step away |
| World state (`server/world_state.cpp`) | players: position, pending direction, newest sequence number seen, acknowledgement; tick number | add, remove, apply input, step, collect | stale inputs are dropped, acknowledgements never go back, speed is bounded |
| Session manager (`server/session_manager.cpp`) | endpoint -> session, id -> endpoint, time of last input | register, look up, verify, touch, reap, remove | the two maps stay inverse; seats are kept, left for cause, never lost |
| UDP server (`server/server.cpp`, `udp_snapshot_broadcaster.cpp`) | the two above | JOIN_REQUEST, INPUT_COMMAND, DISCONNECT_NOTICE, tick with reaper and broadcast | the world has exactly the seated players; what is sent is for and about a seat |
| Conditioner socket (`common/lagged_socket.cpp`) | one priority queue for both directions, shared by two threads under a mutex | send, pump, receive | nothing invented or sent twice, nothing early, order kept without jitter, everything matured eventually leaves |
| Predictor (`client/prediction.cpp`) | ring of the last 120 inputs, next sequence number | record and step, reconcile, find | the ring holds exactly the newest inputs; reconciling replays exactly the unacknowledged ones |
| Interpolator (`client/interpolation.cpp`) | 32 newest samples per remote player | ingest, render position, prune | samples are of the player shown, held samples bracket the time rendered |
| Network receiver, snapshot queue (`client/network_receiver.cpp`, `snapshot_queue.hpp`) | a thread, a locked queue | receive, push, pop | every snapshot decoded reaches the main thread once, in order |
| Optimized client (`client/client.cpp`) | join state, latest authoritative states, pending inputs, toggles, label | join, drain and reconcile, send input, render, log, exit | the player drawn settles where the server has it; only what was seen is retired |
| TCP baseline server (`server/tcp_baseline.cpp`) | connections with buffers, world | accept, read lines, tick, send | ids unique among connections, lines whole |
| TCP baseline client (`client/tcp_baseline_client.cpp`) | conditioner queues for both directions, latest states | receive, release, send | the state shown is the newest received |
| Wire format (`common/serialization.cpp`, `protocol.hpp`) | none | encode, decode | round trip, bounds |
| Rendering, HUD, bots, logging, sockets, tools | none that others read | - | not modelled |

### Interaction

The server is one thread: it pumps its socket, drains up to 256 datagrams, and
ticks when due. A client is two threads that share the conditioner socket: the
receiver thread pumps, receives and pushes snapshots to a queue, and the main
thread pops them, reconciles, and sends one input each 1/60 s. JOIN_REQUEST and
DISCONNECT_NOTICE are sent once; nothing is retransmitted. In baseline mode
both sides are single threads over one TCP connection.

### What is hard

Datagrams are lost, duplicated and reordered, and ids and ports are reused, so a
datagram can outlive the seat it was about. The server removes state in three
maps from three places. The client reads state that the network may have taken
back. The conditioner's one queue serves both directions and two threads.
Time-outs race late datagrams. `PROJECT.json` lists each such hazard at its line
with the properties that cover it.

## 2. Plan

The order follows what matters: first the server, whose state everybody
depends on, then what stands between it and a client, then the client's own
algorithms, then the other mode, and last the whole.

Done:

1. `Kinematics`, `Maps`, `WorldState`, `SessionManager`, `Server`, with the
   abstract `SeatAllocation`; `ServerHistory`, two history variables over it;
   proofs in `WorldProofs` and `ServerProofs`.
2. `LaggedSocket`, with the abstract `Channel`, proofs in `NetworkProofs`;
   `ClientShutdown`, which puts the two threads at the exit around it.
3. `Inputs`, `Predictor`, `LocalPlayer`, with the abstract `InputHistory`;
   `PredictedPath`, a history variable over it; proofs in `PredictorProofs`.
4. `Interpolator`, `RemoteView`; proofs in `ViewProofs`.
5. `LineStream`, `TcpBaseline`; proofs in `BaselineProofs`.
6. `Client`, the main loop of the optimized client, and `LightningLink`, the
   server and clients over a network that loses and reorders; proofs in
   `LinkProofs`.
7. `Serialization`: the wire format, with its widths and bounds; proofs in
   `NetworkProofs` as well.

To do:

1. `::send` calls of the baseline that are cut short, with the lines that
   continue one another (`tcp_baseline.cpp:183`).
2. A larger `link`: two clients that both play. What it would show of safety is
   proved for any number of clients; what is left is how `Settles` and
   `GoneIsUnseated` fare with two of them.

## 3. The modules and the code

Names are the code's where TLA+ allows it. A definition called a *mutant* in its
comment is a plausible mistake in the definition that follows it; no
specification uses it, it is there to try the properties on.

**Kinematics, Maps, WorldState.** Positions are on an integer grid; the two step
lengths (along one axis, along both) are constants, which is what normalising a
direction with components in {-1, 0, 1} comes to. `WorldState`'s operators give
the players after the method of the same name. `vel` and `has_pending` are never
read back and are left out. The pending direction stays, so a player whose
inputs stop arriving keeps moving.

**SessionManager, Server, ServerHistory.** `sessions` and `id_to_endpoint` are the two
`unordered_map`s; the time of the last input is kept as `idle`, the time since,
which stops one past the time-out. Each case of `handle_inbound_udp` is an action
with every call it makes; so is `tick_and_maybe_broadcast`. Any endpoint may
send any datagram at any time, and one already handled may come again: loss,
repetition, reordering and seats that changed hands in between are among the
behaviours. `sent` is what the last step handed to the socket. `ServerHistory`
records the datagrams apart from what the handlers make of them: who has just sent
a notice with its own id (`resigned`), and for how long each seated endpoint has
said nothing for itself (`silence`). It constrains nothing; `LeavesForCause` is
stated with it.

**LaggedSocket, Channel.** One action for each critical section of `send_to`,
`pump` and `recv_from`, by which the two threads may interleave; `recv_from`
reads the clock twice under one hold of the mutex and does so here. Heap order
between equal due times is open. A datagram is a number. `Channel` is one
direction seen from outside: the fate of a datagram is decided when it is
submitted.

**ClientShutdown.** The lines after the main loop, and the receiver's loop,
around a `LaggedSocket`.

**Inputs, Predictor, LocalPlayer, InputHistory, PredictedPath.** The ring with
its head and count; `Replay` is the loop of `reconcile`. `LocalPlayer` has the
input step, the reconciliation with a snapshot that may say anything, and F3.
`InputHistory` promises what the ring is for, without a ring: a window of the
newest inputs. `PredictedPath` adds a history variable, where the client
believes it was after each input, and constrains nothing.

**Interpolator, RemoteView.** A sample is of an entity, whoever had the id when
the server sent it, and stands for its position; a point drawn is given by the
samples it lies between and the time since the first. Times are unsigned in the
code: `Stale` takes the difference modulo `ClockModulus`. A frame drains, prunes
and draws, and reads the clock for each; between those steps the receiver thread
stamps and queues, and the wall clock moves, also backwards (`Slip`).

**LineStream, TcpBaseline.** A line is two pieces, so a read may end inside one.
Connections and bytes take any time, so accepting, each read and each tick of
the server are actions of their own. A client's loop has two phases:
`draining` (its due output is sent, then the socket is read) and `releasing`
(due snapshots are shown, then an input is made or not). Output due is sent
before the loop may be left, as the order of the loop's body has it. Its clock
is not set back.

**Client.** The record of one optimized client, as a value, and an operator for
each thing its loop does: join, leave, F3, make an input, drain a snapshot. The
ring is the `window` that `LocalPlayer` is shown to implement
(`RemembersInputs`). `pending` is the set of inputs not retired; when there are
more than `MaxPending`, those older than two seconds go, which may be any
number of the oldest, since the model has no clock here. `moves` is a history
variable: what was sent under each number. Sequence numbers end at `MaxSeq`;
from there on a client makes standstills, all under that number, so that it
goes on for ever as the code does. `--disable-prediction` is an F3 pressed at once.

**LightningLink.** `Server`, a `Client` at each endpoint of `Clients`, and two
sets of datagrams under way, `up` and `down`. A datagram that is sent gets into
the set or is lost; any one in the set may arrive next. The delays of the
conditioner and of the snapshot queue are delays of the network here. An
endpoint outside `Clients` is a stranger that may send anything, which is how
a datagram delayed beyond the life of its sender, or a program of another make,
comes in. An action of the server is one of `Server` (`LinkRunsServer` proves that
nothing else happens to its state), and `Downlink` takes what it put in `sent`.
`Handled` is the dispatch of `handle_inbound_udp` on the type. A client starts
once: `bind_any` gives a client that is started again another port, which makes
it another client.

**Serialization.** Bytes have `Base` values instead of 256, and integers are as
many bytes as in the code; a float is its bits. The writer refuses what does not
fit and the reader what is not there. Each packet has a layout that its encoder
writes and another, given apart, that its decoder reads, as the code has two
functions. `Send` encodes into the sender's buffer; `Receive` copies what the
buffer of one of the three receivers has room for (64 bytes in the join loop,
which a snapshot overruns) and decodes the types that receiver handles. Writing
and reading a layout, the states of a snapshot and the bytes of a number are
recursive functions (`WriteAll`, `ReadAll`, `WriteStates`, `ReadStates`, `Unsigned`), so that
they can be proved about. The numbers that may be sent are those of the fields'
C++ types (`Scalars`).

## 4. What the runs check

| Run | Question | Bounds |
|---|---|---|
| `server_safety` | Do table and world stay consistent, does a snapshot reach all who are seated, are seats taken, kept and left for cause, is `SeatAllocation` implemented, can inputs make a player faster? | 3 endpoints, 2 seats, time-out 1, sequence numbers to 2, arena 3x1, ticks modulo 4 |
| `socket` | Is each direction a `Channel` that keeps to due times and their order, and does all that is scheduled leave? | 2 datagrams each way, delays 0 to 2, clock to 3, jitter chosen at the start |
| `exit_ends` | Does leaving the loop end in a return? | 2 sends, 1 arrival, clock to 2 |
| `exit_delayed` | Does the notice leave? (no) | the same, clock to 3 |
| `local_player` | Are the newest inputs, and only they, replayed; do lookup and replay agree on it; do confirmed predictions leave the player alone? | ring of 2, 5 inputs |
| `view` | Are players drawn forward in time, the delay behind now while samples last and at the newest after that, and only stale ones hidden? | history of 2, delay 1, stale after 2, queue of 2, clock 1 to 5 |
| `view_slip`, `view_reuse` | The same when the clock is set back, and when an id is given away (no, no) | the same, 2 entities in the second |
| `baseline` | Are lines whole, ids and players in step, acknowledgements one's own, inputs pending until they are processed or overflow, the gone removed? | 2 clients for 1 seat, 2 inputs, at most 1 pending, 2 ticks, clock to 2, loss |
| `baseline_shown` | Is what is shown the newest state? (no) | 2 clients, 2 seats |
| `link` | Does a client hear only of its own player, is that player steered by the newest input, is only what was seen retired, does a seat become free when its client has gone, does what is shown settle at what the server has? | a client and a stranger for 1 seat, 2 sequence numbers, time-out 0, 2 datagrams each way, ring of 1, arena 3x0 |
| `wire` | Is what a receiver makes of a datagram what was sent, does every cut one fail, is what fits sent and the rest refused? | bytes of 6 values, 3 seats, packets to 100 bytes |

Why the bounds are enough. One endpoint more than seats gives refusal and reuse
of ids by another. A time-out of 1 gives idle times below, at and past it. Two
sequence numbers beside 0 give stale, equal and newer ones. The tick modulus is
1 modulo 3, as 2^32 is, so that the wrap brings two snapshots together. In the
arena of 3x1 a step may end at a wall or before it, and one of the inputs has a
component to clamp. Two datagrams each way can be reordered, interleave in the
queue, and hold each other up; delays are 0 to 2 units one way and 0 or 1
the other, some by a negative jitter that is clamped. A ring of 2 wraps twice in 5 inputs, with up to five
inputs unacknowledged. A history of 2 overflows, and with a queue of 2 twice in
one frame. One seat is the smallest game in which a client is refused and an id
given to the next; with a stranger beside the client, `link` has a seat given
away while its last owner still plays. Two datagrams under way overtake each
other and meet the time-out; a ring of 1 forgets the older of two inputs; in the
arena of width 3 a player whose standstill is lost runs on past where its client
stopped it. A time-out of 0 is the hardest: one unit of silence unseats. In
`wire`, numbers are the smallest, the largest and one whose bytes differ, and there
are snapshots of none to one more than all players. Exploration is otherwise complete: no state constraint is used.
Deadlock is checked except where the behaviour is meant to stop
(a client that has exited, bounded clocks and inputs that are used up).

`MaxSeq`, `MaxInputs`, `MaxSends`, `MaxArrivals`, `MaxTime`, `MaxTick` and
`MaxQueued` are bounds of the model and not of the code; `MaxPending`,
`INPUT_HISTORY_SIZE`, `SNAPSHOT_HISTORY_SIZE`, `MAX_PLAYERS` and
`TICKS_PER_SNAPSHOT` are the code's. In `baseline`, `MaxPending` is 1
in place of the code's 256, so that a second input overflows it or, when the first
has been acknowledged, does not. That several inputs wait at once is left to
`PendingLeftForCause`, which holds for every `MaxPending`.

## 5. Fairness

* `LinkFairSpec`: ticks and time go on, since `Server::run` is a loop that ticks
  when due (of ticks, those with a session to reap are enough). The server takes
  what arrives from a client, and a client's receiver what arrives for it, since
  both loops go round for as long as they run. Two assumptions are about the
  network, and strong: of the inputs a client goes on making (`client.cpp:256`)
  some get on their way, and so do some of the snapshots the server goes on
  sending. Nothing is assumed of JOIN_REQUEST, JOIN_ACCEPT or DISCONNECT_NOTICE,
  which are sent once, nor of strangers, nor of when a client leaves.
* `SocketFairSpec`: a `send_to` that has begun ends, `recv_from` is called again
  and again (`NetworkReceiver::run` and `Server::run` do), the clock runs.
* `ClientShutdown!Spec`: both threads go on. The main thread's two critical
  sections are strongly fair: the receiver takes the same mutex again and
  again, but sleeps a millisecond after every round that finds nothing
  (`network_receiver.cpp:32`), which frees it for long enough.
* `TcpBaseline!Spec`: the server's accept and read loops reach each connection,
  and TCP delivers the end of a stream. Nothing is assumed of clients.

## 6. What is proved

Every invariant and every action property that the passing runs check is the
statement of a theorem; only liveness is left to TLC alone (section 7).

The proofs hold for every value of the constants that satisfies the `ASSUME`s of
the modules, which ask for no more than that sizes are natural numbers, that
`DiagonalStep <= StraightStep`, that tick numbers are more than one, that a ring has a slot, that moduli and the number
of inputs are positive, that the view's clock starts before it ends, and that
what a client may press an input may carry; and of the wire format, that a byte
has an even number of values, enough for the five types, that the fields' values
are of their types, that there are as many seats as a u16 counts (8 in the code),
and that a receiver's `MAX_PACKET_BYTES` (1200) is no less than `MAX_SNAPSHOT_BYTES` (183).
A module of proofs may extend
another for its lemmas and so declare constants that its theorems do not speak
of, as `PredictorProofs` does with the server's `MaxSeq`. `NetworkProofs` holds the
proofs of two components that share nothing, the socket and the wire format.

**Recursion** (`Induction`). A replay, and the processing of the lines taken from a
stream, are loops in the code and recursive functions here. The library's induction theorems take a predicate as a
parameter and cannot be used. `Induction` says the same of sets: a set that has 0
and the successor of each of its numbers below `n` has all up to `n` (`UpTo`), and a
function given step by step exists (`Iteration`); both rest on there being a least
element. A loop then has one lemma that gives it step by step, such as
`PositionsOneByOne`, and proofs by induction name the set of the rounds after
which the claim holds.

**The server** (`WorldProofs`, `ServerProofs`). The inductive
invariant is `ServerInv`: the two indexes of the table are typed and inverse
(`TableOK`), the players are typed and their ids are exactly the ids taken
(`PlayersOK`), and what is sent is typed (`SentTyped`). Neither part is inductive
alone: a disconnect removes the player of the session's id and the session from
both indexes, and if the indexes disagreed, that id could be somebody else's. Each
operation of the table and of the world has a lemma; one lemma for each action
puts them together; `ServerInvNext` collects these. From the invariant follow
`TypeCorrect`, `TableConsistent` and `WorldConsistent`. The theorems about steps
go through two lemmas that say what a step can do to a seat (`SessionStep`) and
to a player (`PlayerStep`): `SeatsKept`, `SeatsFresh`, `OwnerSteers`,
`SpeedLimited`. `AcksMonotone` needs one more invariant, that the
acknowledgement is the newest sequence number seen (`AckIsNewest`), since the
code compares with the second and returns the first. `SnapshotsReachAll` needs
the cardinality of the players to be at most `MAX_PLAYERS`, or the encoder would
refuse. `ServerAllocatesSeats` is the refinement: a step of the server takes one
seat, vacates some, or leaves the seats alone. `LeavingHasCause` is about
`HistorySpec`, which implements `Spec` (`HistoryIsOfServer`). It rests on one more
invariant, `IdleTimeIsSilence`: the idle time of every session is the silence of
its endpoint. So `touch` and `register_or_get` refresh a session for its owner's
words and for nobody else's, and the reaper, which looks at idle time only,
unseats exactly those who have been silent for too long.

**The predictor** (`PredictorProofs`). `RingOK` is inductive: the count is the
number of inputs made, up to the size of the ring, and the slot at distance `i`
from the oldest has the sequence number `next_seq - count + i`. The work is in the
index, which wraps: `WrapOnce` gives it in closed form, `RecordReads` says what
the ring reads as after one more input, `RecordMovesWindow` says the same of the
whole window. From these follow `RingHoldsNewest`, `LookupFindsHeld` (the search
from the newest end and the replay from the oldest see the same inputs) and the
refinement `PlayerRemembersInputs`. A replay of any length ends in the arena
(`LocalTypeCorrect`). `ConfirmedStays` is what prediction is for: a snapshot that
says what the client predicted moves nobody. Its invariant `Belief` says that the
path reaches the position shown and goes from one input to the next by what the
ring holds; `ReplayFollowsPath` is then an induction along the ring, which passes
over what is acknowledged and goes along the path after that. It needs that the
inputs under way are still in the ring, or the replay would skip some.

**The composed game** (`LinkProofs`). `LinkInv` adds to `ServerInv` and `AckIsNewest`
what is true of each client and of what is under way between it and the server
(`Connection`): it has gone, and nothing is promised; or the server has not heard
of it, and all there is of it is its one JOIN_REQUEST (`Unheard`); or it has an id
(`Has`), and then every JOIN_ACCEPT under way to it names that id, every snapshot
holds its player with an acknowledgement of an input it made and, while it is
seated, no newer than what the server has seen, every input under way is one it
recorded, and its player is steered by the one seen last. This is needed because
ids are given away: `StatesAreOwn` alone says nothing of a client that is still
joining, and its first snapshots are under way before it plays. That a client
has one id in its life rests on its asking once: `UnheardIsSeated` is the only
step that gives one. A step of the server is seen from one client either as the
handling of its own datagram (`OwnStepKeeps`) or as somebody else's doing, which
neither seats it nor steers its player (`OthersStepKeeps`, from `OthersSeatNot` and
`OthersSteerNot`). A client's own steps keep what it recorded (`HasGoesOn`), since a
number is used for one input, or for a standstill at the end (`InputMadeOK`).
From the invariant follow `ClientsHearOfTheirOwn`, `NewestInputSteers`,
`RetiredHaveBeenSeen`, `LinkTypeCorrect`, and `LinkRunsServer`, by which every
theorem about the server is one about the game.

**The socket** (`NetworkProofs`). `SocketInv` says that datagrams are typed and
numbered, each number once in each direction, and that each is in one place: in
the queue, in the hands of the thread that has scheduled and not yet pushed it,
or out; and that without jitter they are due in the order of their numbers. The
second place is why neither direction is a channel by the queue alone. From it follow
`SocketTypeCorrect`, the two refinements `OutboundChannel` and `InboundChannel`, and
`DueOrder`. `NoOvertakingWithoutJitter` has no run of its own: with jitter 0 nothing
is sent or delivered after what was submitted behind it, in either direction.

**The wire format** (`NetworkProofs`). First the numbers: dividing by the powers of `Base`
and adding up again gives the number (`DividedTwice`, `NextDigit`, `UnsignedBigEndian`), and
the casts of an i8 undo one another (`ValueBigEndian`). Then the two cursors. A writer
either appends or runs over its buffer, for good (`Appended`, `AppendedInTurn`), and what
it has written stays (`HoldsWhenExtended`); a reader either consumes or runs over its
data (`Consumed`, `ConsumedInTurn`). From `put` and `get` (`PutWrites`, `GetReads`) this is carried to
a layout (`AllWritten`, `AllRead`), to the states of a snapshot of any length
(`AllStatesWritten`, `AllStatesRead`), each by induction on the fields or the players, and to
a whole packet: `Encodes` says that a packet is encoded if and only if it fits, and
where each field lies, `Decodes` that a datagram cut to any size gives the packet if
nothing was cut and is refused otherwise. The two layouts given apart are found
the same in `StatePlaces` and `FieldPlaces`. The inductive invariant, `WireInv`, says that the
datagram on its way is the encoding of the struct encoded last and that this one
could be sent; the properties alone are not inductive, since they do not say
what the bytes are. `ReceivedAsSent` (`RoundTrip`), `CutIsRefused` (`TruncatedFails`) and
`SentOrRefused` (`FitsOrRefused`) follow from it, with `SendBufferFits` for the senders' buffers and
`Received` for the receivers': the 64 bytes of the join loop hold every JOIN_ACCEPT,
and what they cut is of no type that the loop handles. The run `wire` has bytes of 6
values, for the sake of TLC's 32-bit integers; the theorems hold for the code's 256.

**The remote view** (`ViewProofs`). `ViewInv` bounds and types the histories and says
of each point drawn that it lies between two samples; this needs no order of
the samples, since `render_position` looks for a bracketing pair, and holds also
when the clock is set back (`ViewTypeCorrect`). `Steady` is what
holds until it is set back: samples, and the snapshots in the queue behind them,
are in the order of their times, none is of the future, and nobody has been drawn
further than the moment a frame now would show (`SteadyInvariant`). That gives
`DrawnForward`, `FreshNotHidden` and `DrawnOnDelay`, which rests on `RenderMoment`: among
samples in order, the point rendered is at the moment asked for, moved to the
oldest or the newest sample when it lies outside them.

**The baseline** (`BaselineProofs`). `BaselineInv` says that the world is in step with
the clients, by id (`InStep`), and of each connection that it has a seat (`Served`) or
none (`Unserved`). What is under way is part of it: a stream together with what has
been read of it is whole lines; the first line to a client is its JA; every
snapshot line after that has the client in it, with an acknowledgement up to what
the world has processed of its inputs, which is less than the number of its next
one (`Incoming`, `Own`). `AcksAreOwn` alone is not inductive: it says nothing of what a client that
has not joined will receive, and rests on an id given to a newcomer having an
acknowledgement of 0. The parts are stated of the values of one connection, so
that the steps of the others leave it alone at once. The theorems are
`BaselineTypeCorrect`, `SeatsMatchWorld`, `LinesStayWhole`, `OwnAcks` and
`PendingLeftForCause`. For the last, a retired input is no newer than an
acknowledgement on the way to its client, and so than what the world has
processed for it (`RetiredAreProcessed`); an input otherwise leaves only with all
the others, when there are `MaxPending` of them and one more is made (`PendingFull`).
Nothing is supposed of how many inputs a client makes.

`SeatsKept`, `SendsServeRecipients`, `RingHoldsNewest` and the theorems named after an
invariant are lemmas in substance: no run has a property of its own for them, for
the theorems they serve say as much and more.

## 7. What is only model-checked

* Liveness (`GoneIsUnseated`, `Settles`, `OutboundLeaves`, `InboundDelivered`, `ExitEnds`,
  `GoneIsRemoved`): fairness and ENABLED are out of the prover's reach.

## 8. What the code does otherwise than it says

1. **The notice that does not leave** (`exit_delayed`). At the exit the client
   sends DISCONNECT_NOTICE and pumps once (`client/client.cpp:401`). With a delay
   on the send side the notice is not due, and the queue is destroyed with it; the
   server keeps the seat until its time-out. The comment at `client.cpp:395` says
   "Send clean DISCONNECT_NOTICE".
2. **A clock set back hides players** (`view_slip`). Ages are unsigned differences
   of wall-clock times (`client/interpolation.cpp:56`, and `:23`); a sample stamped
   after "now" has an enormous age, and its player is dropped although
   `interpolation.hpp:29` promises that for stale ones only. As long as the clock
   is not set back the promise holds (`HiddenOnlyIfStaleWhenSteady`).
3. **One history, two players** (`view_reuse`). Histories are keyed by id and ids
   are given away at once, so a newcomer slides in from where its predecessor
   was.
4. **The departed stay on the baseline's screen** (`baseline_shown`). Snapshots are
   merged into a map from which nothing is erased
   (`client/tcp_baseline_client.cpp:242`), while the file's first comment says it
   "renders only the most recently received authoritative state".

5. **No extrapolation** (no run of its own). `docs/results_interpretation.md:94`
   says that after a dropped snapshot "the optimized client's interpolation buffer
   had 100 ms of runway, so the user sees a brief extrapolation rather than a
   visible freeze". The code has the runway and no extrapolation: positions are
   interpolated between samples received, and a player whose samples are used up
   stands still at the newest (`client/interpolation.cpp:46`, "no extrapolation by
   design"), which is a freeze, until another sample comes or it is stale after
   two seconds. `RunwayThenHold` says so exactly; it is checked (`view`) and
   proved (`DrawnOnDelay`), so that the document is wrong in every behaviour in
   which the runway is used up.

With prediction off the client sends the direction and records (0, 0) under the
same number (`client.cpp:273`), so when F3 switches prediction on, inputs still on
their way are replayed as standstills. Nothing in the code promises otherwise;
`LocalPlayer` and `Client` do the same, and `Settles` holds all the same.

## 9. What is not modelled

Rendering, HUD, bots and keyboard, logging, the socket layer, programs and
options, and scripts keep no state that another part reads. The mode label and
the counters of the HUD and the CSV files are written and not read. The modules
other than `Serialization` take a packet for the record it decodes to.

The schedule of ticks and inputs (`server.cpp:55-62`, `client.cpp:303`,
`tcp_baseline.cpp:189`) is left out: a tick, and an input, may come at any time,
which includes the times the code chooses. That the world slows down when the
loop falls behind is thus not stated anywhere.

A client started again at the same endpoint within the time-out would get its
old session, and its inputs would be dropped until their numbers pass the old
ones (`session_manager.cpp:16`). `Server` has that sequence; `LightningLink` does not,
because the client takes a port of the system's choice.

A network that delivers a datagram twice is left out of `LightningLink`, though not
of `Server`: a copy of a JOIN_REQUEST that comes after its client has been reaped
would seat it anew, perhaps under another id, while it goes on playing under the
first (`server.cpp:89`). The conditioner makes no copies, and nothing promises that
the game bears them.

Partial and failing writes of the baseline's sockets are left out: every `::send`
has room. Floating point is not modelled: two positions that are equal here may
differ by a rounding there.
