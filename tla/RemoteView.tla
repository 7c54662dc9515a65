----------------------------- MODULE RemoteView -----------------------------
(***************************************************************************)
(* The remote players as an optimized client shows them: the receiver      *)
(* thread stamps and queues snapshots (client/network_receiver.cpp,        *)
(* client/snapshot_queue.hpp); the main thread, in each frame, drains the  *)
(* queue, prunes, and draws (client/client.cpp).  The frame reads the wall *)
(* clock anew for each of these, while the receiver goes on.               *)
(*                                                                         *)
(* `owner` is the server's side: who has which of the other ids.  Ids are  *)
(* given to newcomers again.  A snapshot says who owns them when received; *)
(* `clock` is the system's wall clock, which may be set back.              *)
(***************************************************************************)
EXTENDS Interpolator

CONSTANTS
    RemoteIds,
    Entities,           \* the players that may have one of the remote ids
    StartTime,          \* the wall clock at the start, past INTERP_DELAY
    MaxTime,            \* bound on the clock
    MaxQueued           \* bound on the snapshots waiting in the queue

ASSUME ViewAssumption ==
    /\ StartTime \in Nat /\ StartTime >= INTERP_DELAY
    /\ MaxTime \in Nat /\ StartTime <= MaxTime /\ MaxTime < ClockModulus
    /\ MaxQueued \in Nat

VARIABLES
    clock,                  \* what wall_time_ms() returns
    slipped,                \* whether the clock has ever been set back
    owner,                  \* the server: id -> the entity that has it
    queue,                  \* SnapshotQueue::q_
    latest_authoritative,   \* id -> the entity of the newest state
    interpolation_enabled,  \* hud.interpolation_enabled
    phase,                  \* of the frame: "drain", "prune", "draw"
    drawn                   \* id -> the point drawn in the last frame

viewVars == <<histories, clock, slipped, owner, queue, latest_authoritative,
              interpolation_enabled, phase, drawn>>

StampedSnapshot(states, time) == [players |-> states, recv_wall_ms |-> time]

Init ==
    /\ histories = NoEntries
    /\ clock = StartTime
    /\ slipped = FALSE
    /\ owner = NoEntries
    /\ queue = <<>>
    /\ latest_authoritative = NoEntries
    /\ interpolation_enabled \in BOOLEAN
    /\ phase = "drain"
    /\ drawn = NoEntries

-----------------------------------------------------------------------------
\* The server gives a free id to somebody, or takes one back.
Seat(id, entity) ==
    /\ id \notin DOMAIN owner
    /\ \A other \in DOMAIN owner : owner[other] # entity
    /\ owner' = Put(owner, id, entity)
    /\ UNCHANGED <<histories, clock, slipped, queue, latest_authoritative,
                   interpolation_enabled, phase, drawn>>

Unseat(id) ==
    /\ id \in DOMAIN owner
    /\ owner' = Erase(owner, {id})
    /\ UNCHANGED <<histories, clock, slipped, queue, latest_authoritative,
                   interpolation_enabled, phase, drawn>>

\* NetworkReceiver::run: a snapshot is decoded, stamped and pushed.
Receive ==
    /\ Len(queue) < MaxQueued
    /\ queue' = Append(queue, StampedSnapshot(owner, clock))
    /\ UNCHANGED <<histories, clock, slipped, owner, latest_authoritative,
                   interpolation_enabled, phase, drawn>>

-----------------------------------------------------------------------------
\* try_pop gives a snapshot: each remote state in it becomes the latest and
\* a sample.
DrainSnapshot ==
    /\ phase = "drain"
    /\ queue # <<>>
    /\ LET ss == Head(queue)
       IN  /\ latest_authoritative' =
                  [id \in DOMAIN latest_authoritative \cup DOMAIN ss.players |->
                      IF id \in DOMAIN ss.players THEN ss.players[id]
                      ELSE latest_authoritative[id]]
           /\ histories' = ingest([id \in DOMAIN ss.players |->
                               Sample(ss.players[id], ss.recv_wall_ms)])
    /\ queue' = Tail(queue)
    /\ UNCHANGED <<clock, slipped, owner, interpolation_enabled, phase, drawn>>

\* try_pop gives nothing: the loop ends.
DrainEnds ==
    /\ phase = "drain"
    /\ queue = <<>>
    /\ phase' = "prune"
    /\ UNCHANGED <<histories, clock, slipped, owner, queue,
                   latest_authoritative, interpolation_enabled, drawn>>

Prune ==
    /\ phase = "prune"
    /\ histories' = prune(clock)
    /\ phase' = "draw"
    /\ UNCHANGED <<clock, slipped, owner, queue, latest_authoritative,
                   interpolation_enabled, drawn>>

\* Every remote player ever heard of is drawn: interpolated, unless there is
\* nothing to interpolate, or at its latest position.
Draw ==
    /\ phase = "draw"
    /\ drawn' =
           [id \in {i \in DOMAIN latest_authoritative :
                        interpolation_enabled => render_position(i, clock) # {}}
                |-> IF interpolation_enabled
                    THEN CHOOSE point \in render_position(id, clock) : TRUE
                    ELSE Hold(Sample(latest_authoritative[id], clock))]
    /\ phase' = "drain"
    /\ UNCHANGED <<histories, clock, slipped, owner, queue,
                   latest_authoritative, interpolation_enabled>>

\* F4, at the start of a frame.
ToggleInterpolation ==
    /\ phase = "drain"
    /\ interpolation_enabled' = ~interpolation_enabled
    /\ drawn' = NoEntries
    /\ UNCHANGED <<histories, clock, slipped, owner, queue,
                   latest_authoritative, phase>>

-----------------------------------------------------------------------------
\* Time passes, or the wall clock is set back.
Advance ==
    /\ clock < MaxTime
    /\ clock' = clock + 1
    /\ UNCHANGED <<histories, slipped, owner, queue, latest_authoritative,
                   interpolation_enabled, phase, drawn>>

Slip ==
    /\ clock > StartTime
    /\ clock' = clock - 1
    /\ slipped' = TRUE
    /\ UNCHANGED <<histories, owner, queue, latest_authoritative,
                   interpolation_enabled, phase, drawn>>

Next ==
    \/ \E id \in RemoteIds, entity \in Entities : Seat(id, entity)
    \/ \E id \in RemoteIds : Unseat(id)
    \/ Receive
    \/ DrainSnapshot \/ DrainEnds \/ Prune \/ Draw
    \/ ToggleInterpolation
    \/ Advance \/ Slip

Spec == Init /\ [][Next]_viewVars

-----------------------------------------------------------------------------
Samples == [entity : Entities, recv_wall_ms : StartTime..MaxTime]

\* Every variable keeps its type, and no history outgrows its bound.
ViewTypeOK ==
    /\ clock \in StartTime..MaxTime
    /\ slipped \in BOOLEAN
    /\ DOMAIN owner \subseteq RemoteIds
    /\ \A id \in DOMAIN owner : owner[id] \in Entities
    /\ Len(queue) \in 0..MaxQueued
    /\ DOMAIN histories \subseteq DOMAIN latest_authoritative
    /\ \A id \in DOMAIN histories :
           /\ Len(histories[id]) \in 1..SNAPSHOT_HISTORY_SIZE
           /\ ToSet(histories[id]) \subseteq Samples
    /\ DOMAIN drawn \subseteq DOMAIN latest_authoritative

\* The moment INTERP_DELAY before now, or the nearest that a history has.
DelayedMoment(dq, now_ms) ==
    LET target == now_ms - INTERP_DELAY
        oldest == dq[1].recv_wall_ms
        newest == Last(dq).recv_wall_ms
    IN  IF target < oldest THEN oldest
        ELSE IF target > newest THEN newest
        ELSE target

\* "no extrapolation by design" (client/interpolation.cpp:46), when snapshots
\* are lost or late: a player goes on through the samples that are left of the
\* delay, exactly INTERP_DELAY behind the frame's clock, and then stands
\* still at the newest until another comes.  Whatever the clock has done,
\* it is between two samples.  docs/results_interpretation.md:94 says that one
\* sees "a brief extrapolation rather than a visible freeze": there is none.
RunwayThenHold ==
    [][Draw /\ interpolation_enabled =>
           \A id \in DOMAIN drawn' :
               /\ drawn'[id].elapsed \in
                      0..drawn'[id].to.recv_wall_ms
                             - drawn'[id].from.recv_wall_ms
               /\ ~slipped => Moment(drawn'[id])
                                  = DelayedMoment(histories[id], clock)]_viewVars

\* As long as the wall clock has not been set back, a remote player is drawn
\* from frame to frame at later and later moments of its history: it never
\* jumps back, not when samples arrive, nor when the oldest are dropped, nor
\* when they run out.
DrawnMovesForward ==
    [][~slipped => \A id \in DOMAIN drawn \cap DOMAIN drawn' :
           Moment(drawn'[id]) >= Moment(drawn[id])]_viewVars

\* In this step no player whose newest sample is not too old is forgotten by
\* a prune or left out of a frame.
FreshAreShown ==
    \A id \in DOMAIN histories :
        \/ clock > Last(histories[id]).recv_wall_ms + ENTITY_STALE
        \/ /\ id \in DOMAIN histories'
           /\ Draw => id \in DOMAIN drawn'

\* "Returns false if the entity ... is stale past ENTITY_STALE_SEC"
\* (client/interpolation.hpp:29): only a player whose newest sample is that
\* old is forgotten or hidden.
HiddenOnlyIfStale == [][FreshAreShown]_viewVars

\* The same, for as long as the wall clock has not been set back: whichever
\* readings of the clock stamp, prune and draw, dropped samples and pruned
\* histories hide nobody else.
HiddenOnlyIfStaleWhenSteady == [][~slipped => FreshAreShown]_viewVars

\* "Per-remote-entity history" (client/interpolation.hpp:13): the samples of
\* a history, between which positions are interpolated, are of one entity.
OneEntityPerHistory ==
    \A id \in DOMAIN histories, i, j \in 1..SNAPSHOT_HISTORY_SIZE :
        {i, j} \subseteq DOMAIN histories[id] =>
            histories[id][i].entity = histories[id][j].entity
=============================================================================
