---------------------------- MODULE Interpolator ----------------------------
(***************************************************************************)
(* The histories of the remote players (client/interpolation.cpp), keyed   *)
(* by player id.  A sample is of some entity, the player that had the id   *)
(* when the server took the snapshot, and stands for its position; a point *)
(* drawn is given by the two samples it lies between and by the time       *)
(* elapsed since the first.                                                *)
(***************************************************************************)
EXTENDS Integers, SequencesExt, Maps

CONSTANTS
    SNAPSHOT_HISTORY_SIZE,  \* common/constants.hpp:30
    INTERP_DELAY,           \* INTERP_DELAY_SEC, in units of the clock
    ENTITY_STALE,           \* ENTITY_STALE_SEC, likewise
    ClockModulus            \* times are uint64: differences wrap here

ASSUME InterpolatorAssumption ==
    /\ SNAPSHOT_HISTORY_SIZE \in Nat \ {0}
    /\ INTERP_DELAY \in Nat
    /\ ENTITY_STALE \in Nat
    /\ ClockModulus \in Nat \ {0}

VARIABLE histories

Sample(entity, recv_wall_ms) ==
    [entity |-> entity, recv_wall_ms |-> recv_wall_ms]

History(id) == IF id \in DOMAIN histories THEN histories[id] ELSE <<>>

-----------------------------------------------------------------------------
\* Mutant of Trim: one sample too many is kept.
TrimTooLate(dq) ==
    SubSeq(dq, 1 + (IF Len(dq) > SNAPSHOT_HISTORY_SIZE + 1 THEN 1 ELSE 0),
           Len(dq))

Trim(dq) ==
    SubSeq(dq, 1 + Max({0, Len(dq) - SNAPSHOT_HISTORY_SIZE}), Len(dq))

\* histories_ after one sample for each of several ids.
ingest(samples) ==
    [id \in DOMAIN histories \cup DOMAIN samples |->
        IF id \in DOMAIN samples
        THEN Trim(Append(History(id), samples[id]))
        ELSE histories[id]]

\* Mutant of Stale: a sample is stale as soon as it reaches the limit.
StaleAtLimit(dq, now_ms) ==
    (now_ms - Last(dq).recv_wall_ms) % ClockModulus >= ENTITY_STALE

\* An unsigned difference: a sample received after now_ms is stale.
Stale(dq, now_ms) ==
    (now_ms - Last(dq).recv_wall_ms) % ClockModulus > ENTITY_STALE

Hold(sample) == [from |-> sample, to |-> sample, elapsed |-> 0]

Between(a, b, target) ==
    [from |-> a, to |-> b, elapsed |-> target - a.recv_wall_ms]

\* Mutant of Brackets: the upper end is not looked at.
BracketsFromBelow(dq, target) ==
    {i \in 2..Len(dq) : dq[i - 1].recv_wall_ms <= target}

\* The samples such that the target lies between the one before and it.
Brackets(dq, target) ==
    {i \in 2..Len(dq) : /\ dq[i - 1].recv_wall_ms <= target
                        /\ target <= dq[i].recv_wall_ms}

\* Mutant of Unbracketed: past the newest sample, the earliest is held.
UnbracketedAtFirst(dq, target) == Hold(dq[1])

Unbracketed(dq, target) ==
    IF target < dq[1].recv_wall_ms THEN Hold(dq[1]) ELSE Hold(Last(dq))

\* Where to draw a player: an empty set when it is not to be drawn.
render_position(id, now_ms) ==
    LET dq     == History(id)
        target == now_ms - INTERP_DELAY
        first  == Min(Brackets(dq, target))
    IN  IF dq = <<>> THEN {}
        ELSE IF now_ms < INTERP_DELAY THEN {Hold(Last(dq))}
        ELSE IF Stale(dq, now_ms) THEN {}
        ELSE IF Brackets(dq, target) = {} THEN {Unbracketed(dq, target)}
        ELSE IF dq[first].recv_wall_ms = dq[first - 1].recv_wall_ms
        THEN {Hold(dq[first])}
        ELSE {Between(dq[first - 1], dq[first], target)}

\* histories_ after prune.
prune(now_ms) ==
    Erase(histories, {id \in DOMAIN histories : Stale(histories[id], now_ms)})

\* The moment in the history at which a point lies.
Moment(point) == point.from.recv_wall_ms + point.elapsed
=============================================================================
