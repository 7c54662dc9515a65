----------------------------- MODULE Kinematics -----------------------------
(***************************************************************************)
(* Movement in the arena, shared by the server's world and by the          *)
(* client's prediction (common/math_utils.hpp, common/types.hpp).          *)
(*                                                                         *)
(* The code moves a float position by a normalised direction times         *)
(* PLAYER_SPEED times dt.  Directions have components in {-1, 0, 1}, so    *)
(* after normalisation a player advances by one of two lengths along each  *)
(* axis it moves on: PLAYER_SPEED * dt when it moves along one axis only,  *)
(* that length divided by the square root of two when it moves along both. *)
(* The model keeps positions on an integer grid, names the two lengths per *)
(* unit of time, and measures dt in that unit (one server tick).           *)
(***************************************************************************)
EXTENDS Integers

CONSTANTS
    ARENA_WIDTH,    \* largest x, common/constants.hpp:16
    ARENA_HEIGHT,   \* largest y, common/constants.hpp:17
    StraightStep,   \* grid units per unit of time along a single axis
    DiagonalStep    \* grid units per unit of time on each axis of a diagonal

ASSUME KinematicsAssumption ==
    /\ ARENA_WIDTH \in Nat
    /\ ARENA_HEIGHT \in Nat
    /\ StraightStep \in Nat
    /\ DiagonalStep \in Nat
    /\ DiagonalStep <= StraightStep

\* The components of a direction once apply_input has clamped them.
Axis == -1..1

Arena == [x : 0..ARENA_WIDTH, y : 0..ARENA_HEIGHT]

\* Where add_player puts a player and where a client starts predicting.
Spawn == [x |-> ARENA_WIDTH \div 2, y |-> ARENA_HEIGHT \div 2]

clampf(v, lo, hi) == IF v < lo THEN lo ELSE IF v > hi THEN hi ELSE v

\* Mutant of clamp_to_arena: the two bounds swapped.
clamp_to_arena_swapped(p) ==
    [x |-> clampf(p.x, 0, ARENA_HEIGHT), y |-> clampf(p.y, 0, ARENA_WIDTH)]

clamp_to_arena(p) ==
    [x |-> clampf(p.x, 0, ARENA_WIDTH), y |-> clampf(p.y, 0, ARENA_HEIGHT)]

\* normalize_dir(mx, my) * PLAYER_SPEED, for mx and my in Axis.
Velocity(mx, my) ==
    LET length == IF mx # 0 /\ my # 0 THEN DiagonalStep ELSE StraightStep
    IN  [x |-> mx * length, y |-> my * length]

\* The position after moving from p in direction (mx, my) for dt.
apply_move(p, mx, my, dt) ==
    clamp_to_arena([x |-> p.x + Velocity(mx, my).x * dt,
                    y |-> p.y + Velocity(mx, my).y * dt])
=============================================================================
