----------------------------- MODULE WorldProofs -----------------------------
(***************************************************************************)
(* Lemmas about the operators of Kinematics, Inputs and WorldState: what   *)
(* they return and what they leave alone.                                  *)
(***************************************************************************)
EXTENDS WorldState, Inputs, Induction

\* Velocity has integer components no longer than StraightStep.
LEMMA VelocityBounded ==
    ASSUME NEW mx \in Axis, NEW my \in Axis
    PROVE  /\ Velocity(mx, my).x \in -StraightStep..StraightStep
           /\ Velocity(mx, my).y \in -StraightStep..StraightStep
<1> DEFINE length == IF mx # 0 /\ my # 0 THEN DiagonalStep ELSE StraightStep
<1>1. length \in 0..StraightStep
  BY KinematicsAssumption
<1>2. /\ mx \in {-1, 0, 1} /\ my \in {-1, 0, 1}
  BY DEF Axis
<1>3. /\ mx * length \in -StraightStep..StraightStep
      /\ my * length \in -StraightStep..StraightStep
  <2> HIDE DEF length
  <2> QED BY <1>1, <1>2, KinematicsAssumption
<1> QED BY <1>3 DEF Velocity

\* A move ends in the arena, and one of unit length no further than
\* StraightStep from where it began on either axis.
LEMMA MoveInArena ==
    ASSUME NEW p \in Arena, NEW mx \in Axis, NEW my \in Axis
    PROVE  /\ apply_move(p, mx, my, 1) \in Arena
           /\ apply_move(p, mx, my, 1).x - p.x \in -StraightStep..StraightStep
           /\ apply_move(p, mx, my, 1).y - p.y \in -StraightStep..StraightStep
<1> DEFINE vx == Velocity(mx, my).x
           vy == Velocity(mx, my).y
<1>1. /\ vx \in -StraightStep..StraightStep
      /\ vy \in -StraightStep..StraightStep
  BY VelocityBounded
<1>2. /\ p.x \in 0..ARENA_WIDTH
      /\ p.y \in 0..ARENA_HEIGHT
  BY DEF Arena
<1>3. apply_move(p, mx, my, 1) =
          [x |-> clampf(p.x + vx * 1, 0, ARENA_WIDTH),
           y |-> clampf(p.y + vy * 1, 0, ARENA_HEIGHT)]
  BY DEF apply_move, clamp_to_arena
<1> HIDE DEF vx, vy
<1>4. /\ clampf(p.x + vx * 1, 0, ARENA_WIDTH) \in 0..ARENA_WIDTH
      /\ clampf(p.x + vx * 1, 0, ARENA_WIDTH) - p.x
             \in -StraightStep..StraightStep
  BY <1>1, <1>2, KinematicsAssumption DEF clampf
<1>5. /\ clampf(p.y + vy * 1, 0, ARENA_HEIGHT) \in 0..ARENA_HEIGHT
      /\ clampf(p.y + vy * 1, 0, ARENA_HEIGHT) - p.y
             \in -StraightStep..StraightStep
  BY <1>1, <1>2, KinematicsAssumption DEF clampf
<1> QED BY <1>3, <1>4, <1>5 DEF Arena

\* A move of any duration ends in the arena.
LEMMA MoveEndsInArena ==
    ASSUME NEW p \in Arena, NEW mx \in Axis, NEW my \in Axis, NEW dt \in Nat
    PROVE  apply_move(p, mx, my, dt) \in Arena
<1> DEFINE dx == Velocity(mx, my).x * dt
           dy == Velocity(mx, my).y * dt
<1>1. dx \in Int /\ dy \in Int
  <2>1. Velocity(mx, my).x \in Int /\ Velocity(mx, my).y \in Int
    BY VelocityBounded, KinematicsAssumption
  <2> QED BY <2>1
<1>2. /\ p.x \in 0..ARENA_WIDTH
      /\ p.y \in 0..ARENA_HEIGHT
  BY DEF Arena
<1>3. apply_move(p, mx, my, dt) =
          [x |-> clampf(p.x + dx, 0, ARENA_WIDTH),
           y |-> clampf(p.y + dy, 0, ARENA_HEIGHT)]
  BY DEF apply_move, clamp_to_arena
<1> HIDE DEF dx, dy
<1>4. /\ clampf(p.x + dx, 0, ARENA_WIDTH) \in 0..ARENA_WIDTH
      /\ clampf(p.y + dy, 0, ARENA_HEIGHT) \in 0..ARENA_HEIGHT
  BY <1>1, <1>2, KinematicsAssumption DEF clampf
<1> QED BY <1>3, <1>4 DEF Arena

\* Inputs that can be replayed, whatever their numbers.
Replayable(inputs) ==
    /\ Len(inputs) \in Nat
    /\ \A i \in 1..Len(inputs) :
           /\ inputs[i].mx \in Axis
           /\ inputs[i].my \in Axis
           /\ inputs[i].dt \in Nat

\* A replay goes through the inputs one by one, and stays in the arena.
LEMMA PositionsOneByOne ==
    ASSUME NEW inputs, Replayable(inputs), NEW from \in Arena, NEW ack
    PROVE  LET pos == Positions(inputs, from, ack)
           IN  /\ pos \in [0..Len(inputs) -> Arena]
               /\ pos[0] = from
               /\ \A i \in 1..Len(inputs) :
                      pos[i] = IF inputs[i].seq > ack
                               THEN apply_move(pos[i - 1], inputs[i].mx,
                                        inputs[i].my, inputs[i].dt)
                               ELSE pos[i - 1]
<1> DEFINE n == Len(inputs)
           After(i, p) == IF inputs[i].seq > ack
                          THEN apply_move(p, inputs[i].mx, inputs[i].my,
                                   inputs[i].dt)
                          ELSE p
           Body(g) == [i \in 0..n |-> IF i = 0 THEN from
                                      ELSE IF inputs[i].seq > ack
                                      THEN apply_move(g[i - 1], inputs[i].mx,
                                               inputs[i].my, inputs[i].dt)
                                      ELSE g[i - 1]]
           pos  == CHOOSE g : g = Body(g)
           step == [p \in (1..n) \X Arena |-> After(p[1], p[2])]
<1>1. n \in Nat
  BY DEF Replayable
<1>2. Positions(inputs, from, ack) = pos
  BY DEF Positions
<1>3. ASSUME NEW i \in 1..n, NEW p \in Arena PROVE After(i, p) \in Arena
  BY MoveEndsInArena DEF Replayable
<1> HIDE DEF n
<1>4. ASSUME NEW w, \A i \in 1..n : w[i] = After(i, w[i - 1]), w[0] = from,
             w = [i \in 0..n |-> w[i]]
      PROVE  w = Body(w)
  <2>1. ASSUME NEW i \in 0..n PROVE w[i] = Body(w)[i]
    <3>1. CASE i = 0
      BY <1>4, <3>1
    <3>2. CASE i # 0
      <4>1. i \in 1..n
        BY <1>1, <3>2
      <4> QED BY <1>4, <3>2, <4>1
    <3> QED BY <3>1, <3>2
  <2> QED BY <1>4, <2>1
<1>5. pos = Body(pos) =>
          /\ pos = [i \in 0..n |-> pos[i]]
          /\ pos[0] = from
          /\ \A i \in 1..n : pos[i] = After(i, pos[i - 1])
  <2> HIDE DEF pos
  <2> SUFFICES ASSUME pos = Body(pos)
               PROVE  /\ pos = [i \in 0..n |-> pos[i]]
                      /\ pos[0] = from
                      /\ \A i \in 1..n : pos[i] = After(i, pos[i - 1])
    OBVIOUS
  <2>1. 0 \in 0..n /\ \A i \in 1..n : i \in 0..n /\ i # 0
    BY <1>1
  <2>2. \A i \in 0..n : pos[i] = Body(pos)[i]
    OBVIOUS
  <2>3. pos = [i \in 0..n |-> pos[i]]
    OBVIOUS
  <2> QED BY <2>1, <2>2, <2>3
<1>6. /\ step \in [(1..n) \X Arena -> Arena]
      /\ \A i \in 1..n, p \in Arena : step[<<i, p>>] = After(i, p)
  <2> HIDE DEF After
  <2> QED BY <1>3
<1> HIDE DEF step
<1>7. PICK w \in [0..n -> Arena] : Made(w, step, from, n)
  <2>1. Steps(step, n, Arena)
    BY <1>1, <1>6 DEF Steps
  <2> QED BY <2>1, Iteration
<1>8. \A i \in 1..n : w[i] = After(i, w[i - 1])
  <2> HIDE DEF After
  <2>1. \A i \in 1..n : i - 1 \in 0..n
    BY <1>1
  <2> QED BY <1>6, <1>7, <2>1 DEF Made
<1>9. pos = Body(pos)
  <2>1. w = Body(w)
    BY <1>4, <1>7, <1>8 DEF Made
  <2> HIDE DEF Body
  <2> QED BY <2>1
<1> HIDE DEF pos
<1>10. /\ pos[0] = from
       /\ \A i \in 1..n : pos[i] = After(i, pos[i - 1])
       /\ pos = [i \in 0..n |-> pos[i]]
  BY <1>5, <1>9
<1>11. pos \in [0..n -> Arena]
  <2> DEFINE T == {i \in 0..n : pos[i] \in Arena}
  <2>1. 0 \in T
    BY <1>1, <1>10
  <2>2. ASSUME NEW k \in 0..n - 1, k \in T PROVE k + 1 \in T
    <3>1. k + 1 \in 1..n /\ (k + 1) - 1 = k
      BY <1>1
    <3>2. pos[k + 1] = After(k + 1, pos[k])
      BY <1>10, <3>1
    <3> HIDE DEF After
    <3> QED BY <1>1, <1>3, <2>2, <3>1, <3>2
  <2>3. 0..n \subseteq T
    <3> HIDE DEF T
    <3> QED BY <1>1, <2>1, <2>2, UpTo
  <2> QED BY <1>10, <2>3
<1> QED BY <1>2, <1>10, <1>11 DEF n

\* A new player has the type of a player.
LEMMA NewPlayerType == NewPlayer \in Player
<1>1. Spawn \in Arena
  BY KinematicsAssumption DEF Spawn, Arena
<1>2. 0 \in Axis /\ 0 \in Seqs
  BY SeqAssumption DEF Axis, Seqs
<1> QED BY <1>1, <1>2 DEF NewPlayer, Player

\* add_player puts a new player at an id that is free and changes nothing at
\* one that is taken.
LEMMA AddPlayer ==
    ASSUME NEW S, NEW players \in [S -> Player], NEW id
    PROVE  /\ add_player(players, id) \in [S \cup {id} -> Player]
           /\ id \notin S => add_player(players, id)[id] = NewPlayer
           /\ \A other \in S : add_player(players, id)[other] = players[other]
BY NewPlayerType DEF add_player, Put

\* remove_player drops the ids named and keeps the others as they were.
LEMMA RemovePlayer ==
    ASSUME NEW S, NEW players \in [S -> Player], NEW ids
    PROVE  /\ remove_player(players, ids) \in [S \ ids -> Player]
           /\ \A id \in S \ ids : remove_player(players, ids)[id] = players[id]
BY DEF remove_player, Erase, Restrict

\* apply_input keeps the players in play and their types: the direction is
\* clamped, whatever the input carries.
LEMMA ApplyInputType ==
    ASSUME NEW S, NEW players \in [S -> Player], NEW id,
           NEW seq \in Seqs, NEW mx \in Int, NEW my \in Int
    PROVE  apply_input(players, id, seq, mx, my) \in [S -> Player]
<1>1. clampf(mx, -1, 1) \in Axis /\ clampf(my, -1, 1) \in Axis
  BY DEF clampf, Axis
<1> QED BY <1>1 DEF apply_input, Player

\* apply_input touches no player but the one named, moves none, and takes
\* that player's sequence numbers forward together or not at all.
LEMMA ApplyInput ==
    ASSUME NEW S, NEW players \in [S -> Player], NEW id,
           NEW seq \in Seqs, NEW mx \in Int, NEW my \in Int, NEW any \in S
    PROVE  LET after == apply_input(players, id, seq, mx, my)[any]
           IN  /\ after.pos = players[any].pos
               /\ \/ after = players[any]
                  \/ /\ any = id
                     /\ after.latest_seen_seq = seq
                     /\ after.last_processed_input_seq = seq
                     /\ seq >= players[any].latest_seen_seq
BY DEF apply_input, Player

\* step_tick moves the players and changes nothing else of them.
LEMMA StepTick ==
    ASSUME NEW S, NEW players \in [S -> Player]
    PROVE  /\ step_tick(players) \in [S -> Player]
           /\ \A id \in S :
                  step_tick(players)[id] =
                      [players[id] EXCEPT
                          !.pos = apply_move(players[id].pos,
                                             players[id].pending_mx,
                                             players[id].pending_my, 1)]
<1>1. ASSUME NEW id \in S
      PROVE  apply_move(players[id].pos, players[id].pending_mx,
                        players[id].pending_my, 1) \in Arena
  BY MoveInArena DEF Player
<1> QED BY <1>1 DEF step_tick, Player

\* What a snapshot says of the players in play.
LEMMA CollectStates ==
    ASSUME NEW S, NEW players \in [S -> Player]
    PROVE  collect_player_states(players) \in [S -> PlayerState]
BY DEF collect_player_states, PlayerState, Player
=============================================================================
