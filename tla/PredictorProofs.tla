-------------------------- MODULE PredictorProofs --------------------------
(***************************************************************************)
(* The ring of the Predictor is the window of the newest inputs, for any   *)
(* size of the ring and any number of inputs; the local player implements  *)
(* InputHistory, stays in the arena, and is left alone by the snapshots    *)
(* that confirm what was predicted.                                        *)
(***************************************************************************)
EXTENDS PredictedPath, WorldProofs

\* The arithmetic of an index that wraps once.
LEMMA WrapOnce ==
    ASSUME NEW n \in Nat \ {0}, NEW a \in 0..2 * n - 1
    PROVE  a % n = IF a < n THEN a ELSE a - n
<1>1. CASE a < n
  BY <1>1, Z3
<1>2. CASE a >= n
  BY <1>2, Z3
<1> QED BY <1>1, <1>2

RingOK == RingTypeOK /\ HoldsNewest

\* The ring has a slot.
LEMMA SizeType == N \in Nat \ {0}
BY RingAssumption DEF N

\* A slot read is a slot, and the wrapping index in closed form.
LEMMA SlotRead ==
    ASSUME RingTypeOK, NEW i \in 0..count - 1
    PROVE  Slot(i) = IF head - count + i < 0 THEN head + N - count + i
                                             ELSE head - count + i
<1>1. /\ N \in Nat \ {0} /\ head \in 0..N - 1 /\ count \in 0..N
  BY SizeType DEF RingTypeOK, Slots
<1>2. head + N - count + i \in 0..2 * N - 1
  BY <1>1
<1> DEFINE a == head + N - count + i
<1>3. a % N = IF a < N THEN a ELSE a - N
  <2> HIDE DEF a
  <2> QED BY <1>1, <1>2, WrapOnce DEF a
<1> QED BY <1>1, <1>3 DEF Slot

\* An empty ring holds the newest inputs: none.
LEMMA PredictorInitOK == PredictorInit => RingOK
<1> SUFFICES ASSUME PredictorInit PROVE RingOK
  OBVIOUS
<1>1. N \in Nat \ {0} /\ MaxInputs \in Nat
  BY SizeType, InputsAssumption
<1>2. RingTypeOK
  BY <1>1 DEF PredictorInit, RingTypeOK, Slots
<1>3. HoldsNewest
  BY <1>1 DEF PredictorInit, HoldsNewest
<1> QED BY <1>2, <1>3 DEF RingOK

-----------------------------------------------------------------------------
\* What recording an input does to the ring as it is read: the inputs read
\* are the ones read before, without the oldest if the ring was full, and
\* the new one at the end.
LEMMA RecordReads ==
    ASSUME RingTypeOK, NEW mx \in Axis, NEW my \in Axis,
           NEW dt \in Durations, Record(mx, my, dt)
    PROVE  /\ RingTypeOK'
           /\ count' = IF count < N THEN count + 1 ELSE N
           /\ \A i \in 0..count' - 1 :
                  Nth(i)' = IF i = count' - 1
                            THEN Input(next_seq, mx, my, dt)
                            ELSE IF count < N THEN Nth(i) ELSE Nth(i + 1)
<1> DEFINE new == Input(next_seq, mx, my, dt)
<1>1. /\ N \in Nat \ {0} /\ MaxInputs \in Nat
      /\ head \in 0..N - 1 /\ count \in 0..N
      /\ next_seq \in 1..MaxInputs + 1 /\ next_seq <= MaxInputs
      /\ ring \in [0..N - 1 -> PredictedInput \cup {Blank}]
  BY SizeType, InputsAssumption DEF RingTypeOK, Slots, Record
<1>2. new \in PredictedInput
  BY <1>1 DEF Input, PredictedInput
<1>3. /\ ring' = [ring EXCEPT ![head] = new]
      /\ head' = (head + 1) % N
      /\ count' = IF count < N THEN count + 1 ELSE count
      /\ next_seq' = next_seq + 1
  BY DEF Record, Grown
<1> HIDE DEF new
<1>4. head' = IF head + 1 < N THEN head + 1 ELSE 0
  <2> DEFINE a == head + 1
  <2>1. a \in 0..2 * N - 1
    BY <1>1
  <2>2. a % N = IF a < N THEN a ELSE a - N
    <3> HIDE DEF a
    <3> QED BY <1>1, <2>1, WrapOnce
  <2> QED BY <1>1, <1>3, <2>2
<1>5. RingTypeOK'
  BY <1>1, <1>2, <1>3, <1>4 DEF RingTypeOK, Slots, N
<1>6. N' = N
  BY DEF N
<1>7. count' = IF count < N THEN count + 1 ELSE N
  BY <1>1, <1>3
<1>8. ASSUME NEW i \in 0..count' - 1
      PROVE  Slot(i)' = IF head' - count' + i < 0 THEN head' + N - count' + i
                                                 ELSE head' - count' + i
  <2> DEFINE a == head' + N - count' + i
  <2>1. a \in 0..2 * N - 1
    BY <1>1, <1>4, <1>7
  <2>2. a % N = IF a < N THEN a ELSE a - N
    <3> HIDE DEF a
    <3> QED BY <1>1, <2>1, WrapOnce
  <2>3. Slot(i)' = a % N
    BY <1>6 DEF Slot
  <2> QED BY <1>1, <1>4, <1>7, <2>2, <2>3
<1>9. ASSUME NEW i \in 0..count' - 1, i = count' - 1
      PROVE  Nth(i)' = new
  <2>1. Slot(i)' = head
    BY <1>1, <1>4, <1>7, <1>8, <1>9
  <2>2. ring'[head] = new
    BY <1>1, <1>3
  <2> QED BY <2>1, <2>2 DEF Nth
<1>10. ASSUME NEW i \in 0..count' - 1, i # count' - 1
       PROVE  Nth(i)' = IF count < N THEN Nth(i) ELSE Nth(i + 1)
  <2> DEFINE j == IF count < N THEN i ELSE i + 1
  <2>1. j \in 0..count - 1
    BY <1>1, <1>7, <1>10
  <2>2. Slot(j) = IF head - count + j < 0 THEN head + N - count + j
                                          ELSE head - count + j
    <3> HIDE DEF j
    <3> QED BY <2>1, SlotRead
  <2>3. Slot(i)' = Slot(j) /\ Slot(j) # head /\ Slot(j) \in 0..N - 1
    <3>1. Slot(i)' = IF head' - count' + i < 0 THEN head' + N - count' + i
                                               ELSE head' - count' + i
      BY <1>8
    <3>2. CASE count < N
      BY <1>1, <1>4, <1>7, <1>10, <2>1, <2>2, <3>1, <3>2
    <3>3. CASE count = N
      BY <1>1, <1>4, <1>7, <1>10, <2>1, <2>2, <3>1, <3>3
    <3> QED BY <1>1, <3>2, <3>3
  <2>4. Nth(i)' = ring[Slot(j)]
    <3>1. ring'[Slot(j)] = ring[Slot(j)]
      BY <1>1, <1>3, <2>3
    <3> QED BY <2>3, <3>1 DEF Nth
  <2> QED BY <2>4 DEF Nth
<1> QED BY <1>5, <1>7, <1>9, <1>10 DEF new

\* Recording keeps the ring what it should be.
LEMMA RecordOK ==
    ASSUME RingOK, NEW mx \in Axis, NEW my \in Axis,
           NEW dt \in Durations, Record(mx, my, dt)
    PROVE  RingOK'
<1> DEFINE new == Input(next_seq, mx, my, dt)
<1>1. /\ RingTypeOK'
      /\ count' = IF count < N THEN count + 1 ELSE N
      /\ \A i \in 0..count' - 1 :
             Nth(i)' = IF i = count' - 1 THEN new
                       ELSE IF count < N THEN Nth(i) ELSE Nth(i + 1)
  BY RecordReads DEF RingOK
<1>2. /\ N \in Nat \ {0} /\ count \in 0..N /\ next_seq \in Nat \ {0}
      /\ next_seq' = next_seq + 1
      /\ N' = N
  BY SizeType, InputsAssumption DEF RingOK, RingTypeOK, Record, N
<1>3. /\ count = IF next_seq - 1 < N THEN next_seq - 1 ELSE N
      /\ \A i \in 0..count - 1 : Nth(i).seq = next_seq - count + i
  BY DEF RingOK, HoldsNewest
<1>4. new.seq = next_seq
  BY DEF Input
<1> HIDE DEF new
<1>5. count' = IF next_seq' - 1 < N' THEN next_seq' - 1 ELSE N'
  BY <1>1, <1>2, <1>3
<1>6. ASSUME NEW i \in 0..count' - 1
      PROVE  Nth(i)'.seq = next_seq' - count' + i
  <2>1. CASE i = count' - 1
    <3>1. Nth(i)' = new
      BY <1>1, <2>1
    <3> QED BY <1>1, <1>2, <1>4, <2>1, <3>1
  <2>2. CASE i # count' - 1 /\ count < N
    <3>1. Nth(i)' = Nth(i) /\ i \in 0..count - 1
      BY <1>1, <1>2, <2>2
    <3> QED BY <1>1, <1>2, <1>3, <2>2, <3>1
  <2>3. CASE i # count' - 1 /\ count = N
    <3>1. Nth(i)' = Nth(i + 1) /\ i + 1 \in 0..count - 1
      BY <1>1, <1>2, <2>3
    <3>2. Nth(i + 1).seq = next_seq - count + (i + 1)
      BY <1>3, <3>1
    <3> QED BY <1>1, <1>2, <2>3, <3>1, <3>2
  <2> QED BY <1>2, <2>1, <2>2, <2>3
<1> QED BY <1>1, <1>5, <1>6 DEF RingOK, HoldsNewest

\* An input step records one input, the direction pressed or a standstill.
LEMMA SendRecords ==
    ASSUME NEW d \in Directions, NEW dt \in Durations,
           SendInput(d[1], d[2], dt)
    PROVE  \E mx, my \in Axis : Record(mx, my, dt)
<1>1. d[1] \in Axis /\ d[2] \in Axis /\ 0 \in Axis
  BY InputsAssumption DEF Axis
<1>2. Record(d[1], d[2], dt) \/ Record(0, 0, dt)
  BY DEF SendInput
<1> QED BY <1>1, <1>2

\* Every step of the local player keeps the ring what it should be.
LEMMA StepKeepsRing == RingOK /\ [Next]_localVars => RingOK'
<1> SUFFICES ASSUME RingOK, [Next]_localVars PROVE RingOK'
  OBVIOUS
<1>1. CASE UNCHANGED ringVars
  BY <1>1 DEF ringVars, RingOK, RingTypeOK, HoldsNewest, Nth, Slot, N, Slots
<1>2. ASSUME NEW d \in Directions, NEW dt \in Durations,
             SendInput(d[1], d[2], dt)
      PROVE  RingOK'
  BY <1>2, SendRecords, RecordOK
<1>3. UNCHANGED ringVars
      \/ \E d \in Directions, dt \in Durations : SendInput(d[1], d[2], dt)
  BY DEF Next, DrainSnapshot, TogglePrediction, localVars
<1> QED BY <1>1, <1>2, <1>3

\* The ring of a client holds the newest inputs, in order, for any size of
\* the ring and however often it has wrapped.
THEOREM RingHoldsNewest == Spec => []HoldsNewest
<1>1. Init => RingOK
  BY PredictorInitOK DEF Init
<1>2. RingOK /\ [Next]_localVars => RingOK'
  BY StepKeepsRing
<1>3. RingOK => HoldsNewest
  BY DEF RingOK
<1> QED BY <1>1, <1>2, <1>3, PTL DEF Spec

-----------------------------------------------------------------------------
\* find_input_by_seq, which walks back from the newest slot, sees exactly the
\* inputs that reconcile, which walks forward from the oldest, would replay.
LEMMA FindWalksTheWindow == RingOK => FindsWhatIsHeld
<1> SUFFICES ASSUME RingOK, NEW seq \in 1..MaxInputs
             PROVE  find_input_by_seq(seq) =
                        {input \in ToSet(Chronological) : input.seq = seq}
  BY DEF FindsWhatIsHeld
<1> DEFINE visited == [i \in 0..count - 1 |-> ring[(head + N - 1 - i) % N]]
<1>1. /\ N \in Nat \ {0} /\ count \in 0..N /\ head \in 0..N - 1
  BY SizeType DEF RingOK, RingTypeOK, Slots
<1>2. ASSUME NEW i \in 0..count - 1
      PROVE  /\ count - 1 - i \in 0..count - 1
             /\ visited[i] = Nth(count - 1 - i)
  <2>1. count - 1 - i \in 0..count - 1
    BY <1>1
  <2>2. head + N - count + (count - 1 - i) = head + N - 1 - i
    BY <1>1
  <2>3. Nth(count - 1 - i) = ring[(head + N - 1 - i) % N]
    BY <2>2 DEF Nth, Slot
  <2> QED BY <2>1, <2>3
<1>3. /\ DOMAIN Chronological = 1..count
      /\ \A i \in 1..count : Chronological[i] = Nth(i - 1)
  BY DEF Chronological
<1>4. find_input_by_seq(seq) =
          {visited[i] : i \in {j \in 0..count - 1 : visited[j].seq = seq}}
  BY DEF find_input_by_seq
<1>5. ToSet(Chronological) = {Chronological[i] : i \in 1..count}
  BY <1>3 DEF ToSet
<1> HIDE DEF visited
<1>6. ASSUME NEW input \in find_input_by_seq(seq)
      PROVE  input \in ToSet(Chronological) /\ input.seq = seq
  <2>1. PICK i \in 0..count - 1 : input = visited[i] /\ visited[i].seq = seq
    BY <1>4
  <2>2. count - i \in 1..count /\ (count - i) - 1 = count - 1 - i
    BY <1>1
  <2>3. Chronological[count - i] = visited[i]
    BY <1>2, <1>3, <2>2
  <2> QED BY <1>5, <2>1, <2>2, <2>3
<1>7. ASSUME NEW input \in ToSet(Chronological), input.seq = seq
      PROVE  input \in find_input_by_seq(seq)
  <2>1. PICK i \in 1..count : input = Chronological[i]
    BY <1>5
  <2>2. count - i \in 0..count - 1 /\ count - 1 - (count - i) = i - 1
    BY <1>1
  <2>3. visited[count - i] = Chronological[i]
    BY <1>2, <1>3, <2>2
  <2> QED BY <1>4, <1>7, <2>1, <2>2, <2>3
<1> QED BY <1>6, <1>7

\* Looking an input up finds it exactly as long as it would be replayed.
THEOREM LookupFindsHeld == Spec => []FindsWhatIsHeld
<1>1. Init => RingOK
  BY PredictorInitOK DEF Init
<1>2. RingOK /\ [Next]_localVars => RingOK'
  BY StepKeepsRing
<1> QED BY <1>1, <1>2, FindWalksTheWindow, PTL DEF Spec

-----------------------------------------------------------------------------
\* Recording moves the window by one: the new input is appended, and a full
\* window loses its oldest.
LEMMA RecordMovesWindow ==
    ASSUME RingTypeOK, NEW mx \in Axis, NEW my \in Axis,
           NEW dt \in Durations, Record(mx, my, dt)
    PROVE  /\ Len(Chronological) = count
           /\ Chronological' =
                  IF count < N
                  THEN Append(Chronological, Input(next_seq, mx, my, dt))
                  ELSE Append(Tail(Chronological),
                              Input(next_seq, mx, my, dt))
<1> DEFINE new == Input(next_seq, mx, my, dt)
           moved == IF count < N THEN Append(Chronological, new)
                    ELSE Append(Tail(Chronological), new)
<1>1. /\ N \in Nat \ {0} /\ count \in 0..N /\ head \in 0..N - 1
      /\ ring \in [0..N - 1 -> PredictedInput \cup {Blank}]
      /\ next_seq \in 1..MaxInputs
  BY SizeType, InputsAssumption DEF RingTypeOK, Slots, Record
<1>2. /\ count' = IF count < N THEN count + 1 ELSE N
      /\ \A i \in 0..count' - 1 :
             Nth(i)' = IF i = count' - 1 THEN new
                       ELSE IF count < N THEN Nth(i) ELSE Nth(i + 1)
  BY RecordReads
<1>3. new \in PredictedInput
  BY <1>1 DEF Input, PredictedInput
<1>4. \A i \in 0..count - 1 : Nth(i) \in PredictedInput \cup {Blank}
  <2> TAKE i \in 0..count - 1
  <2>1. Slot(i) \in 0..N - 1
    BY <1>1, SlotRead
  <2> QED BY <1>1, <2>1 DEF Nth
<1>5. /\ Chronological \in Seq(PredictedInput \cup {Blank})
      /\ Len(Chronological) = count
      /\ \A i \in 1..count : Chronological[i] = Nth(i - 1)
  BY <1>1, <1>4 DEF Chronological
<1>6. Chronological' = [i \in 1..count' |-> Nth(i - 1)']
  BY DEF Chronological
<1> HIDE DEF new
<1>7. CASE count < N
  <2>1. /\ moved = Append(Chronological, new)
        /\ moved \in Seq(PredictedInput \cup {Blank})
        /\ Len(moved) = count + 1
    BY <1>3, <1>5, <1>7
  <2>2. \A i \in 1..count + 1 : moved[i] = Nth(i - 1)'
    BY <1>1, <1>2, <1>3, <1>5, <1>7
  <2>3. moved = [i \in 1..count + 1 |-> moved[i]]
    BY <1>1, <2>1
  <2> QED BY <1>2, <1>5, <1>6, <1>7, <2>2, <2>3 DEF new
<1>8. CASE count = N
  <2>1. /\ moved = Append(Tail(Chronological), new)
        /\ moved \in Seq(PredictedInput \cup {Blank})
        /\ Len(moved) = count
    BY <1>1, <1>3, <1>5, <1>8
  <2>2. \A i \in 1..count : moved[i] = Nth(i - 1)'
    BY <1>1, <1>2, <1>3, <1>5, <1>8
  <2>3. moved = [i \in 1..count |-> moved[i]]
    BY <1>1, <2>1
  <2> QED BY <1>2, <1>5, <1>6, <1>8, <2>2, <2>3 DEF new
<1> QED BY <1>1, <1>7, <1>8

\* InputHistory speaks of the same spawn point, inputs, moves and replays.
LEMMA SameKinematics ==
    /\ History!Spawn = Spawn
    /\ \A seq, mx, my, dt : History!Input(seq, mx, my, dt) = Input(seq, mx, my, dt)
    /\ \A p, mx, my, dt :
           History!apply_move(p, mx, my, dt) = apply_move(p, mx, my, dt)
<1>1. History!Spawn = Spawn
  BY DEF History!Spawn, Spawn
<1>2. \A seq, mx, my, dt : History!Input(seq, mx, my, dt) = Input(seq, mx, my, dt)
  BY DEF History!Input, Input
<1>3. \A p, mx, my, dt :
          History!apply_move(p, mx, my, dt) = apply_move(p, mx, my, dt)
  BY DEF History!apply_move, apply_move, History!Velocity, Velocity,
         History!clamp_to_arena, clamp_to_arena, History!clampf, clampf
<1> QED BY <1>1, <1>2, <1>3

\* The abstract history replays as the code does.
LEMMA SameReplay ==
    \A inputs, from, ack :
        History!Replay(inputs, from, ack) = Replay(inputs, from, ack)
BY DEF History!Replay, Replay, History!Positions, Positions,
       History!apply_move, apply_move,
       History!Velocity, Velocity, History!clamp_to_arena, clamp_to_arena,
       History!clampf, clampf

\* Recording is what InputHistory calls making an input.
LEMMA RecordMakes ==
    ASSUME RingTypeOK, NEW mx \in Axis, NEW my \in Axis,
           NEW dt \in Durations, Record(mx, my, dt), UNCHANGED authoritative
    PROVE  History!Make(mx, my, dt)
<1>1. /\ Len(Chronological) = count
      /\ Chronological' = IF count < N
             THEN Append(Chronological, Input(next_seq, mx, my, dt))
             ELSE Append(Tail(Chronological), Input(next_seq, mx, my, dt))
  BY RecordMovesWindow
<1>2. /\ next_seq' - 1 = (next_seq - 1) + 1
      /\ (next_seq - 1) + 1 = next_seq
  BY InputsAssumption DEF Record, RingTypeOK
<1> QED BY <1>1, <1>2, SameKinematics DEF History!Make, N

\* A client starts with an empty history.
LEMMA InitIsEmptyHistory == Init => History!Init
<1> SUFFICES ASSUME Init PROVE History!Init
  OBVIOUS
<1>1. count = 0 /\ next_seq = 1 /\ local_pos = Spawn /\ authoritative = {}
  BY DEF Init, PredictorInit
<1>2. Chronological = <<>>
  BY <1>1 DEF Chronological
<1> QED BY <1>1, <1>2, SameKinematics DEF History!Init

\* The authoritative state is a single one, or there is none yet.
OneAuthority ==
    authoritative = {} \/ \E state \in LocalState : authoritative = {state}

LocalInv == RingOK /\ OneAuthority

\* The predictor's invariant holds at first and after every step.
LEMMA LocalInvInductive ==
    /\ Init => LocalInv
    /\ LocalInv /\ [Next]_localVars => LocalInv'
<1>1. Init => LocalInv
  BY PredictorInitOK DEF Init, LocalInv, OneAuthority
<1>2. ASSUME LocalInv, [Next]_localVars PROVE LocalInv'
  <2>1. RingOK'
    BY <1>2, StepKeepsRing DEF LocalInv
  <2>2. OneAuthority'
    <3>1. \/ UNCHANGED authoritative
          \/ \E state \in LocalState : authoritative' = {state}
      BY <1>2 DEF Next, SendInput, DrainSnapshot, TogglePrediction, localVars
    <3> QED BY <1>2, <3>1 DEF LocalInv, OneAuthority, LocalState, Acks
  <2> QED BY <2>1, <2>2 DEF LocalInv
<1> QED BY <1>1, <1>2

\* A snapshot corrects the position as InputHistory says, or leaves it alone
\* when nothing was ever said of the local player.
LEMMA DrainCorrects ==
    ASSUME OneAuthority, NEW mine, DrainSnapshot(mine),
           mine = {} \/ \E state \in LocalState : mine = {state}
    PROVE  History!Correct \/ UNCHANGED History!vars
<1>1. UNCHANGED <<Chronological, next_seq>>
  BY DEF DrainSnapshot, ringVars, Chronological, Nth, Slot, N
<1>2. authoritative' = {} \/ \E state \in LocalState : authoritative' = {state}
  BY DEF DrainSnapshot, OneAuthority
<1>3. CASE authoritative' = {}
  <2>1. authoritative = {} /\ local_pos' = local_pos
    BY <1>3 DEF DrainSnapshot
  <2> QED BY <1>1, <1>3, <2>1 DEF History!vars
<1>4. ASSUME NEW state \in LocalState, authoritative' = {state}
      PROVE  History!Correct
  <2>1. local_pos' = IF prediction_enabled THEN reconcile(state) ELSE state.pos
    BY <1>4 DEF DrainSnapshot
  <2>2. local_pos' = Replay(Chronological, state.pos,
                            state.last_processed_input_seq)
        \/ local_pos' = state.pos
    BY <2>1 DEF reconcile
  <2> QED BY <1>1, <1>4, <2>2, SameReplay DEF History!Correct
<1> QED BY <1>2, <1>3, <1>4

\* Every step of the local player is a step of InputHistory, or none.
LEMMA StepIsHistoryStep ==
    LocalInv /\ [Next]_localVars => [History!Next]_(History!vars)
<1> SUFFICES ASSUME LocalInv, [Next]_localVars
             PROVE  History!Next \/ UNCHANGED History!vars
  OBVIOUS
<1>1. ASSUME NEW d \in Directions, NEW dt \in Durations,
             SendInput(d[1], d[2], dt)
      PROVE  History!Next
  <2>1. d[1] \in Axis /\ d[2] \in Axis /\ 0 \in Axis
    BY InputsAssumption DEF Axis
  <2>2. CASE prediction_enabled
    <3>1. /\ Record(d[1], d[2], dt) /\ UNCHANGED authoritative
          /\ local_pos' = apply_move(local_pos, d[1], d[2], dt)
      BY <1>1, <2>2 DEF SendInput
    <3>2. History!Make(d[1], d[2], dt)
      BY <2>1, <3>1, RecordMakes DEF LocalInv, RingOK
    <3> QED BY <3>1, <3>2, SameKinematics DEF History!Next, History!Show
  <2>3. CASE ~prediction_enabled
    <3>1. Record(0, 0, dt) /\ UNCHANGED <<authoritative, local_pos>>
      BY <1>1, <2>3 DEF SendInput
    <3>2. History!Make(0, 0, dt)
      BY <2>1, <3>1, RecordMakes DEF LocalInv, RingOK
    <3> QED BY <3>1, <3>2 DEF History!Next, History!Hide
  <2> QED BY <2>2, <2>3
<1>2. ASSUME NEW mine, DrainSnapshot(mine),
             mine = {} \/ \E state \in LocalState : mine = {state}
      PROVE  History!Next \/ UNCHANGED History!vars
  BY <1>2, DrainCorrects DEF LocalInv, History!Next
<1>3. CASE TogglePrediction \/ UNCHANGED localVars
  <2>1. UNCHANGED <<ringVars, local_pos, authoritative>>
    BY <1>3 DEF TogglePrediction, localVars
  <2> QED BY <2>1 DEF ringVars, History!vars, Chronological, Nth, Slot, N
<1> QED BY <1>1, <1>2, <1>3 DEF Next

\* The local player of a client implements the history of inputs: its ring
\* is the window, and its corrections replay it.
THEOREM PlayerRemembersInputs == Spec => RemembersInputs
<1>1. Init => History!Init
  BY InitIsEmptyHistory
<1>2. Init => LocalInv
  BY LocalInvInductive
<1>3. LocalInv /\ [Next]_localVars => LocalInv'
  BY LocalInvInductive
<1>4. LocalInv /\ [Next]_localVars => [History!Next]_(History!vars)
  BY StepIsHistoryStep
<1>5. Spec => History!Spec
  BY <1>1, <1>2, <1>3, <1>4, PTL DEF Spec, History!Spec
<1> QED BY <1>5 DEF RemembersInputs

-----------------------------------------------------------------------------
\* What is read from the ring are inputs, numbered without gaps.
LEMMA WindowNumbered ==
    ASSUME RingOK
    PROVE  /\ count \in Nat /\ count <= N
           /\ Len(Chronological) = count
           /\ \A i \in 1..count :
                  /\ Chronological[i] \in PredictedInput \cup {Blank}
                  /\ Chronological[i].seq = next_seq - 1 - count + i
<1>1. /\ N \in Nat \ {0} /\ count \in 0..N /\ next_seq \in Nat \ {0}
      /\ ring \in [0..N - 1 -> PredictedInput \cup {Blank}]
  BY SizeType, InputsAssumption DEF RingOK, RingTypeOK, Slots
<1>2. ASSUME NEW i \in 1..count
      PROVE  /\ Chronological[i] \in PredictedInput \cup {Blank}
             /\ Chronological[i].seq = next_seq - 1 - count + i
  <2>1. i - 1 \in 0..count - 1 /\ Chronological[i] = Nth(i - 1)
    BY <1>1 DEF Chronological
  <2>2. Slot(i - 1) \in 0..N - 1
    BY <1>1, <2>1, SlotRead DEF RingOK, RingTypeOK, Slots
  <2>3. Nth(i - 1) \in PredictedInput \cup {Blank}
    BY <1>1, <2>2 DEF Nth
  <2>4. Nth(i - 1).seq = next_seq - count + (i - 1)
    BY <2>1 DEF RingOK, HoldsNewest
  <2> QED BY <1>1, <2>1, <2>3, <2>4
<1>3. Len(Chronological) = count
  BY <1>1 DEF Chronological
<1> QED BY <1>1, <1>2, <1>3

\* A replay of the ring, input by input.
LEMMA ReplayOfRing ==
    ASSUME RingOK, NEW from \in Arena, NEW ack
    PROVE  LET pos == Positions(Chronological, from, ack)
           IN  /\ pos \in [0..count -> Arena]
               /\ pos[0] = from
               /\ \A i \in 1..count :
                      LET input == Chronological[i]
                      IN  pos[i] = IF input.seq > ack
                                   THEN apply_move(pos[i - 1], input.mx,
                                                   input.my, input.dt)
                                   ELSE pos[i - 1]
               /\ Replay(Chronological, from, ack) = pos[count]
<1>1. Len(Chronological) = count /\ count \in Nat
  BY WindowNumbered
<1>2. Replayable(Chronological)
  <2>1. ASSUME NEW i \in 1..count
        PROVE  /\ Chronological[i].mx \in Axis
               /\ Chronological[i].my \in Axis
               /\ Chronological[i].dt \in Nat
    <3>1. Chronological[i] \in PredictedInput \cup {Blank}
      BY WindowNumbered
    <3>2. CASE Chronological[i] \in PredictedInput
      BY <3>2, InputsAssumption DEF PredictedInput
    <3>3. CASE Chronological[i] = Blank
      <4>1. Blank.mx = 0 /\ Blank.my = 0 /\ Blank.dt = 0
        BY DEF Blank, Input
      <4> QED BY <3>3, <4>1 DEF Axis
    <3> QED BY <3>1, <3>2, <3>3
  <2> QED BY <1>1, <2>1 DEF Replayable
<1> QED BY <1>1, <1>2, PositionsOneByOne DEF Replay

LocalOK == RingOK /\ LocalTypeOK

\* So do the types of the local player and what its ring holds.
LEMMA LocalOKInductive ==
    /\ Init => LocalOK
    /\ LocalOK /\ [Next]_localVars => LocalOK'
<1>1. ASSUME Init PROVE LocalOK
  <2>1. RingOK
    BY <1>1, PredictorInitOK DEF Init
  <2>2. Spawn \in Arena
    BY KinematicsAssumption DEF Spawn, Arena
  <2> QED BY <1>1, <2>1, <2>2 DEF Init, LocalOK, LocalTypeOK, RingOK
<1>2. ASSUME LocalOK, [Next]_localVars PROVE LocalOK'
  <2>1. RingOK'
    BY <1>2, StepKeepsRing DEF LocalOK
  <2> SUFFICES /\ local_pos' \in Arena
               /\ prediction_enabled' \in BOOLEAN
               /\ authoritative' \subseteq LocalState
               /\ packet' \subseteq [seq : 1..MaxInputs, mx : Axis, my : Axis]
    BY <2>1 DEF LocalOK, LocalTypeOK, RingOK
  <2>2. /\ local_pos \in Arena
        /\ prediction_enabled \in BOOLEAN
        /\ authoritative \subseteq LocalState
        /\ packet \subseteq [seq : 1..MaxInputs, mx : Axis, my : Axis]
    BY <1>2 DEF LocalOK, LocalTypeOK
  <2>3. ASSUME NEW d \in Directions, NEW dt \in Durations,
               SendInput(d[1], d[2], dt)
        PROVE  /\ local_pos' \in Arena
               /\ packet' \subseteq [seq : 1..MaxInputs, mx : Axis, my : Axis]
               /\ UNCHANGED <<prediction_enabled, authoritative>>
    <3>1. d[1] \in Axis /\ d[2] \in Axis /\ dt \in Nat
      BY InputsAssumption
    <3>2. apply_move(local_pos, d[1], d[2], dt) \in Arena
      BY <2>2, <3>1, MoveEndsInArena
    <3>3. next_seq \in 1..MaxInputs
      BY <1>2, <2>3, InputsAssumption
         DEF LocalOK, RingOK, RingTypeOK, SendInput, Record
    <3> QED BY <2>2, <2>3, <3>1, <3>2, <3>3 DEF SendInput
  <2>4. ASSUME NEW mine, mine \subseteq LocalState, DrainSnapshot(mine)
        PROVE  /\ local_pos' \in Arena
               /\ authoritative' \subseteq LocalState
               /\ packet' = {} /\ UNCHANGED prediction_enabled
    <3>1. authoritative' \subseteq LocalState
      BY <2>2, <2>4 DEF DrainSnapshot
    <3>2. ASSUME NEW state \in authoritative'
          PROVE  state.pos \in Arena /\ reconcile(state) \in Arena
      <4>1. state.pos \in Arena
        BY <3>1 DEF LocalState
      <4>2. reconcile(state) \in Arena
        <5> DEFINE pos == Positions(Chronological, state.pos,
                                    state.last_processed_input_seq)
        <5>1. pos \in [0..count -> Arena] /\ reconcile(state) = pos[count]
          BY <1>2, <4>1, ReplayOfRing DEF LocalOK, reconcile
        <5>2. count \in 0..count
          BY <1>2, WindowNumbered DEF LocalOK
        <5> HIDE DEF pos
        <5> QED BY <5>1, <5>2
      <4> QED BY <4>1, <4>2
    <3> QED BY <2>2, <2>4, <3>1, <3>2 DEF DrainSnapshot
  <2>5. CASE TogglePrediction
    BY <2>2, <2>5 DEF TogglePrediction
  <2>6. CASE UNCHANGED localVars
    BY <2>2, <2>6 DEF localVars
  <2> QED BY <1>2, <2>2, <2>3, <2>4, <2>5, <2>6 DEF Next
<1> QED BY <1>1, <1>2

\* Every variable of the local player keeps its type: whatever a snapshot
\* says and however many inputs are replayed, the position shown stays in
\* the arena.
THEOREM LocalTypeCorrect == Spec => []LocalTypeOK
<1>1. LocalOK => LocalTypeOK
  BY DEF LocalOK
<1> QED BY <1>1, LocalOKInductive, PTL DEF Spec

-----------------------------------------------------------------------------
\* The path is what the inputs in the ring make of one of its positions: it
\* reaches the position shown, and goes from one input to the next by the
\* input recorded.
Belief ==
    /\ prediction_enabled
    /\ DOMAIN path \subseteq 0..next_seq - 1
    /\ next_seq - 1 \in DOMAIN path
    /\ path[next_seq - 1] = local_pos
    /\ \A i \in 1..count :
           LET input == Chronological[i]
           IN  input.seq - 1 \in DOMAIN path =>
                   /\ input.seq \in DOMAIN path
                   /\ path[input.seq] = apply_move(path[input.seq - 1],
                                            input.mx, input.my, input.dt)

PathOK == path = NoPath \/ Belief

\* A snapshot that agrees with the path is replayed along the path.
LEMMA ReplayFollowsPath ==
    ASSUME RingOK, Belief, NEW ack \in DOMAIN path, path[ack] \in Arena,
           next_seq - 1 - ack <= N
    PROVE  Replay(Chronological, path[ack], ack) = local_pos
<1> DEFINE pos == Positions(Chronological, path[ack], ack)
           first == next_seq - 1 - count
           Reached(i) == IF first + i > ack THEN first + i ELSE ack
           T == {i \in 0..count : Reached(i) \in DOMAIN path
                                  /\ pos[i] = path[Reached(i)]}
<1>1. /\ N \in Nat \ {0} /\ count \in Nat /\ next_seq \in Nat \ {0}
      /\ count = IF next_seq - 1 < N THEN next_seq - 1 ELSE N
      /\ ack \in 0..next_seq - 1
  BY SizeType, InputsAssumption
     DEF RingOK, RingTypeOK, HoldsNewest, Belief
<1>2. /\ pos[0] = path[ack]
      /\ \A i \in 1..count :
             LET input == Chronological[i]
             IN  pos[i] = IF input.seq > ack
                          THEN apply_move(pos[i - 1], input.mx, input.my,
                                          input.dt)
                          ELSE pos[i - 1]
      /\ Replay(Chronological, path[ack], ack) = pos[count]
  BY ReplayOfRing
<1>3. \A i \in 1..count : Chronological[i].seq = first + i
  BY WindowNumbered
<1> HIDE DEF pos
<1>4. 0 \in T
  <2>1. Reached(0) = ack
    BY <1>1
  <2> QED BY <1>1, <1>2, <2>1
<1>5. ASSUME NEW k \in 0..count - 1, k \in T PROVE k + 1 \in T
  <2>1. k + 1 \in 1..count /\ (k + 1) - 1 = k /\ k + 1 \in 0..count
    BY <1>1
  <2> DEFINE input == Chronological[k + 1]
  <2>2. input.seq = first + k + 1
    BY <1>1, <1>3, <2>1
  <2>3. pos[k + 1] = IF input.seq > ack
                     THEN apply_move(pos[k], input.mx, input.my, input.dt)
                     ELSE pos[k]
    BY <1>2, <2>1
  <2>4. CASE input.seq > ack
    <3>1. Reached(k + 1) = input.seq /\ Reached(k) = input.seq - 1
      <4>1. /\ k \in Nat /\ first \in Int /\ ack \in Int
            /\ first + k + 1 = first + (k + 1)
        BY <1>1
      <4> HIDE DEF T, input, first
      <4>2. input.seq = first + (k + 1) /\ first + (k + 1) > ack
        BY <2>2, <2>4, <4>1
      <4>3. Reached(k + 1) = input.seq
        BY <4>2
      <4>4. CASE first + k > ack
        BY <4>1, <4>2, <4>4
      <4>5. CASE ~(first + k > ack)
        BY <4>1, <4>2, <4>3, <4>5
      <4> QED BY <4>3, <4>4, <4>5
    <3>2. pos[k] = path[input.seq - 1] /\ input.seq - 1 \in DOMAIN path
      BY <1>5, <3>1
    <3>3. /\ input.seq \in DOMAIN path
          /\ path[input.seq] = apply_move(path[input.seq - 1], input.mx,
                                          input.my, input.dt)
      BY <2>1, <3>2 DEF Belief
    <3> QED BY <2>1, <2>3, <2>4, <3>1, <3>2, <3>3
  <2>5. CASE ~(input.seq > ack)
    <3>1. Reached(k + 1) = ack /\ Reached(k) = ack
      BY <1>1, <2>2, <2>5
    <3>2. pos[k] = path[ack]
      BY <1>5, <3>1
    <3> QED BY <2>1, <2>3, <2>5, <3>1, <3>2
  <2> QED BY <2>4, <2>5
<1>6. 0..count \subseteq T
  <2> HIDE DEF T
  <2> QED BY <1>1, <1>4, <1>5, UpTo
<1>7. Reached(count) = next_seq - 1
  <2> HIDE DEF T
  <2>1. first + count = next_seq - 1 /\ ack \in Int
    BY <1>1
  <2> HIDE DEF first
  <2>2. CASE first + count > ack
    BY <2>1, <2>2
  <2>3. CASE ~(first + count > ack)
    BY <1>1, <2>1, <2>3
  <2> QED BY <2>2, <2>3
<1>8. count \in T
  BY <1>1, <1>6
<1> QED BY <1>2, <1>7, <1>8 DEF Belief

\* An input that is shown extends the path.
LEMMA InputExtendsPath ==
    ASSUME RingOK, Belief, NEW d \in Directions, NEW dt \in Durations,
           SendInput(d[1], d[2], dt),
           path' = [seq \in DOMAIN path \cup {next_seq} |->
                       IF seq = next_seq THEN local_pos' ELSE path[seq]]
    PROVE  Belief'
<1> DEFINE new == Input(next_seq, d[1], d[2], dt)
<1>1. /\ prediction_enabled /\ prediction_enabled'
      /\ Record(d[1], d[2], dt)
      /\ local_pos' = apply_move(local_pos, d[1], d[2], dt)
  BY DEF Belief, SendInput
<1>2. /\ d[1] \in Axis /\ d[2] \in Axis
      /\ N \in Nat \ {0} /\ count \in Nat /\ count <= N
      /\ next_seq \in Nat \ {0} /\ next_seq' = next_seq + 1
  BY <1>1, SizeType, InputsAssumption DEF RingOK, RingTypeOK, Record
<1>3. /\ count' = IF count < N THEN count + 1 ELSE N
      /\ \A i \in 0..count' - 1 :
             Nth(i)' = IF i = count' - 1 THEN new
                       ELSE IF count < N THEN Nth(i) ELSE Nth(i + 1)
  BY <1>1, <1>2, RecordReads DEF RingOK
<1>4. /\ new.seq = next_seq /\ new.mx = d[1] /\ new.my = d[2] /\ new.dt = dt
  BY DEF Input
<1> HIDE DEF new
<1>5. DOMAIN path \subseteq 0..next_seq - 1 /\ next_seq \notin DOMAIN path
  BY <1>2 DEF Belief
<1>6. /\ DOMAIN path' = DOMAIN path \cup {next_seq}
      /\ path'[next_seq] = local_pos'
      /\ \A seq \in DOMAIN path : path'[seq] = path[seq]
  BY <1>5
<1>7. ASSUME NEW i \in 1..count', Chronological'[i].seq - 1 \in DOMAIN path'
      PROVE  LET input == Chronological'[i]
             IN  /\ input.seq \in DOMAIN path'
                 /\ path'[input.seq] = apply_move(path'[input.seq - 1],
                                           input.mx, input.my, input.dt)
  <2>1. Chronological'[i] = Nth(i - 1)'
    BY DEF Chronological
  <2>2. i - 1 \in 0..count' - 1
    BY <1>2, <1>3
  <2>3. CASE i = count'
    <3>1. Chronological'[i] = new
      BY <1>2, <1>3, <2>1, <2>2, <2>3
    <3>2. /\ next_seq - 1 \in DOMAIN path
          /\ path[next_seq - 1] = local_pos
      BY DEF Belief
    <3> QED BY <1>1, <1>4, <1>6, <3>1, <3>2
  <2>4. CASE i # count'
    <3>1. PICK j \in 1..count : Chronological'[i] = Chronological[j]
      <4>1. CASE count < N
        <5>1. i \in 1..count /\ Nth(i - 1)' = Nth(i - 1)
          BY <1>2, <1>3, <2>2, <2>4, <4>1
        <5>2. Chronological[i] = Nth(i - 1)
          BY <5>1 DEF Chronological
        <5> QED BY <2>1, <5>1, <5>2
      <4>2. CASE ~(count < N)
        <5>1. i + 1 \in 1..count /\ Nth(i - 1)' = Nth((i + 1) - 1)
          BY <1>2, <1>3, <2>2, <2>4, <4>2
        <5>2. Chronological[i + 1] = Nth((i + 1) - 1)
          BY <5>1 DEF Chronological
        <5> QED BY <2>1, <5>1, <5>2
      <4> QED BY <4>1, <4>2
    <3> DEFINE input == Chronological[j]
    <3>2. input.seq = next_seq - 1 - count + j
      BY WindowNumbered
    <3>3. input.seq - 1 # next_seq
      BY <1>2, <3>2
    <3> HIDE DEF input
    <3>4. input.seq - 1 \in DOMAIN path
      BY <1>6, <1>7, <3>1, <3>3 DEF input
    <3>5. /\ input.seq \in DOMAIN path
          /\ path[input.seq] = apply_move(path[input.seq - 1], input.mx,
                                          input.my, input.dt)
      BY <3>4 DEF Belief, input
    <3> QED BY <1>6, <3>1, <3>4, <3>5 DEF input
  <2> QED BY <2>3, <2>4
<1>8. /\ DOMAIN path' \subseteq 0..next_seq' - 1
      /\ next_seq' - 1 \in DOMAIN path'
      /\ path'[next_seq' - 1] = local_pos'
  BY <1>2, <1>5, <1>6
<1> QED BY <1>1, <1>7, <1>8 DEF Belief

\* Reconciling begins a new path.
LEMMA ReconcilingBelieves ==
    ASSUME RingOK, prediction_enabled', UNCHANGED ringVars,
           NEW state \in LocalState,
           state.last_processed_input_seq < next_seq,
           local_pos' = reconcile(state), path' = Believed(state)
    PROVE  Belief'
<1> DEFINE ack   == state.last_processed_input_seq
           after == Positions(Chronological, state.pos, ack)
           first == next_seq - 1 - count
<1>1. /\ N \in Nat \ {0} /\ count \in Nat /\ next_seq \in Nat \ {0}
      /\ count = IF next_seq - 1 < N THEN next_seq - 1 ELSE N
      /\ ack \in 0..next_seq - 1 /\ state.pos \in Arena
  BY SizeType, InputsAssumption
     DEF RingOK, RingTypeOK, HoldsNewest, LocalState, Acks
<1>2. /\ after \in [0..count -> Arena]
      /\ after[0] = state.pos
      /\ \A i \in 1..count :
             LET input == Chronological[i]
             IN  after[i] = IF input.seq > ack
                            THEN apply_move(after[i - 1], input.mx, input.my,
                                            input.dt)
                            ELSE after[i - 1]
      /\ local_pos' = after[count]
  BY <1>1, ReplayOfRing DEF reconcile
<1>3. \A i \in 1..count : Chronological[i].seq = first + i
  BY WindowNumbered
<1>4. {input.seq : input \in ToSet(Chronological)} = first + 1..next_seq - 1
  <2>1. ToSet(Chronological) = {Chronological[i] : i \in 1..count}
    BY DEF ToSet, Chronological
  <2>2. \A seq \in first + 1..next_seq - 1 :
            seq - first \in 1..count /\ first + (seq - first) = seq
    BY <1>1
  <2>3. \A i \in 1..count : first + i \in first + 1..next_seq - 1
    BY <1>1
  <2> QED BY <1>3, <2>1, <2>2, <2>3
<1>5. \A seq \in first + 1..next_seq - 1 : Place(seq) = seq - first
  <2> TAKE seq \in first + 1..next_seq - 1
  <2>1. seq - first \in 1..count /\ first + (seq - first) = seq
    BY <1>1
  <2>2. \A i \in 1..count : Chronological[i].seq = seq => i = seq - first
    BY <1>1, <1>3
  <2>3. Chronological[seq - first].seq = seq
    BY <1>3, <2>1
  <2> QED BY <2>1, <2>2, <2>3 DEF Place
<1> DEFINE later == (first + 1..next_seq - 1) \ 0..ack
<1>6. path' = [seq \in {ack} \cup later |->
                  IF seq = ack THEN state.pos ELSE after[Place(seq)]]
  BY <1>4 DEF Believed
<1> HIDE DEF after, ack, first
<1>7. /\ DOMAIN path' = {ack} \cup later
      /\ path'[ack] = state.pos
      /\ \A seq \in later : path'[seq] = after[seq - first]
  BY <1>1, <1>5, <1>6
<1>8. UNCHANGED <<count, next_seq, Chronological>>
  BY DEF ringVars, Chronological, Nth, Slot, N
\* Inputs acknowledged are passed over.
<1>9. \A i \in 0..count : first + i <= ack => after[i] = state.pos
  <2> DEFINE T == {i \in 0..count : first + i <= ack => after[i] = state.pos}
  <2>1. 0 \in T
    BY <1>1, <1>2
  <2>2. ASSUME NEW k \in 0..count - 1, k \in T PROVE k + 1 \in T
    <3>1. k + 1 \in 1..count /\ (k + 1) - 1 = k /\ k + 1 \in 0..count
      BY <1>1
    <3>2. CASE first + (k + 1) <= ack
      <4>1. ~(Chronological[k + 1].seq > ack) /\ first + k <= ack
        BY <1>1, <1>3, <3>1, <3>2 DEF first
      <4> QED BY <1>2, <2>2, <3>1, <4>1
    <3> QED BY <3>1, <3>2
  <2>3. 0..count \subseteq T
    <3> HIDE DEF T
    <3> QED BY <1>1, <2>1, <2>2, UpTo
  <2> QED BY <2>3
<1>10. ASSUME NEW i \in 1..count, Chronological[i].seq - 1 \in DOMAIN path'
       PROVE  LET input == Chronological[i]
              IN  /\ input.seq \in DOMAIN path'
                  /\ path'[input.seq] = apply_move(path'[input.seq - 1],
                                            input.mx, input.my, input.dt)
  <2> DEFINE input == Chronological[i]
  <2>1. input.seq = first + i
    BY <1>3
  <2>2. /\ first + i \in later /\ first + i > ack
        /\ \/ first + i - 1 = ack
           \/ first + i - 1 \in later /\ first + i - 1 # ack
    BY <1>1, <1>7, <1>10, <2>1 DEF first
  <2>3. path'[first + i] = after[i]
    BY <1>1, <1>7, <2>2 DEF first
  <2>4. path'[first + i - 1] = after[i - 1]
    <3>1. CASE first + i - 1 = ack
      <4>1. i - 1 \in 0..count /\ first + (i - 1) <= ack
        BY <1>1, <3>1 DEF first
      <4> QED BY <1>7, <1>9, <3>1, <4>1
    <3>2. CASE first + i - 1 \in later
      <4>1. (first + i - 1) - first = i - 1
        BY <1>1 DEF first
      <4> QED BY <1>7, <3>2, <4>1
    <3> QED BY <2>2, <3>1, <3>2
  <2>5. after[i] = apply_move(after[i - 1], input.mx, input.my, input.dt)
    BY <1>2, <2>1, <2>2
  <2>6. input.seq - 1 = first + i - 1
    BY <1>1, <2>1 DEF first
  <2> QED BY <1>7, <2>1, <2>2, <2>3, <2>4, <2>5, <2>6
<1>11. next_seq - 1 \in DOMAIN path' /\ path'[next_seq - 1] = local_pos'
  <2>1. CASE ack = next_seq - 1
    <3>1. count \in 0..count /\ first + count <= ack
      BY <1>1, <2>1 DEF first
    <3> QED BY <1>2, <1>7, <1>9, <2>1, <3>1
  <2>2. CASE ack # next_seq - 1
    <3>1. next_seq - 1 \in later /\ (next_seq - 1) - first = count
      BY <1>1, <2>2 DEF first
    <3> QED BY <1>2, <1>7, <3>1
  <2> QED BY <2>1, <2>2
<1>12. DOMAIN path' \subseteq 0..next_seq - 1
  BY <1>1, <1>7 DEF first
<1> QED BY <1>8, <1>10, <1>11, <1>12 DEF Belief

PathInv == LocalOK /\ OneAuthority /\ PathOK

\* Every step extends the path, begins a new one, or gives it up.
LEMMA PathNextOK == PathInv /\ [PathNext]_pathVars => PathOK'
<1> SUFFICES ASSUME PathInv, [PathNext]_pathVars PROVE PathOK'
  OBVIOUS
<1>1. /\ RingOK /\ OneAuthority /\ PathOK
      /\ authoritative \subseteq LocalState
  BY DEF PathInv, LocalOK, LocalTypeOK
<1>2. CASE UNCHANGED pathVars
  <2>1. /\ UNCHANGED <<path, prediction_enabled, next_seq, local_pos, count>>
        /\ UNCHANGED Chronological
    BY <1>2 DEF pathVars, localVars, ringVars, Chronological, Nth, Slot, N
  <2> QED BY <1>1, <2>1 DEF PathOK, Belief, NoPath
<1>3. ASSUME PathNext, NEW d \in Directions, NEW dt \in Durations,
             SendInput(d[1], d[2], dt)
      PROVE  PathOK'
  <2>1. /\ packet' # {} /\ path' = PathAfter
        /\ prediction_enabled' = prediction_enabled
    BY <1>3 DEF PathNext, SendInput
  <2>2. CASE path = NoPath
    BY <2>1, <2>2 DEF PathAfter, PathOK, NoPath
  <2>3. CASE path # NoPath
    <3>1. Belief
      BY <1>1, <2>3 DEF PathOK
    <3>2. path' = [seq \in DOMAIN path \cup {next_seq} |->
                      IF seq = next_seq THEN local_pos' ELSE path[seq]]
      BY <2>1, <2>3 DEF PathAfter
    <3> QED BY <1>1, <1>3, <3>1, <3>2, InputExtendsPath DEF PathOK
  <2> QED BY <2>2, <2>3
<1>4. ASSUME PathNext, NEW mine,
             mine = {} \/ \E state \in LocalState : mine = {state},
             DrainSnapshot(mine)
      PROVE  PathOK'
  <2> DEFINE held == {state \in authoritative' :
                         prediction_enabled
                         /\ state.last_processed_input_seq < next_seq}
  <2>1. /\ packet' = {} /\ UNCHANGED <<ringVars, prediction_enabled>>
        /\ authoritative' = IF mine = {} THEN authoritative ELSE mine
        /\ local_pos' \in IF authoritative' = {} THEN {local_pos}
                          ELSE {IF prediction_enabled THEN reconcile(state)
                                ELSE state.pos : state \in authoritative'}
    BY <1>4 DEF DrainSnapshot
  <2>2. path' = IF held = {} THEN NoPath
                ELSE Believed(CHOOSE state \in held : TRUE)
    BY <1>4, <2>1 DEF PathNext, PathAfter
  <2>3. CASE held = {}
    BY <2>2, <2>3 DEF PathOK, NoPath
  <2>4. CASE held # {}
    <3>1. PICK state \in LocalState : authoritative' = {state}
      BY <1>1, <1>4, <2>1, <2>4 DEF OneAuthority
    <3>2. /\ held = {state} /\ prediction_enabled
          /\ state.last_processed_input_seq < next_seq
      BY <2>4, <3>1
    <3>3. path' = Believed(state) /\ local_pos' = reconcile(state)
      BY <2>1, <2>2, <3>1, <3>2
    <3> QED BY <1>1, <2>1, <3>2, <3>3, ReconcilingBelieves DEF PathOK
  <2> QED BY <2>3, <2>4
<1>5. ASSUME PathNext, TogglePrediction PROVE PathOK'
  <2>1. packet' = {} /\ prediction_enabled' = ~prediction_enabled
    BY <1>5 DEF TogglePrediction
  <2>2. prediction_enabled \in BOOLEAN
    BY DEF PathInv, LocalOK, LocalTypeOK
  <2>3. prediction_enabled' # prediction_enabled
    BY <2>1, <2>2, Zenon
  <2>4. path' = NoPath
    BY <1>5, <2>1, <2>3 DEF PathNext, PathAfter
  <2> QED BY <2>4 DEF PathOK, NoPath
<1> QED BY <1>2, <1>3, <1>4, <1>5 DEF PathNext, Next

\* The invariant of the path.
LEMMA PathInvariant == PathSpec => []PathInv
<1>1. PathInit => PathInv
  BY LocalOKInductive, LocalInvInductive
     DEF PathInit, PathInv, PathOK, LocalInv
<1>2. PathInv /\ [PathNext]_pathVars => PathInv'
  <2>1. [PathNext]_pathVars => [Next]_localVars
    BY DEF PathNext, pathVars
  <2>2. PathInv => LocalInv
    BY DEF PathInv, LocalOK, LocalInv
  <2>3. LocalInv' => OneAuthority'
    BY DEF LocalInv
  <2> QED BY <2>1, <2>2, <2>3, PathNextOK, LocalOKInductive,
             LocalInvInductive DEF PathInv
<1> QED BY <1>1, <1>2, PTL DEF PathSpec

\* A snapshot that confirms what the client predicted moves nobody: for a
\* ring of any size, however many inputs are on their way and however late
\* the snapshot comes, as long as those inputs are still in the ring.
THEOREM ConfirmedStays == PathSpec => ConfirmedPredictionStays
<1> DEFINE Stays == \A state \in authoritative' :
               LET ack == state.last_processed_input_seq
               IN  (/\ next_seq' = next_seq
                    /\ ack \in DOMAIN path /\ state.pos = path[ack]
                    /\ next_seq - 1 - ack <= N)
                   => local_pos' = local_pos
<1>1. ASSUME PathInv, PathNext PROVE Stays
  <2> SUFFICES ASSUME NEW state \in authoritative',
                      next_seq' = next_seq,
                      state.last_processed_input_seq \in DOMAIN path,
                      state.pos = path[state.last_processed_input_seq],
                      next_seq - 1 - state.last_processed_input_seq <= N
               PROVE  local_pos' = local_pos
    OBVIOUS
  <2> DEFINE ack == state.last_processed_input_seq
  <2>1. /\ RingOK /\ OneAuthority /\ PathOK /\ LocalTypeOK
    BY <1>1 DEF PathInv, LocalOK
  <2>2. Belief
    BY <2>1 DEF PathOK, NoPath
  <2>3. ASSUME NEW mine,
               mine = {} \/ \E s \in LocalState : mine = {s},
               DrainSnapshot(mine)
        PROVE  local_pos' = local_pos
    <3>1. PICK s \in LocalState : authoritative' = {s}
      BY <2>1, <2>3 DEF DrainSnapshot, OneAuthority
    <3>2. state \in LocalState /\ authoritative' = {state}
      BY <3>1
    <3>3. local_pos' = reconcile(state)
      BY <2>2, <2>3, <3>2 DEF DrainSnapshot, Belief
    <3>4. path[ack] \in Arena
      BY <3>2 DEF LocalState
    <3>5. Replay(Chronological, path[ack], ack) = local_pos
      BY <2>1, <2>2, <3>4, ReplayFollowsPath
    <3> QED BY <3>3, <3>5 DEF reconcile
  <2>4. CASE TogglePrediction
    BY <2>4 DEF TogglePrediction
  <2>5. ASSUME NEW d \in Directions, NEW dt \in Durations,
               SendInput(d[1], d[2], dt)
        PROVE  FALSE
    <3>1. next_seq' = next_seq + 1 /\ next_seq \in Nat
      BY <2>1, <2>5, InputsAssumption
         DEF SendInput, Record, RingOK, RingTypeOK
    <3> QED BY <3>1
  <2> QED BY <1>1, <2>3, <2>4, <2>5 DEF PathNext, Next
<1>2. ASSUME PathInv, UNCHANGED pathVars PROVE [Stays]_pathVars
  BY <1>2
<1>3. PathInv /\ [PathNext]_pathVars => [Stays]_pathVars
  BY <1>1, <1>2
<1>4. PathSpec => [][Stays]_pathVars
  BY <1>3, PathInvariant, PTL DEF PathSpec
<1> QED BY <1>4 DEF ConfirmedPredictionStays
=============================================================================
