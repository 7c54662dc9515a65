----------------------------- MODULE Predictor -----------------------------
(***************************************************************************)
(* The ring buffer of recorded inputs (client/prediction.cpp).  The local  *)
(* position, which record_and_step and reconcile update through a          *)
(* reference, belongs to the caller.                                       *)
(***************************************************************************)
EXTENDS Inputs, SequencesExt

CONSTANT INPUT_HISTORY_SIZE     \* common/constants.hpp:29

ASSUME RingAssumption == INPUT_HISTORY_SIZE \in Nat \ {0}

VARIABLES
    ring,       \* ring_
    head,       \* head_: the next slot to write
    count,      \* count_: how many slots hold an input
    next_seq    \* next_seq_

ringVars == <<ring, head, count, next_seq>>

N == INPUT_HISTORY_SIZE

Slots == 0..N - 1

\* A slot of ring_ before anything is recorded in it.
Blank == Input(0, 0, 0, 0)

PredictorInit ==
    /\ ring = [slot \in Slots |-> Blank]
    /\ head = 0
    /\ count = 0
    /\ next_seq = 1

-----------------------------------------------------------------------------
Grown == IF count < N THEN count + 1 ELSE count

\* The part of record_and_step that concerns the ring.
Record(mx, my, dt) ==
    /\ next_seq <= MaxInputs
    /\ next_seq' = next_seq + 1
    /\ ring' = [ring EXCEPT ![head] = Input(next_seq, mx, my, dt)]
    /\ head' = (head + 1) % N
    /\ count' = Grown

\* Mutant of Slot: the ring is taken to be full.
SlotOfFull(i) == (head + i) % N

\* The slot at distance i from the oldest one, i in 0..count - 1.
Slot(i) == (head + N - count + i) % N

Nth(i) == ring[Slot(i)]

\* The inputs in the order in which reconcile visits them.
Chronological == [i \in 1..count |-> Nth(i - 1)]

\* Mutant of find_input_by_seq: the oldest input is not looked at.
find_input_by_seq_but_oldest(seq) ==
    LET visited == [i \in 0..count - 2 |-> ring[(head + N - 1 - i) % N]]
    IN  {visited[i] : i \in {j \in DOMAIN visited : visited[j].seq = seq}}

\* The input found, newest first: an empty set for nullopt.
find_input_by_seq(seq) ==
    LET visited == [i \in 0..count - 1 |-> ring[(head + N - 1 - i) % N]]
    IN  {visited[i] : i \in {j \in DOMAIN visited : visited[j].seq = seq}}

-----------------------------------------------------------------------------
RingTypeOK ==
    /\ ring \in [Slots -> PredictedInput \cup {Blank}]
    /\ head \in Slots
    /\ count \in 0..N
    /\ next_seq \in 1..MaxInputs + 1

\* The ring holds the newest inputs, all of them up to its size, and reading
\* it from the oldest visits them in order: nothing is visited twice, no slot
\* that was never written is visited, and wrapping loses only the oldest.
HoldsNewest ==
    /\ count = IF next_seq - 1 < N THEN next_seq - 1 ELSE N
    /\ \A i \in 0..count - 1 : Nth(i).seq = next_seq - count + i

\* find_input_by_seq finds an input exactly as long as reconcile would
\* replay it, and finds that input.
FindsWhatIsHeld ==
    \A seq \in 1..MaxInputs :
        find_input_by_seq(seq) =
            {input \in ToSet(Chronological) : input.seq = seq}
=============================================================================
