--------------------------- MODULE SeatAllocation ---------------------------
(***************************************************************************)
(* What the session table of the server promises: a newcomer takes the     *)
(* lowest free seat, a seat has one occupant, an endpoint one seat, and    *)
(* several occupants may leave at once (when several time out in a tick).  *)
(***************************************************************************)
EXTENDS Integers

CONSTANTS
    Endpoints,  \* those who may sit
    Seats       \* number of seats

VARIABLE seats  \* seats[id] is the set of occupants of the seat id

Init == seats = [id \in 1..Seats |-> {}]

Seated == UNION {seats[id] : id \in 1..Seats}

Take(e) ==
    /\ e \notin Seated
    /\ \E id \in 1..Seats :
           /\ seats[id] = {}
           /\ \A lower \in 1..(id - 1) : seats[lower] # {}
           /\ seats' = [seats EXCEPT ![id] = {e}]

Leave(who) == seats' = [id \in 1..Seats |-> seats[id] \ who]

Next ==
    \/ \E e \in Endpoints : Take(e)
    \/ \E who \in SUBSET Endpoints : Leave(who)

Spec == Init /\ [][Next]_seats
=============================================================================
