------------------------------ MODULE Channel ------------------------------
(***************************************************************************)
(* What one direction of the conditioner socket promises: the fate of a    *)
(* datagram is decided once, when it is submitted; a datagram that is not  *)
(* lost then is carried until it is handed over, once.  Datagrams are      *)
(* numbered in the order they are submitted.                               *)
(***************************************************************************)
EXTENDS Integers

VARIABLES
    submitted,  \* how many datagrams have been submitted
    carried,    \* those submitted and not yet handed over
    out         \* those handed over

vars == <<submitted, carried, out>>

Init ==
    /\ submitted = 0
    /\ carried = {}
    /\ out = {}

\* The next datagram is lost, carried, or handed over at once.
Submit ==
    /\ submitted' = submitted + 1
    /\ \/ UNCHANGED <<carried, out>>
       \/ carried' = carried \cup {submitted'} /\ UNCHANGED out
       \/ out' = out \cup {submitted'} /\ UNCHANGED carried

\* Some of the datagrams carried are handed over.
HandOver(some) ==
    /\ carried' = carried \ some
    /\ out' = out \cup some
    /\ UNCHANGED submitted

Next == Submit \/ \E some \in SUBSET carried : HandOver(some)

Spec == Init /\ [][Next]_vars
=============================================================================
