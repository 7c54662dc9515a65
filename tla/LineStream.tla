----------------------------- MODULE LineStream -----------------------------
(***************************************************************************)
(* Lines of text over a TCP stream, as both ends of the baseline mode read *)
(* them: bytes are appended to a buffer, and whatever ends in a newline is *)
(* cut off and handled.  TCP keeps the bytes in order but not the writes   *)
(* together: a read may end anywhere.  A line is two pieces here, its      *)
(* beginning and its end with the newline.                                 *)
(***************************************************************************)
EXTENDS Integers, SequencesExt

Piece(line, part) == [line |-> line, part |-> part]

Pieces(line) == <<Piece(line, "begin"), Piece(line, "end")>>

\* The positions of the newlines in a buffer.
Newlines(buffer) == {i \in DOMAIN buffer : buffer[i].part = "end"}

\* The position of the k-th newline.
NthNewline(buffer, k) ==
    CHOOSE i \in Newlines(buffer) :
        Cardinality({j \in Newlines(buffer) : j <= i}) = k

\* What the loops that look for a newline cut off, in order.
Lines(buffer) ==
    [k \in 1..Cardinality(Newlines(buffer)) |->
        buffer[NthNewline(buffer, k)].line]

\* What they leave in the buffer.
Rest(buffer) ==
    SubSeq(buffer, Max(Newlines(buffer) \cup {0}) + 1, Len(buffer))

\* The buffer after its first line.
AfterFirst(buffer) ==
    SubSeq(buffer, Min(Newlines(buffer)) + 1, Len(buffer))

\* A buffer followed by what is on its way is a sequence of whole lines.
Framed(pieces) ==
    /\ Len(pieces) % 2 = 0
    /\ \A i \in 1..Len(pieces) \div 2 :
           /\ pieces[2 * i - 1].part = "begin"
           /\ pieces[2 * i] = Piece(pieces[2 * i - 1].line, "end")
=============================================================================
