--------------------------- MODULE BaselineProofs ---------------------------
(***************************************************************************)
(* The baseline mode, for any number of connections and seats, any arena,  *)
(* and streams that arrive in any portions: lines stay whole, the world    *)
(* has the players of the clients and no others, and nobody is given the   *)
(* acknowledgements of another.                                            *)
(***************************************************************************)
EXTENDS TcpBaseline, WorldProofs, SequenceTheorems, FiniteSetTheorems

PiecesOf(S) == [line : S, part : {"begin", "end"}]

\* The lines that the pieces of a stream belong to.
LinesIn(pieces) == {pieces[i].line : i \in 1..Len(pieces)}

\* The two fields of a piece of a line.
LEMMA PartsOfPiece ==
    ASSUME NEW line, NEW part
    PROVE  Piece(line, part).line = line /\ Piece(line, part).part = part
BY DEF Piece

\* Whole lines, without the division.
Whole(pieces, k) ==
    /\ Len(pieces) = 2 * k
    /\ \A i \in 1..k :
           /\ pieces[2 * i - 1].part = "begin"
           /\ pieces[2 * i] = Piece(pieces[2 * i - 1].line, "end")

\* A number is even or odd.
LEMMA Halves ==
    ASSUME NEW n \in Nat
    PROVE  \E k \in Nat :
               /\ n = 2 * k \/ n = 2 * k + 1
               /\ n \div 2 = k
               /\ n % 2 = 0 <=> n = 2 * k
<1>1. n \div 2 \in Nat /\ n % 2 \in {0, 1}
  BY Z3
<1>2. n = 2 * (n \div 2) + (n % 2)
  BY Z3
<1> DEFINE k == n \div 2
           r == n % 2
<1> HIDE DEF k, r
<1>3. k \in Nat /\ r \in {0, 1} /\ n = 2 * k + r
  BY <1>1, <1>2 DEF k, r
<1>4. (n = 2 * k \/ n = 2 * k + 1) /\ (r = 0 <=> n = 2 * k)
  BY <1>3
<1> QED BY <1>3, <1>4 DEF k, r

\* A framed stream is a number of whole lines.
LEMMA FramedIsWhole ==
    ASSUME NEW S, NEW pieces \in Seq(S)
    PROVE  Framed(pieces) <=> \E k \in Nat : Whole(pieces, k)
<1>1. PICK k \in Nat :
          /\ Len(pieces) = 2 * k \/ Len(pieces) = 2 * k + 1
          /\ Len(pieces) \div 2 = k
          /\ Len(pieces) % 2 = 0 <=> Len(pieces) = 2 * k
  BY Halves
<1>2. ASSUME Framed(pieces) PROVE Whole(pieces, k)
  BY <1>1, <1>2 DEF Framed, Whole
<1>3. ASSUME NEW j \in Nat, Whole(pieces, j) PROVE Framed(pieces)
  <2>1. j = k
    BY <1>1, <1>3 DEF Whole
  <2> QED BY <1>1, <1>3, <2>1 DEF Framed, Whole
<1> QED BY <1>2, <1>3

\* As many even numbers up to 2 * m as numbers up to m.
LEMMA EvenNumbers ==
    ASSUME NEW m \in Nat
    PROVE  /\ IsFiniteSet({2 * i : i \in 1..m})
           /\ Cardinality({2 * i : i \in 1..m}) = m
<1> DEFINE T == {2 * i : i \in 1..m}
           f == [i \in 1..m |-> 2 * i]
<1>1. f \in Bijection(1..m, T)
  <2>1. f \in [1..m -> T]
    OBVIOUS
  <2>2. \A i, j \in 1..m : f[i] = f[j] => i = j
    OBVIOUS
  <2>3. \A t \in T : \E i \in 1..m : f[i] = t
    OBVIOUS
  <2> QED BY <2>1, <2>2, <2>3 DEF Bijection, Injection, Surjection, IsInjective
<1>2. ExistsBijection(1..m, T)
  BY <1>1 DEF ExistsBijection
<1>3. IsFiniteSet(1..m)
  BY FS_Interval
<1> QED BY <1>2, <1>3, FS_CountingElements, FS_Bijection

\* What is in a buffer and what follows it; what a read of n pieces makes of
\* the two.
Stream(rx, s) == rx \o s

Buffer(rx, s, n) == rx \o SubSeq(s, 1, n)

Unread(s, n) == SubSeq(s, n + 1, Len(s))

\* A stream, piece by piece.
LEMMA StreamIs ==
    ASSUME NEW S, NEW rx \in Seq(S), NEW s \in Seq(S)
    PROVE  /\ Stream(rx, s) \in Seq(S)
           /\ Len(Stream(rx, s)) = Len(rx) + Len(s)
           /\ Len(rx) \in Nat /\ Len(s) \in Nat
           /\ \A i \in 1..Len(rx) + Len(s) :
                  Stream(rx, s)[i] = IF i <= Len(rx) THEN rx[i]
                                     ELSE s[i - Len(rx)]
BY ConcatProperties DEF Stream

\* A stream begins with what has been read of it.
LEMMA StreamBegins ==
    ASSUME NEW S, NEW b \in Seq(PiecesOf(S)), NEW r \in Seq(PiecesOf(S))
    PROVE  /\ Stream(b, r) \in Seq(PiecesOf(S))
           /\ Len(Stream(b, r)) = Len(b) + Len(r)
           /\ \A i \in 1..Len(b) : Stream(b, r)[i] = b[i]
           /\ Len(b) \in Nat /\ Len(r) \in Nat
<1> DEFINE s == Stream(b, r)
           T == PiecesOf(S)
<1> HIDE DEF T
<1>1. /\ s \in Seq(T) /\ Len(s) = Len(b) + Len(r)
      /\ Len(b) \in Nat /\ Len(r) \in Nat
      /\ \A i \in 1..Len(b) + Len(r) :
             s[i] = IF i <= Len(b) THEN b[i] ELSE r[i - Len(b)]
  <2>1. b \in Seq(T) /\ r \in Seq(T)
    BY DEF T
  <2> QED BY <2>1, StreamIs
<1> HIDE DEF s
<1>2. \A i \in 1..Len(b) : s[i] = b[i]
  BY <1>1
<1> QED BY <1>1, <1>2 DEF s, T

\* A sequence cut in two is both parts, one behind the other.
LEMMA CutInTwo ==
    ASSUME NEW S, NEW s \in Seq(S), NEW n \in 0..Len(s)
    PROVE  LET a == SubSeq(s, 1, n)
               b == SubSeq(s, n + 1, Len(s))
           IN  /\ a \in Seq(S) /\ b \in Seq(S)
               /\ Len(a) = n /\ Len(b) = Len(s) - n
               /\ \A i \in 1..n : a[i] = s[i]
               /\ \A i \in 1..Len(s) - n : b[i] = s[i + n]
               /\ a \o b = s
<1> DEFINE a == SubSeq(s, 1, n)
           b == SubSeq(s, n + 1, Len(s))
<1>1. /\ a \in Seq(S) /\ Len(a) = n
      /\ \A i \in 1..n : a[i] = s[i]
  OBVIOUS
<1>2. /\ b \in Seq(S) /\ Len(b) = Len(s) - n
      /\ \A i \in 1..Len(s) - n : b[i] = s[i + n]
  OBVIOUS
<1> HIDE DEF a, b
<1>3. /\ a \o b \in Seq(S) /\ Len(a \o b) = Len(s)
      /\ \A i \in 1..Len(s) :
             (a \o b)[i] = IF i <= n THEN a[i] ELSE b[i - n]
  BY <1>1, <1>2, ConcatProperties
<1>4. \A i \in 1..Len(s) : (a \o b)[i] = s[i]
  BY <1>1, <1>2, <1>3
<1>5. a \o b = s
  BY <1>3, <1>4, SeqEqual
<1> QED BY <1>1, <1>2, <1>5 DEF a, b

\* A read takes the first pieces on their way to the end of the buffer.
LEMMA ReadMoves ==
    ASSUME NEW S, NEW rx \in Seq(S), NEW s \in Seq(S), NEW n \in 0..Len(s)
    PROVE  /\ Buffer(rx, s, n) \in Seq(S)
           /\ Unread(s, n) \in Seq(S)
           /\ Stream(Buffer(rx, s, n), Unread(s, n)) = Stream(rx, s)
<1> DEFINE a == SubSeq(s, 1, n)
           r == SubSeq(s, n + 1, Len(s))
<1>1. a \in Seq(S) /\ r \in Seq(S)
  BY CutInTwo
<1>2. a \o r = s
  BY CutInTwo
<1> HIDE DEF a, r
<1>3. (rx \o a) \o r = rx \o (a \o r)
  BY <1>1, ConcatAssociative
<1>4. rx \o a \in Seq(S)
  BY <1>1, ConcatProperties
<1>5. rx \o (a \o r) = rx \o s
  BY <1>2, Zenon
<1> QED BY <1>1, <1>3, <1>4, <1>5 DEF a, r, Stream, Buffer, Unread

\* In a buffer that what is on its way completes to whole lines, every second
\* piece has a newline.
LEMMA NewlinesOfWhole ==
    ASSUME NEW S, NEW b \in Seq(PiecesOf(S)), NEW r \in Seq(PiecesOf(S)),
           Framed(Stream(b, r))
    PROVE  \E h \in Nat : /\ Len(b) = 2 * h \/ Len(b) = 2 * h + 1
                          /\ Newlines(b) = {2 * i : i \in 1..h}
<1>1. /\ Stream(b, r) \in Seq(PiecesOf(S))
      /\ Len(Stream(b, r)) = Len(b) + Len(r)
      /\ \A i \in 1..Len(b) : Stream(b, r)[i] = b[i]
      /\ Len(b) \in Nat /\ Len(r) \in Nat
  BY StreamBegins
<1>2. PICK k \in Nat : Whole(Stream(b, r), k)
  BY <1>1, FramedIsWhole
<1>3. PICK h \in Nat : Len(b) = 2 * h \/ Len(b) = 2 * h + 1
  BY <1>1, Halves
<1> DEFINE s == Stream(b, r)
<1> HIDE DEF s
<1>4. h <= k /\ Len(s) = 2 * k
  <2>1. Len(s) = 2 * k
    BY <1>2 DEF Whole, s
  <2>2. Len(b) <= Len(s)
    BY <1>1 DEF s
  <2>3. Len(b) \in Nat
    BY <1>1
  <2> QED BY <1>3, <2>1, <2>2, <2>3
<1>5. \A i \in 1..k : s[2 * i - 1].part = "begin" /\ s[2 * i].part = "end"
  <2> SUFFICES ASSUME NEW i \in 1..k
               PROVE  s[2 * i - 1].part = "begin" /\ s[2 * i].part = "end"
    OBVIOUS
  <2>1. s[2 * i - 1].part = "begin"
        /\ s[2 * i] = Piece(s[2 * i - 1].line, "end")
    BY <1>2 DEF Whole, s
  <2> QED BY <2>1, PartsOfPiece
<1>6. ASSUME NEW i \in 1..h PROVE 2 * i \in Newlines(b)
  <2>1. 2 * i \in 1..Len(b) /\ i \in 1..k
    BY <1>3, <1>4
  <2>2. b[2 * i].part = "end"
    BY <1>1, <1>5, <2>1 DEF s
  <2> QED BY <2>1, <2>2 DEF Newlines
<1>7. ASSUME NEW i \in Newlines(b) PROVE i \in {2 * j : j \in 1..h}
  <2>1. i \in 1..Len(b) /\ b[i].part = "end"
    BY DEF Newlines
  <2>2. i \in Nat /\ i <= Len(b)
    BY <1>1, <2>1
  <2>3. PICK j \in Nat : i = 2 * j \/ i = 2 * j + 1
    BY <2>2, Halves
  <2>4. CASE i = 2 * j
    <3>1. j \in 1..h
      BY <1>3, <2>1, <2>2, <2>4
    <3> QED BY <2>4, <3>1
  <2>5. CASE i = 2 * j + 1
    <3>1. j + 1 \in 1..k /\ i = 2 * (j + 1) - 1
      BY <1>1, <1>2, <2>2, <2>5 DEF Whole
    <3>2. s[i].part = "begin"
      BY <1>5, <3>1
    <3>3. b[i].part = "begin"
      BY <1>1, <2>1, <3>2 DEF s
    <3> QED BY <2>1, <3>3
  <2> QED BY <2>3, <2>4, <2>5
<1>8. Newlines(b) = {2 * i : i \in 1..h}
  BY <1>6, <1>7
<1> QED BY <1>3, <1>8

\* What is cut off such a buffer, and what is left.
LEMMA CutOff ==
    ASSUME NEW S, NEW b \in Seq(PiecesOf(S)), NEW r \in Seq(PiecesOf(S)),
           Framed(Stream(b, r))
    PROVE  \E h \in Nat :
               /\ Len(b) = 2 * h \/ Len(b) = 2 * h + 1
               /\ Lines(b) = [i \in 1..h |-> b[2 * i].line]
               /\ Rest(b) = SubSeq(b, 2 * h + 1, Len(b))
               /\ h > 0 => AfterFirst(b) = SubSeq(b, 2 * 1 + 1, Len(b))
<1>1. PICK h \in Nat : /\ Len(b) = 2 * h \/ Len(b) = 2 * h + 1
                       /\ Newlines(b) = {2 * i : i \in 1..h}
  BY NewlinesOfWhole
<1> DEFINE E == {2 * i : i \in 1..h}
<1>2. Cardinality(Newlines(b)) = h
  BY <1>1, EvenNumbers
<1>3. ASSUME NEW k \in 1..h PROVE NthNewline(b, k) = 2 * k
  <2>1. ASSUME NEW m \in 1..h
        PROVE  Cardinality({j \in E : j <= 2 * m}) = m
    <3>1. {j \in E : j <= 2 * m} = {2 * i : i \in 1..m}
      OBVIOUS
    <3>2. Cardinality({2 * i : i \in 1..m}) = m
      <4>1. m \in Nat
        OBVIOUS
      <4> QED BY <4>1, EvenNumbers
    <3> QED BY <3>1, <3>2, Zenon
  <2>2. 2 * k \in E /\ Cardinality({j \in E : j <= 2 * k}) = k
    BY <2>1
  <2>3. \A i \in E : Cardinality({j \in E : j <= i}) = k => i = 2 * k
    BY <2>1
  <2> HIDE DEF E
  <2>4. 2 * k = CHOOSE i \in E : Cardinality({j \in E : j <= i}) = k
    BY <2>2, <2>3
  <2> QED BY <1>1, <2>4 DEF NthNewline, E
<1>4. Lines(b) = [i \in 1..h |-> b[2 * i].line]
  BY <1>2, <1>3 DEF Lines
<1>5. Max(Newlines(b) \cup {0}) = 2 * h
  <2> DEFINE T == E \cup {0}
  <2>1. T \subseteq 0..2 * h /\ 2 * h \in T /\ T # {}
    OBVIOUS
  <2>2. 2 * h \in Nat
    OBVIOUS
  <2> HIDE DEF T
  <2> DEFINE x == Max(T)
  <2>3. x \in T /\ \A k \in T : k <= x
    BY <2>1, <2>2, GreatestIsMax
  <2> HIDE DEF x
  <2>4. x \in 0..2 * h /\ 2 * h <= x
    BY <2>1, <2>3
  <2>5. x = 2 * h
    BY <2>2, <2>4
  <2> QED BY <1>1, <2>5 DEF T, x
<1>6. ASSUME h > 0 PROVE Min(Newlines(b)) = 2 * 1
  <2>1. E \subseteq Nat /\ 2 * 1 \in E /\ \A i \in E : 2 <= i
    BY <1>6
  <2> HIDE DEF E
  <2> DEFINE x == Min(E)
  <2>2. x \in E /\ \A k \in E : x <= k
    BY <2>1, LeastIsMin
  <2> HIDE DEF x
  <2>3. x \in Nat /\ 2 <= x /\ x <= 2
    BY <2>1, <2>2
  <2>4. x = 2 * 1
    BY <2>3
  <2> QED BY <1>1, <2>4 DEF E, x
<1> QED BY <1>1, <1>4, <1>5, <1>6 DEF Rest, AfterFirst

\* Whole lines taken off the front leave whole lines.
LEMMA FrontTaken ==
    ASSUME NEW S, NEW b \in Seq(PiecesOf(S)), NEW r \in Seq(PiecesOf(S)),
           Framed(Stream(b, r)), NEW h \in Nat, 2 * h <= Len(b)
    PROVE  LET rest == SubSeq(b, 2 * h + 1, Len(b))
           IN  /\ rest \in Seq(PiecesOf(S))
               /\ Framed(Stream(rest, r))
               /\ Len(Stream(rest, r)) = Len(Stream(b, r)) - 2 * h
               /\ \A i \in 1..Len(Stream(rest, r)) :
                      Stream(rest, r)[i] = Stream(b, r)[i + 2 * h]
<1> DEFINE rest == SubSeq(b, 2 * h + 1, Len(b))
           s == Stream(b, r)
           t == Stream(rest, r)
<1>1. /\ rest \in Seq(PiecesOf(S)) /\ Len(rest) = Len(b) - 2 * h
      /\ \A i \in 1..Len(b) - 2 * h : rest[i] = b[i + 2 * h]
  <2>1. 2 * h \in 0..Len(b)
    OBVIOUS
  <2> QED BY <2>1, CutInTwo
<1> HIDE DEF rest
<1>2. /\ s \in Seq(PiecesOf(S)) /\ Len(s) = Len(b) + Len(r)
      /\ \A i \in 1..Len(b) + Len(r) :
             s[i] = IF i <= Len(b) THEN b[i] ELSE r[i - Len(b)]
  BY StreamIs
<1>3. /\ t \in Seq(PiecesOf(S)) /\ Len(t) = Len(rest) + Len(r)
      /\ \A i \in 1..Len(rest) + Len(r) :
             t[i] = IF i <= Len(rest) THEN rest[i] ELSE r[i - Len(rest)]
  BY <1>1, StreamIs
<1>4. Len(b) \in Nat /\ Len(r) \in Nat
  OBVIOUS
<1>5. PICK k \in Nat : Whole(s, k)
  BY <1>2, FramedIsWhole
<1> HIDE DEF s, t
<1>6. Len(t) = Len(s) - 2 * h
  BY <1>1, <1>2, <1>3, <1>4
<1>7. ASSUME NEW i \in 1..Len(t) PROVE t[i] = s[i + 2 * h]
  <2>1. CASE i <= Len(rest)
    <3>1. i \in 1..Len(b) - 2 * h
      BY <1>1, <1>4, <2>1
    <3>2. t[i] = b[i + 2 * h]
      BY <1>1, <1>3, <1>4, <2>1, <3>1
    <3>3. i + 2 * h \in 1..Len(b) + Len(r) /\ i + 2 * h <= Len(b)
      BY <1>4, <3>1
    <3> QED BY <1>2, <3>2, <3>3
  <2>2. CASE ~(i <= Len(rest))
    <3>1. t[i] = r[i - Len(rest)]
      BY <1>3, <2>2
    <3>2. i + 2 * h \in 1..Len(b) + Len(r) /\ ~(i + 2 * h <= Len(b))
      BY <1>1, <1>3, <1>4, <2>2
    <3>3. (i + 2 * h) - Len(b) = i - Len(rest)
      BY <1>1, <1>4
    <3>4. s[i + 2 * h] = r[(i + 2 * h) - Len(b)]
      BY <1>2, <3>2
    <3> QED BY <3>1, <3>3, <3>4
  <2> QED BY <2>1, <2>2
<1>8. Whole(t, k - h) /\ k - h \in Nat
  <2>1. k - h \in Nat /\ Len(t) = 2 * (k - h)
    <3>1. Len(s) = 2 * k
      BY <1>5 DEF Whole
    <3>2. 2 * h <= Len(s)
      BY <1>2, <1>4
    <3> QED BY <1>6, <3>1, <3>2
  <2>2. ASSUME NEW i \in 1..k - h
        PROVE  /\ t[2 * i - 1].part = "begin"
               /\ t[2 * i] = Piece(t[2 * i - 1].line, "end")
    <3>1. i + h \in 1..k
          /\ 2 * i - 1 \in 1..Len(t) /\ 2 * i \in 1..Len(t)
      BY <2>1
    <3>2. /\ s[2 * (i + h) - 1].part = "begin"
          /\ s[2 * (i + h)] = Piece(s[2 * (i + h) - 1].line, "end")
      BY <1>5, <3>1 DEF Whole
    <3>3. 2 * (i + h) - 1 = (2 * i - 1) + 2 * h /\ 2 * (i + h) = 2 * i + 2 * h
      OBVIOUS
    <3>4. t[2 * i - 1] = s[2 * (i + h) - 1] /\ t[2 * i] = s[2 * (i + h)]
      BY <1>7, <3>1, <3>3
    <3> QED BY <3>2, <3>4
  <2> QED BY <2>1, <2>2 DEF Whole
<1>9. Framed(t)
  BY <1>3, <1>8, FramedIsWhole
<1> QED BY <1>1, <1>6, <1>7, <1>9 DEF rest, s, t

With(s, line) == s \o Pieces(line)

\* A line written is the end of the stream.
LEMMA StreamWith ==
    ASSUME NEW S, NEW rx \in Seq(PiecesOf(S)), NEW v \in Seq(PiecesOf(S)),
           NEW line \in S
    PROVE  /\ With(v, line) \in Seq(PiecesOf(S))
           /\ Stream(rx, v) \in Seq(PiecesOf(S))
           /\ Stream(rx, With(v, line)) = With(Stream(rx, v), line)
<1> DEFINE T == PiecesOf(S)
           p == Pieces(line)
<1>1. p \in Seq(T) /\ rx \in Seq(T) /\ v \in Seq(T)
  BY DEF Pieces, Piece, PiecesOf
<1> HIDE DEF T, p
<1>2. v \o p \in Seq(T) /\ Stream(rx, v) \in Seq(T)
  BY <1>1, StreamIs
<1>3. (rx \o v) \o p = rx \o (v \o p)
  BY <1>1, ConcatAssociative
<1> QED BY <1>2, <1>3 DEF With, Stream, p, T

Prolonged(s, line) ==
    LET t == With(s, line)
    IN  /\ Len(t) = Len(s) + 2
        /\ \A i \in 1..Len(s) + 2 :
               t[i] = IF i <= Len(s) THEN s[i] ELSE Pieces(line)[i - Len(s)]

\* A line written to whole lines makes whole lines.
LEMMA LineAdded ==
    ASSUME NEW S, NEW s \in Seq(PiecesOf(S)), NEW line \in S
    PROVE  /\ With(s, line) \in Seq(PiecesOf(S))
           /\ Framed(s) => Framed(With(s, line))
           /\ LinesIn(With(s, line)) = LinesIn(s) \cup {line}
           /\ Prolonged(s, line)
<1> DEFINE p == Pieces(line)
           t == With(s, line)
<1>1. p \in Seq(PiecesOf(S)) /\ Len(p) = 2
      /\ p[1] = Piece(line, "begin") /\ p[2] = Piece(line, "end")
  <2>1. Piece(line, "begin") \in PiecesOf(S) /\ Piece(line, "end") \in PiecesOf(S)
    BY DEF Piece, PiecesOf
  <2> QED BY <2>1 DEF Pieces
<1>2. p[1].line = line /\ p[2].line = line /\ p[1].part = "begin"
      /\ p[2] = Piece(p[1].line, "end")
  BY <1>1 DEF Piece
<1>3. Len(s) \in Nat
  OBVIOUS
<1> HIDE DEF p
<1>4. /\ t \in Seq(PiecesOf(S)) /\ Len(t) = Len(s) + 2 /\ Len(s) \in Nat
      /\ \A i \in 1..Len(s) + 2 :
             t[i] = IF i <= Len(s) THEN s[i] ELSE p[i - Len(s)]
  <2>1. p \in Seq(PiecesOf(S)) /\ Len(p) = 2
    BY <1>1
  <2>2. /\ t \in Seq(PiecesOf(S)) /\ Len(t) = Len(s) + Len(p)
        /\ \A i \in 1..Len(s) + Len(p) :
               t[i] = IF i <= Len(s) THEN s[i] ELSE p[i - Len(s)]
    BY <2>1, ConcatProperties DEF With, p
  <2> HIDE DEF t
  <2> QED BY <1>3, <2>1, <2>2
<1> HIDE DEF t
<1>5. t[Len(s) + 1] = p[1] /\ t[Len(s) + 2] = p[2]
  BY <1>4
<1>6. LinesIn(t) = LinesIn(s) \cup {line}
  <2>1. \A i \in 1..Len(s) : t[i] = s[i] /\ i \in 1..Len(t)
    BY <1>4
  <2>2. Len(s) + 1 \in 1..Len(t) /\ t[Len(s) + 1].line = line
    BY <1>2, <1>4, <1>5
  <2>3. \A i \in 1..Len(t) :
            i \in 1..Len(s) \/ i = Len(s) + 1 \/ i = Len(s) + 2
    BY <1>4
  <2>4. \A i \in 1..Len(t) : t[i].line \in LinesIn(s) \cup {line}
    BY <1>2, <1>5, <2>1, <2>3 DEF LinesIn
  <2> QED BY <2>1, <2>2, <2>4 DEF LinesIn
<1>7. ASSUME Framed(s) PROVE Framed(t)
  <2>1. PICK k \in Nat : Whole(s, k)
    BY <1>7, FramedIsWhole
  <2>2. ASSUME NEW i \in 1..k + 1
        PROVE  /\ t[2 * i - 1].part = "begin"
               /\ t[2 * i] = Piece(t[2 * i - 1].line, "end")
    <3>1. CASE i \in 1..k
      <4>1. 2 * i - 1 \in 1..Len(s) /\ 2 * i \in 1..Len(s)
        BY <2>1, <3>1 DEF Whole
      <4>2. t[2 * i - 1] = s[2 * i - 1] /\ t[2 * i] = s[2 * i]
        BY <1>4, <4>1
      <4> QED BY <2>1, <3>1, <4>2 DEF Whole
    <3>2. CASE i = k + 1
      <4>1. 2 * i - 1 = Len(s) + 1 /\ 2 * i = Len(s) + 2
        BY <2>1, <3>2 DEF Whole
      <4> QED BY <1>2, <1>5, <4>1
    <3> QED BY <3>1, <3>2
  <2>3. Whole(t, k + 1)
    BY <1>4, <2>1, <2>2 DEF Whole
  <2> QED BY <1>4, <2>3, FramedIsWhole
<1> QED BY <1>4, <1>6, <1>7 DEF t, p, Prolonged

\* The lines of a sequence of pieces are among those it is made of.
LEMMA LinesOf ==
    ASSUME NEW S, NEW s \in Seq(PiecesOf(S))
    PROVE  LinesIn(s) \subseteq S
<1>1. \A i \in 1..Len(s) : s[i] \in PiecesOf(S)
  BY ElementOfSeq
<1> QED BY <1>1 DEF LinesIn, PiecesOf

\* The lines of a stream are those of its two parts.
LEMMA LinesInBoth ==
    ASSUME NEW S, NEW s \in Seq(S), NEW t \in Seq(S)
    PROVE  LinesIn(Stream(s, t)) = LinesIn(s) \cup LinesIn(t)
<1> DEFINE u == Stream(s, t)
<1>1. Len(s) \in Nat /\ Len(t) \in Nat
  OBVIOUS
<1>2. /\ Len(u) = Len(s) + Len(t)
      /\ \A i \in 1..Len(s) + Len(t) :
             u[i] = IF i <= Len(s) THEN s[i] ELSE t[i - Len(s)]
  BY StreamIs
<1> HIDE DEF u
<1>3. \A i \in 1..Len(s) : u[i] = s[i] /\ i \in 1..Len(u)
  BY <1>1, <1>2
<1>4. \A i \in 1..Len(t) : u[i + Len(s)] = t[i] /\ i + Len(s) \in 1..Len(u)
  BY <1>1, <1>2
<1>5. \A i \in 1..Len(u) : \/ i \in 1..Len(s) /\ u[i] = s[i]
                           \/ i - Len(s) \in 1..Len(t) /\ u[i] = t[i - Len(s)]
  BY <1>1, <1>2
<1>6. \A i \in 1..Len(u) : u[i].line \in LinesIn(s) \cup LinesIn(t)
  BY <1>5 DEF LinesIn
<1>7. \A i \in 1..Len(s) : s[i].line \in LinesIn(u)
  BY <1>3 DEF LinesIn
<1>8. \A i \in 1..Len(t) : t[i].line \in LinesIn(u)
  BY <1>4 DEF LinesIn
<1>9. LinesIn(u) \subseteq LinesIn(s) \cup LinesIn(t)
  BY <1>6 DEF LinesIn
<1>10. LinesIn(s) \subseteq LinesIn(u) /\ LinesIn(t) \subseteq LinesIn(u)
  BY <1>7, <1>8 DEF LinesIn
<1> QED BY <1>9, <1>10 DEF u

\* The first line of a stream is cut off: the others follow.
FirstCut(b, r, s) ==
    LET t == Stream(AfterFirst(b), r)
    IN  /\ Lines(b)[1] = s[1].line
        /\ Framed(t)
        /\ Len(t) = Len(s) - 2
        /\ \A i \in 1..Len(t) : t[i] = s[i + 2]

\* The lines cut off a stream of whole lines are lines of it, and the first
\* is its first; whole lines remain.
LEMMA ReadCuts ==
    ASSUME NEW S, NEW b \in Seq(PiecesOf(S)), NEW r \in Seq(PiecesOf(S)),
           NEW s, s = Stream(b, r), Framed(s)
    PROVE  /\ Lines(b) \in Seq(S)
           /\ ToSet(Lines(b)) \subseteq LinesIn(s)
           /\ Rest(b) \in Seq(PiecesOf(S))
           /\ Framed(Stream(Rest(b), r))
           /\ LinesIn(Stream(Rest(b), r)) \subseteq LinesIn(s)
           /\ Lines(b) # <<>> =>
                  FirstCut(b, r, s) /\ AfterFirst(b) \in Seq(PiecesOf(S))
<1>1. PICK h \in Nat :
          /\ Len(b) = 2 * h \/ Len(b) = 2 * h + 1
          /\ Lines(b) = [i \in 1..h |-> b[2 * i].line]
          /\ Rest(b) = SubSeq(b, 2 * h + 1, Len(b))
          /\ h > 0 => AfterFirst(b) = SubSeq(b, 2 * 1 + 1, Len(b))
  BY CutOff
<1>2. /\ s \in Seq(PiecesOf(S)) /\ Len(s) = Len(b) + Len(r)
      /\ \A i \in 1..Len(b) : s[i] = b[i] /\ i \in 1..Len(s)
      /\ Len(b) \in Nat /\ Len(r) \in Nat
  <2>1. /\ Stream(b, r) \in Seq(PiecesOf(S))
        /\ Len(Stream(b, r)) = Len(b) + Len(r)
        /\ \A i \in 1..Len(b) : Stream(b, r)[i] = b[i]
        /\ Len(b) \in Nat /\ Len(r) \in Nat
    BY StreamBegins
  <2>2. \A i \in 1..Len(b) : i \in 1..Len(b) + Len(r)
    BY <2>1
  <2> QED BY <2>1, <2>2
<1>3. \A i \in 1..h : 2 * i \in 1..Len(b)
  BY <1>1, <1>2
<1>4. \A i \in 1..h : b[2 * i].line \in S /\ b[2 * i].line \in LinesIn(s)
  <2>1. \A i \in 1..Len(b) : b[i].line \in LinesIn(s)
    BY <1>2 DEF LinesIn
  <2> QED BY <1>2, <1>3, <2>1, LinesOf
<1>5. Lines(b) \in Seq(S) /\ ToSet(Lines(b)) \subseteq LinesIn(s)
  <2> DEFINE l == [i \in 1..h |-> b[2 * i].line]
  <2>1. l \in Seq(S)
    BY <1>4
  <2>2. DOMAIN l = 1..h /\ \A i \in 1..h : l[i] \in LinesIn(s)
    BY <1>4
  <2> HIDE DEF l
  <2>3. ToSet(l) \subseteq LinesIn(s)
    BY <2>2 DEF ToSet
  <2> QED BY <1>1, <2>1, <2>3 DEF l
<1>6. /\ Rest(b) \in Seq(PiecesOf(S))
      /\ Framed(Stream(Rest(b), r))
      /\ LinesIn(Stream(Rest(b), r)) \subseteq LinesIn(s)
  <2>1. 2 * h <= Len(b)
    BY <1>1, <1>2
  <2> DEFINE rest == SubSeq(b, 2 * h + 1, Len(b))
             t == Stream(rest, r)
  <2>2. /\ rest \in Seq(PiecesOf(S))
        /\ Framed(t) /\ Len(t) = Len(Stream(b, r)) - 2 * h
        /\ \A i \in 1..Len(t) : t[i] = Stream(b, r)[i + 2 * h]
    BY <2>1, FrontTaken
  <2>3. Len(t) = Len(s) - 2 * h /\ \A i \in 1..Len(t) : t[i] = s[i + 2 * h]
    BY <2>2
  <2>4. \A i \in 1..Len(t) : i + 2 * h \in 1..Len(s)
    BY <1>2, <2>3
  <2>5. LinesIn(t) \subseteq LinesIn(s)
    BY <2>3, <2>4 DEF LinesIn
  <2> QED BY <1>1, <2>2, <2>5
<1>7. ASSUME Lines(b) # <<>>
      PROVE  FirstCut(b, r, s) /\ AfterFirst(b) \in Seq(PiecesOf(S))
  <2>1. h > 0
    BY <1>1, <1>7
  <2>2. 2 * 1 <= Len(b) /\ 2 * 1 = 2 /\ Len(s) >= 2
    BY <1>1, <1>2, <2>1
  <2>3. Lines(b)[1] = s[1].line
    <3>1. PICK k \in Nat : Whole(s, k)
      BY <1>2, FramedIsWhole
    <3>2. 1 \in 1..k
      BY <1>2, <2>2, <3>1 DEF Whole
    <3>3. s[2 * 1] = Piece(s[2 * 1 - 1].line, "end")
      BY <3>1, <3>2 DEF Whole
    <3>4. s[2].line = s[1].line
      BY <3>3, PartsOfPiece
    <3>5. Lines(b)[1] = b[2 * 1].line
      <4>1. 1 \in 1..h
        BY <2>1
      <4> QED BY <1>1, <4>1, Zenon
    <3>6. 2 \in 1..Len(b)
      BY <1>2, <2>2
    <3>7. s[2] = b[2] /\ 2 * 1 = 2
      BY <1>2, <3>6
    <3> QED BY <3>4, <3>5, <3>7
  <2>3a. PICK one \in Nat : one = 1
    OBVIOUS
  <2> DEFINE rest == SubSeq(b, 2 * one + 1, Len(b))
             t == Stream(rest, r)
  <2>4. AfterFirst(b) = rest
    BY <1>1, <2>1, <2>3a
  <2>5. 2 * one <= Len(b)
    BY <2>2, <2>3a
  <2>6. /\ rest \in Seq(PiecesOf(S))
        /\ Framed(t) /\ Len(t) = Len(Stream(b, r)) - 2 * one
        /\ \A i \in 1..Len(t) : t[i] = Stream(b, r)[i + 2 * one]
    BY <2>5, FrontTaken
  <2> HIDE DEF rest
  <2> QED BY <2>2, <2>3, <2>3a, <2>4, <2>6 DEF FirstCut
<1> QED BY <1>5, <1>6, <1>7

-----------------------------------------------------------------------------
\* What the two sides write.
InLines == {IN_(seq, Move) : seq \in 1..MaxSeq}

UpLines == InLines \cup {BYE}

States == UNION {[ids -> PlayerState] : ids \in SUBSET PlayerIds}

SnapshotLines == {SS(t, states) : t \in 0..MaxTick, states \in States}

DownLines == {JA(id) : id \in PlayerIds} \cup SnapshotLines

Worlds == [DOMAIN players -> Player]

AfterLine(world, id, line) ==
    IF line.cmd = "IN"
    THEN apply_input(world, id, line.seq, line.mx, line.my)
    ELSE world

\* Handling a line keeps the world typed.
LEMMA AfterLineType ==
    ASSUME NEW world \in Worlds, NEW id, NEW line \in UpLines
    PROVE  AfterLine(world, id, line) \in Worlds
<1>1. CASE line \in InLines
  <2>1. PICK seq \in 1..MaxSeq : line = IN_(seq, Move)
    BY <1>1 DEF InLines
  <2>2. line.cmd = "IN" /\ line.seq \in Seqs /\ line.mx \in Int /\ line.my \in Int
    BY <2>1, SeqAssumption, BaselineAssumption DEF IN_, Seqs, Axis
  <2> QED BY <2>2, ApplyInputType DEF AfterLine, Worlds
<1>2. CASE line = BYE
  BY <1>2 DEF AfterLine, BYE
<1> QED BY <1>1, <1>2 DEF UpLines

\* The lines are applied one by one.
LEMMA LinesOneByOne ==
    ASSUME players \in Worlds, NEW id, NEW lines \in Seq(UpLines)
    PROVE  \E world \in [0..Len(lines) -> Worlds] :
               /\ world[0] = players
               /\ \A i \in 1..Len(lines) :
                      world[i] = AfterLine(world[i - 1], id, lines[i])
               /\ AfterLines(id, lines) = world[Len(lines)]
<1> DEFINE n == Len(lines)
           Body(g) == [i \in 0..n |-> IF i = 0 THEN players
                                      ELSE IF lines[i].cmd = "IN"
                                      THEN apply_input(g[i - 1], id,
                                               lines[i].seq, lines[i].mx,
                                               lines[i].my)
                                      ELSE g[i - 1]]
           world == CHOOSE g : g = Body(g)
           step  == [p \in (1..n) \X Worlds |->
                        AfterLine(p[2], id, lines[p[1]])]
<1>1. n \in Nat /\ \A i \in 1..n : lines[i] \in UpLines
  BY ElementOfSeq
<1>2. AfterLines(id, lines) = world[n]
  BY DEF AfterLines
<1> HIDE DEF n
<1>3. step \in [(1..n) \X Worlds -> Worlds]
  BY <1>1, AfterLineType
<1>4. \A i \in 1..n, v \in Worlds :
          step[<<i, v>>] = AfterLine(v, id, lines[i])
  OBVIOUS
<1> HIDE DEF step
<1>5. PICK w \in [0..n -> Worlds] : Made(w, step, players, n)
  <2>1. Steps(step, n, Worlds)
    BY <1>1, <1>3 DEF Steps
  <2> QED BY <2>1, Iteration
<1>6. ASSUME NEW i \in 1..n
      PROVE  w[i] = AfterLine(w[i - 1], id, lines[i])
  <2>1. w[i - 1] \in Worlds
    BY <1>1
  <2> QED BY <1>4, <1>5, <2>1 DEF Made
<1>7. w = Body(w)
  <2>1. ASSUME NEW i \in 0..n PROVE w[i] = Body(w)[i]
    <3>1. CASE i = 0
      BY <1>5, <3>1 DEF Made
    <3>2. CASE i # 0
      <4>1. i \in 1..n
        BY <3>2
      <4> QED BY <1>6, <3>2, <4>1 DEF AfterLine
    <3> QED BY <3>1, <3>2
  <2> QED BY <2>1
<1>8. world = Body(world)
  BY <1>7
<1> HIDE DEF world
<1>9. /\ world[0] = players
      /\ \A i \in 1..n : world[i] = AfterLine(world[i - 1], id, lines[i])
      /\ world = [i \in 0..n |-> world[i]]
  <2>1. 0 \in 0..n /\ \A i \in 1..n : i \in 0..n /\ i # 0
    BY <1>1
  <2>2. \A i \in 0..n : world[i] = Body(world)[i]
    BY <1>8
  <2>3. world = [i \in 0..n |-> world[i]]
    BY <1>8
  <2> QED BY <2>1, <2>2, <2>3 DEF AfterLine
<1>10. world \in [0..n -> Worlds]
  <2> DEFINE T == {i \in 0..n : world[i] \in Worlds}
  <2>1. 0 \in T
    BY <1>1, <1>9
  <2>2. ASSUME NEW k \in 0..n - 1, k \in T PROVE k + 1 \in T
    <3>1. k + 1 \in 1..n /\ (k + 1) - 1 = k
      BY <1>1
    <3>2. world[k + 1] = AfterLine(world[k], id, lines[k + 1])
      BY <1>9, <3>1
    <3> QED BY <1>1, <2>2, <3>1, <3>2, AfterLineType
  <2>3. 0..n \subseteq T
    <3> HIDE DEF T
    <3> QED BY <1>1, <2>1, <2>2, UpTo
  <2> QED BY <1>9, <2>3
<1> QED BY <1>2, <1>9, <1>10 DEF n

\* What lines make of the world: nobody joins or leaves it, only the player
\* whose lines they are is touched, and its acknowledgement grows, but never
\* to the bound that the sequence numbers of the lines are below.
InStep(world) ==
    \A id \in DOMAIN world :
        world[id].latest_seen_seq = world[id].last_processed_input_seq

Follows(before, after, id, bound) ==
    /\ after \in [DOMAIN before -> Player]
    /\ InStep(after)
    /\ \A other \in DOMAIN before \ {id} : after[other] = before[other]
    /\ before[id].last_processed_input_seq
           <= after[id].last_processed_input_seq
    /\ after[id].last_processed_input_seq < bound

\* Handling one more of a client's lines touches no player but its own, and
\* processes no input it has not made.
LEMMA AfterLineFollows ==
    ASSUME players \in Worlds, NEW id \in DOMAIN players, NEW bound \in Nat,
           NEW world, Follows(players, world, id, bound),
           NEW line \in UpLines, line.cmd = "IN" => line.seq < bound
    PROVE  Follows(players, AfterLine(world, id, line), id, bound)
<1> DEFINE after == AfterLine(world, id, line)
<1>1. world \in Worlds /\ DOMAIN world = DOMAIN players
  BY DEF Follows, Worlds
<1>2. after \in Worlds /\ DOMAIN after = DOMAIN players
  BY <1>1, AfterLineType DEF Worlds
<1>3. ASSUME NEW any \in DOMAIN players
      PROVE  \/ after[any] = world[any]
             \/ /\ any = id
                /\ after[any].latest_seen_seq = line.seq
                /\ after[any].last_processed_input_seq = line.seq
                /\ line.seq >= world[any].latest_seen_seq
                /\ line.seq < bound
  <2>1. CASE line \in InLines
    <3>1. PICK seq \in 1..MaxSeq : line = IN_(seq, Move)
      BY <2>1 DEF InLines
    <3>2. line.cmd = "IN" /\ line.seq \in Seqs /\ line.mx \in Int /\ line.my \in Int
      BY <3>1, SeqAssumption, BaselineAssumption DEF IN_, Seqs, Axis
    <3>3. LET changed == apply_input(world, id, line.seq, line.mx, line.my)[any]
          IN  \/ changed = world[any]
              \/ /\ any = id
                 /\ changed.latest_seen_seq = line.seq
                 /\ changed.last_processed_input_seq = line.seq
                 /\ line.seq >= world[any].latest_seen_seq
      BY <1>1, <3>2, ApplyInput DEF Worlds
    <3> QED BY <3>2, <3>3 DEF AfterLine
  <2>2. CASE line = BYE
    BY <2>2 DEF AfterLine, BYE
  <2> QED BY <2>1, <2>2 DEF UpLines
<1> HIDE DEF after
<1>4. InStep(after)
  BY <1>1, <1>2, <1>3 DEF InStep, Follows
<1>5. \A other \in DOMAIN players \ {id} : after[other] = players[other]
  BY <1>3 DEF Follows
<1>6. /\ players[id].last_processed_input_seq
             <= after[id].last_processed_input_seq
      /\ after[id].last_processed_input_seq < bound
  <2>1. /\ world[id].latest_seen_seq = world[id].last_processed_input_seq
        /\ players[id].last_processed_input_seq
               <= world[id].last_processed_input_seq
        /\ world[id].last_processed_input_seq < bound
    BY <1>1 DEF Follows, InStep
  <2>2. CASE after[id] = world[id]
    BY <2>1, <2>2
  <2>3. CASE after[id] # world[id]
    <3>1. /\ after[id].last_processed_input_seq = line.seq
          /\ line.seq >= world[id].latest_seen_seq
          /\ line.seq < bound
      BY <1>3, <2>3
    <3>2. /\ players[id].last_processed_input_seq \in Nat
          /\ world[id].last_processed_input_seq \in Nat
          /\ after[id].last_processed_input_seq \in Nat
      BY <1>1, <1>2 DEF Worlds, Player, Seqs
    <3> QED BY <2>1, <3>1, <3>2
  <2> QED BY <2>2, <2>3
<1> QED BY <1>2, <1>4, <1>5, <1>6 DEF Follows, after, Worlds

\* The same of all the lines that one read completes.
LEMMA AfterLinesFollow ==
    ASSUME players \in Worlds, InStep(players),
           NEW id \in DOMAIN players, NEW bound \in Nat,
           players[id].last_processed_input_seq < bound,
           NEW lines \in Seq(UpLines),
           \A l \in ToSet(lines) : l.cmd = "IN" => l.seq < bound
    PROVE  Follows(players, AfterLines(id, lines), id, bound)
<1> DEFINE n == Len(lines)
<1>1. PICK world \in [0..n -> Worlds] :
          /\ world[0] = players
          /\ \A i \in 1..n : world[i] = AfterLine(world[i - 1], id, lines[i])
          /\ AfterLines(id, lines) = world[n]
  BY LinesOneByOne
<1>2. n \in Nat /\ \A i \in 1..n : lines[i] \in UpLines
  BY ElementOfSeq
<1>3. \A i \in 1..n : lines[i].cmd = "IN" => lines[i].seq < bound
  BY DEF ToSet
<1> HIDE DEF n
<1> DEFINE T == {i \in 0..n : Follows(players, world[i], id, bound)}
<1>4. 0 \in T
  <2>1. players[id].last_processed_input_seq \in Nat
    BY DEF Worlds, Player, Seqs
  <2>2. Follows(players, players, id, bound)
    BY <2>1 DEF Follows, Worlds
  <2> QED BY <1>1, <1>2, <2>2
<1>5. ASSUME NEW k \in 0..n - 1, k \in T PROVE k + 1 \in T
  <2>1. k + 1 \in 1..n /\ (k + 1) - 1 = k /\ k + 1 \in 0..n
    BY <1>2
  <2>2. world[k + 1] = AfterLine(world[k], id, lines[k + 1])
    BY <1>1, <2>1
  <2>3. Follows(players, AfterLine(world[k], id, lines[k + 1]), id, bound)
    BY <1>2, <1>3, <1>5, <2>1, AfterLineFollows
  <2> QED BY <2>1, <2>2, <2>3
<1>6. 0..n \subseteq T
  <2> HIDE DEF T
  <2> QED BY <1>2, <1>4, <1>5, UpTo
<1>7. n \in T
  BY <1>2, <1>6
<1> QED BY <1>1, <1>7

-----------------------------------------------------------------------------
\* The inductive invariant.  What is so of one connection is stated of its
\* values, so that a step that leaves them alone leaves it alone.
ClientRecord ==
    [at          : {"outside", "joining", "releasing", "draining", "gone"},
     my_pid      : 0..MAX_PLAYERS,
     rx_buf      : Seq(PiecesOf(DownLines)),
     in_queue    : SUBSET [deliver_at_ms : Nat, data : SnapshotLines],
     out_queue   : SUBSET [deliver_at_ms : Nat, data : InLines],
     latest      : States,
     latest_tick : 0..MaxTick,
     pending     : SUBSET (1..MaxSeq),
     next_seq    : 1..MaxSeq + 1]

Seat ==
    [player_id : PlayerIds, open : BOOLEAN, rx_buffer : Seq(PiecesOf(UpLines))]

Typed ==
    /\ clock \in Nat
    /\ accepted \subseteq Conns
    /\ DOMAIN clients \subseteq accepted
    /\ clients \in [DOMAIN clients -> Seat]
    /\ DOMAIN players \subseteq PlayerIds
    /\ players \in Worlds
    /\ tick \in 0..MaxTick
    /\ up \in [Conns -> Seq(PiecesOf(UpLines))]
    /\ down \in [Conns -> Seq(PiecesOf(DownLines))]
    /\ client \in [Conns -> ClientRecord]

\* Before it joins, a client has made no input and has no snapshot.
Prepared(k) ==
    /\ \A d \in k.out_queue : d.data.seq < k.next_seq
    /\ k.at \in {"outside", "joining"} =>
           k.next_seq = 1 /\ k.in_queue = {} /\ k.out_queue = {}

\* The lines a client has written are of inputs it has made, and a BYE is
\* among them only when it has gone.
Written(k, lines) ==
    \A l \in lines :
        /\ l.cmd = "IN" => l.seq < k.next_seq
        /\ k.at # "gone" => l.cmd # "BYE"

\* A snapshot for the client with an id: it is in it, and what it is
\* acknowledged has been processed.
Own(id, ack, l) ==
    /\ l \in SnapshotLines
    /\ id \in DOMAIN l.players
    /\ l.players[id].last_processed_input_seq <= ack

\* What a client with a seat is sent: its JA first, and then its snapshots.
Incoming(k, s, id, ack) ==
    /\ Framed(s)
    /\ k.at \in {"outside", "joining"} =>
           /\ Len(s) >= 2
           /\ s[1].line = JA(id)
           /\ \A i \in 3..Len(s) : Own(id, ack, s[i].line)
    /\ k.at \in {"releasing", "draining"} =>
           /\ k.my_pid = id
           /\ \A l \in LinesIn(s) : Own(id, ack, l)
           /\ \A d \in k.in_queue : Own(id, ack, d.data)

\* A client with a seat, what is on its way to the server and back, its seat
\* and what the world has processed of it.
Served(k, u, d, seat, ack) ==
    /\ Framed(Stream(seat.rx_buffer, u))
    /\ Written(k, LinesIn(Stream(seat.rx_buffer, u)))
    /\ ack < k.next_seq
    /\ k.at # "gone" =>
           /\ seat.open
           /\ Incoming(k, Stream(k.rx_buf, d), seat.player_id, ack)

\* A client without one has yet to be accepted, was refused, or has gone.
Unserved(k, u, d, taken) ==
    /\ k.at # "gone" =>
           k.at \in {"outside", "joining"} /\ k.rx_buf = <<>> /\ d = <<>>
    /\ ~taken => u = <<>>

Ack(id) == players[id].last_processed_input_seq

ConnOK(c) ==
    /\ Prepared(client[c])
    /\ c \in DOMAIN clients =>
           Served(client[c], up[c], down[c], clients[c],
                  Ack(clients[c].player_id))
    /\ c \notin DOMAIN clients =>
           Unserved(client[c], up[c], down[c], c \in accepted)

BaselineInv ==
    /\ Typed
    /\ WorldMatchesClients
    /\ InStep(players)
    /\ \A c \in Conns : ConnOK(c)

\* An empty stream is whole.
LEMMA NothingOnTheWay ==
    ASSUME NEW S
    PROVE  <<>> \in Seq(S) /\ Stream(<<>>, <<>>) = <<>> /\ Framed(<<>>)
<1>1. <<>> \in Seq(S) /\ Stream(<<>>, <<>>) = <<>> /\ Len(<<>>) = 0
  BY DEF Stream
<1>2. Whole(<<>>, 0)
  BY <1>1 DEF Whole
<1> QED BY <1>1, <1>2, FramedIsWhole

\* The invariant holds before anybody has connected.
LEMMA BaselineInitOK == Init => BaselineInv
<1> SUFFICES ASSUME Init PROVE BaselineInv
  OBVIOUS
<1>1. /\ DOMAIN clients = {} /\ DOMAIN players = {}
      /\ accepted = {} /\ clock = 0 /\ tick = 0
      /\ up = [c \in Conns |-> <<>>] /\ down = [c \in Conns |-> <<>>]
      /\ client = [c \in Conns |-> NewClient]
  BY DEF Init, NoEntries
<1>2. NewClient \in ClientRecord
  <2>1. <<>> \in Seq(PiecesOf(DownLines))
    OBVIOUS
  <2>2. NoEntries \in States
    BY DEF NoEntries, States
  <2>3. 0 \in 0..MAX_PLAYERS /\ 0 \in 0..MaxTick /\ 1 \in 1..MaxSeq + 1
    BY BaselineAssumption, SeqAssumption
  <2> QED BY <2>1, <2>2, <2>3 DEF NewClient, ClientRecord
<1>3. Typed
  <2>1. <<>> \in Seq(PiecesOf(DownLines)) /\ <<>> \in Seq(PiecesOf(UpLines))
    OBVIOUS
  <2>2. 0 \in 0..MaxTick
    BY BaselineAssumption
  <2>3. clients \in [{} -> Seat] /\ players \in [{} -> Player]
    BY DEF Init, NoEntries
  <2> QED BY <1>1, <1>2, <2>1, <2>2, <2>3 DEF Typed, Worlds
<1>4. WorldMatchesClients
  BY <1>1 DEF WorldMatchesClients, IdsTaken
<1>5. InStep(players)
  BY <1>1 DEF InStep
<1>6. ASSUME NEW c \in Conns PROVE ConnOK(c)
  <2>1. client[c] = NewClient /\ up[c] = <<>> /\ down[c] = <<>>
    BY <1>1
  <2> QED BY <1>1, <2>1 DEF ConnOK, Prepared, Unserved, NewClient
<1> QED BY <1>3, <1>4, <1>5, <1>6 DEF BaselineInv

\* A step of one client, and of the bytes it reads or writes.
LEMMA ClientStepOK ==
    ASSUME BaselineInv, NEW c \in Conns, UNCHANGED <<clock, serverVars>>,
           NEW k \in ClientRecord, NEW u \in Seq(PiecesOf(UpLines)),
           NEW d \in Seq(PiecesOf(DownLines)),
           client' = [client EXCEPT ![c] = k],
           up' = [up EXCEPT ![c] = u],
           down' = [down EXCEPT ![c] = d],
           Prepared(k),
           c \in DOMAIN clients =>
               Served(k, u, d, clients[c], Ack(clients[c].player_id)),
           c \notin DOMAIN clients => Unserved(k, u, d, c \in accepted)
    PROVE  BaselineInv'
<1>1. /\ clock' = clock /\ accepted' = accepted /\ clients' = clients
      /\ players' = players /\ tick' = tick
  BY DEF serverVars
<1>2. Typed'
  BY <1>1 DEF BaselineInv, Typed, Worlds
<1>3. WorldMatchesClients' /\ InStep(players)'
  BY <1>1 DEF BaselineInv, WorldMatchesClients, IdsTaken
<1>4. ASSUME NEW o \in Conns PROVE ConnOK(o)'
  <2>1. CASE o = c
    <3>1. client'[o] = k /\ up'[o] = u /\ down'[o] = d
      BY <2>1 DEF BaselineInv, Typed
    <3> QED BY <1>1, <2>1, <3>1 DEF ConnOK, Ack
  <2>2. CASE o # c
    <3>1. client'[o] = client[o] /\ up'[o] = up[o] /\ down'[o] = down[o]
      BY <2>2 DEF BaselineInv, Typed
    <3>2. ConnOK(o)
      BY DEF BaselineInv
    <3> QED BY <1>1, <3>1, <3>2 DEF ConnOK, Ack
  <2> QED BY <2>1, <2>2
<1> QED BY <1>2, <1>3, <1>4 DEF BaselineInv

\* The connection of a client, before a step of it.
LEMMA ConnNow ==
    ASSUME BaselineInv, NEW c \in Conns
    PROVE  /\ client[c] \in ClientRecord
           /\ up[c] \in Seq(PiecesOf(UpLines))
           /\ down[c] \in Seq(PiecesOf(DownLines))
           /\ up = [up EXCEPT ![c] = up[c]]
           /\ down = [down EXCEPT ![c] = down[c]]
           /\ Prepared(client[c])
           /\ c \in DOMAIN clients =>
                  /\ clients[c] \in Seat
                  /\ clients[c].player_id \in DOMAIN players
                  /\ Ack(clients[c].player_id) \in Nat
                  /\ Served(client[c], up[c], down[c], clients[c],
                            Ack(clients[c].player_id))
           /\ c \notin DOMAIN clients =>
                  Unserved(client[c], up[c], down[c], c \in accepted)
<1>1. /\ client[c] \in ClientRecord
      /\ up[c] \in Seq(PiecesOf(UpLines))
      /\ down[c] \in Seq(PiecesOf(DownLines))
      /\ up = [up EXCEPT ![c] = up[c]]
      /\ down = [down EXCEPT ![c] = down[c]]
  BY DEF BaselineInv, Typed
<1>2. /\ Prepared(client[c])
      /\ c \in DOMAIN clients =>
             Served(client[c], up[c], down[c], clients[c],
                    Ack(clients[c].player_id))
      /\ c \notin DOMAIN clients =>
             Unserved(client[c], up[c], down[c], c \in accepted)
  BY DEF BaselineInv, ConnOK
<1>3. ASSUME c \in DOMAIN clients
      PROVE  /\ clients[c] \in Seat
             /\ clients[c].player_id \in DOMAIN players
             /\ Ack(clients[c].player_id) \in Nat
  <2>1. clients[c] \in Seat /\ clients[c].player_id \in DOMAIN players
    BY <1>3 DEF BaselineInv, Typed, WorldMatchesClients, IdsTaken
  <2>2. players[clients[c].player_id] \in Player
    BY <2>1 DEF BaselineInv, Typed, Worlds
  <2> QED BY <2>1, <2>2 DEF Ack, Player, Seqs
<1> QED BY <1>1, <1>2, <1>3

-----------------------------------------------------------------------------
\* The steps of a client.
LEMMA ConnectOK ==
    ASSUME BaselineInv, NEW c \in Conns, Connect(c)
    PROVE  BaselineInv'
<1> DEFINE k == [client[c] EXCEPT !.at = "joining"]
<1>1. /\ client[c].at = "outside"
      /\ client' = [client EXCEPT ![c] = k]
      /\ UNCHANGED <<clock, serverVars, up, down>>
  BY DEF Connect
<1>2. /\ k \in ClientRecord /\ k.at = "joining"
      /\ k.rx_buf = client[c].rx_buf /\ k.next_seq = client[c].next_seq
      /\ k.in_queue = client[c].in_queue /\ k.out_queue = client[c].out_queue
      /\ k.pending = client[c].pending
  BY ConnNow DEF ClientRecord
<1> HIDE DEF k
<1>3. Prepared(k)
  BY <1>1, <1>2, ConnNow DEF Prepared
<1>4. ASSUME c \in DOMAIN clients
      PROVE  Served(k, up[c], down[c], clients[c], Ack(clients[c].player_id))
  BY <1>1, <1>2, <1>4, ConnNow DEF Served, Written, Incoming
<1>5. ASSUME c \notin DOMAIN clients
      PROVE  Unserved(k, up[c], down[c], c \in accepted)
  BY <1>1, <1>2, <1>5, ConnNow DEF Unserved
<1> QED BY <1>1, <1>2, <1>3, <1>4, <1>5, ConnNow, ClientStepOK

\* A client that gives up connecting keeps the invariant.
LEMMA GivesUpOK ==
    ASSUME BaselineInv, NEW c \in Conns, GivesUp(c)
    PROVE  BaselineInv'
<1> DEFINE k == [client[c] EXCEPT !.at = "gone"]
<1>1. /\ client[c].at = "joining"
      /\ client' = [client EXCEPT ![c] = k]
      /\ UNCHANGED <<clock, serverVars, up, down>>
  BY DEF GivesUp
<1>2. /\ k \in ClientRecord /\ k.at = "gone"
      /\ k.rx_buf = client[c].rx_buf /\ k.next_seq = client[c].next_seq
      /\ k.in_queue = client[c].in_queue /\ k.out_queue = client[c].out_queue
      /\ k.pending = client[c].pending
  BY ConnNow DEF ClientRecord
<1> HIDE DEF k
<1>3. Prepared(k)
  BY <1>1, <1>2, ConnNow DEF Prepared
<1>4. ASSUME c \in DOMAIN clients
      PROVE  Served(k, up[c], down[c], clients[c], Ack(clients[c].player_id))
  BY <1>1, <1>2, <1>4, ConnNow DEF Served, Written
<1>5. ASSUME c \notin DOMAIN clients
      PROVE  Unserved(k, up[c], down[c], c \in accepted)
  BY <1>1, <1>2, <1>5, ConnNow DEF Unserved
<1> QED BY <1>1, <1>2, <1>3, <1>4, <1>5, ConnNow, ClientStepOK

\* In its main loop a client has a seat, and is sent its own snapshots.
LEMMA InTheLoop ==
    ASSUME BaselineInv, NEW c \in Conns,
           client[c].at \in {"releasing", "draining"}
    PROVE  /\ c \in DOMAIN clients
           /\ clients[c].open
           /\ Incoming(client[c], Stream(client[c].rx_buf, down[c]),
                       clients[c].player_id, Ack(clients[c].player_id))
BY ConnNow DEF Unserved, Served

\* A client with nothing to show goes on, and keeps the invariant.
LEMMA ClientWaitsOK ==
    ASSUME BaselineInv, NEW c \in Conns, ClientWaits(c)
    PROVE  BaselineInv'
<1> DEFINE k == [client[c] EXCEPT !.at = "draining"]
<1>1. /\ client[c].at = "releasing"
      /\ client' = [client EXCEPT ![c] = k]
      /\ UNCHANGED <<clock, serverVars, up, down>>
  BY DEF ClientWaits
<1>2. /\ k \in ClientRecord /\ k.at = "draining" /\ k.my_pid = client[c].my_pid
      /\ k.rx_buf = client[c].rx_buf /\ k.next_seq = client[c].next_seq
      /\ k.in_queue = client[c].in_queue /\ k.out_queue = client[c].out_queue
      /\ k.pending = client[c].pending
  BY ConnNow DEF ClientRecord
<1> HIDE DEF k
<1>3. Prepared(k)
  BY <1>1, <1>2, ConnNow DEF Prepared
<1>4. c \in DOMAIN clients
  BY <1>1, InTheLoop
<1>5. Served(k, up[c], down[c], clients[c], Ack(clients[c].player_id))
  BY <1>1, <1>2, <1>4, ConnNow DEF Served, Written, Incoming
<1> QED BY <1>1, <1>2, <1>3, <1>4, <1>5, ConnNow, ClientStepOK

\* An input, queued and recorded as pending, keeps the invariant.
LEMMA ClientInputsOK ==
    ASSUME BaselineInv, NEW c \in Conns, ClientInputs(c)
    PROVE  BaselineInv'
<1> DEFINE seq == client[c].next_seq
           id  == clients[c].player_id
           all == client[c].pending \cup {seq}
           line == [deliver_at_ms |-> clock + Latency, data |-> IN_(seq, Move)]
<1>1. PICK kept \in BOOLEAN :
          client' =
              [client EXCEPT
                  ![c].out_queue = IF kept THEN @ \cup {Delayed(IN_(seq, Move))}
                                   ELSE @,
                  ![c].pending = IF Cardinality(@ \cup {seq}) > MaxPending
                                 THEN {} ELSE @ \cup {seq},
                  ![c].next_seq = seq + 1,
                  ![c].at = "draining"]
  BY DEF ClientInputs
<1>2. /\ client[c].at = "releasing" /\ seq <= MaxSeq
      /\ UNCHANGED <<clock, serverVars, up, down>>
  BY DEF ClientInputs
<1> DEFINE out == IF kept THEN client[c].out_queue \cup {line}
                  ELSE client[c].out_queue
           pending == IF Cardinality(all) > MaxPending THEN {} ELSE all
           k == [client[c] EXCEPT !.out_queue = out, !.pending = pending,
                                  !.next_seq = seq + 1, !.at = "draining"]
<1>3. client' = [client EXCEPT ![c] = k]
  BY <1>1 DEF Delayed
<1>4. client[c] \in ClientRecord /\ seq \in 1..MaxSeq /\ seq + 1 \in 1..MaxSeq + 1
  <2>1. client[c] \in ClientRecord
    BY ConnNow
  <2>2. seq \in 1..MaxSeq + 1
    BY <2>1 DEF ClientRecord
  <2> QED BY <1>2, <2>1, <2>2, SeqAssumption
<1>5. line \in [deliver_at_ms : Nat, data : InLines]
      /\ line.data = IN_(seq, Move)
  BY <1>4, BaselineAssumption DEF BaselineInv, Typed, InLines
<1>6. out \in SUBSET [deliver_at_ms : Nat, data : InLines]
      /\ all \in SUBSET (1..MaxSeq) /\ pending \in SUBSET (1..MaxSeq)
  BY <1>4, <1>5 DEF ClientRecord
<1> HIDE DEF line
<1>7. \A d \in out : d \in client[c].out_queue \/ d = line
  OBVIOUS
<1> HIDE DEF pending, all, out
<1>8. /\ k \in ClientRecord /\ k.at = "draining" /\ k.my_pid = client[c].my_pid
      /\ k.rx_buf = client[c].rx_buf /\ k.next_seq = seq + 1
      /\ k.in_queue = client[c].in_queue /\ k.out_queue = out
      /\ k.pending = pending
  BY <1>4, <1>6 DEF ClientRecord
<1> HIDE DEF k
<1>9. Prepared(client[c]) /\ c \in DOMAIN clients
  BY <1>2, ConnNow, InTheLoop
<1>10. Prepared(k)
  <2>1. ASSUME NEW d \in out PROVE d.data.seq < seq + 1
    <3>1. CASE d = line
      BY <1>4, <1>5, <3>1 DEF IN_
    <3>2. CASE d \in client[c].out_queue
      <4>1. d.data \in InLines /\ d.data.seq < seq
        BY <1>4, <1>9, <3>2 DEF Prepared, ClientRecord
      <4>2. d.data.seq \in 1..MaxSeq
        BY <4>1 DEF InLines, IN_
      <4> QED BY <1>4, <4>1, <4>2
    <3> QED BY <1>7, <3>1, <3>2
  <2> QED BY <1>8, <2>1 DEF Prepared
<1>11. Served(k, up[c], down[c], clients[c], Ack(id))
  <2>1. Served(client[c], up[c], down[c], clients[c], Ack(id)) /\ Ack(id) \in Nat
        /\ clients[c] \in Seat /\ up[c] \in Seq(PiecesOf(UpLines))
    BY <1>9, ConnNow
  <2>2. Written(k, LinesIn(Stream(clients[c].rx_buffer, up[c])))
    <3> DEFINE ls == LinesIn(Stream(clients[c].rx_buffer, up[c]))
    <3>1. ls \subseteq UpLines
      <4>1. clients[c].rx_buffer \in Seq(PiecesOf(UpLines))
        BY <2>1 DEF Seat
      <4>2. Stream(clients[c].rx_buffer, up[c]) \in Seq(PiecesOf(UpLines))
        BY <2>1, <4>1, StreamBegins
      <4> QED BY <4>2, LinesOf
    <3>2. Written(client[c], ls)
      BY <2>1 DEF Served
    <3> HIDE DEF ls
    <3>3. ASSUME NEW l \in ls, l.cmd = "IN" PROVE l.seq < seq + 1
      <4>1. l.seq < seq /\ l \in UpLines
        BY <3>1, <3>2, <3>3 DEF Written
      <4>2. l.seq \in 1..MaxSeq
        BY <3>3, <4>1 DEF UpLines, InLines, IN_, BYE
      <4> QED BY <1>4, <4>1, <4>2
    <3>4. Written(k, ls)
      BY <1>2, <1>8, <3>2, <3>3 DEF Written
    <3> QED BY <3>4 DEF ls
  <2>3. Ack(id) < seq /\ Ack(id) < k.next_seq
    BY <1>4, <1>8, <2>1 DEF Served
  <2>4. clients[c].open
        /\ Incoming(k, Stream(k.rx_buf, down[c]), id, Ack(id))
    BY <1>2, <1>8, InTheLoop DEF Incoming
  <2> QED BY <2>1, <2>2, <2>3, <2>4 DEF Served
<1> QED BY <1>2, <1>3, <1>8, <1>9, <1>10, <1>11, ConnNow, ClientStepOK

\* A line written behind what is under way leaves the stream whole.
LEMMA ClientWrites ==
    ASSUME BaselineInv, NEW c \in DOMAIN clients, NEW line \in UpLines
    PROVE  LET rx == clients[c].rx_buffer
               u  == With(up[c], line)
           IN  /\ u \in Seq(PiecesOf(UpLines))
               /\ Framed(Stream(rx, up[c])) => Framed(Stream(rx, u))
               /\ LinesIn(Stream(rx, u)) = LinesIn(Stream(rx, up[c])) \cup {line}
<1> DEFINE rx == clients[c].rx_buffer
           v  == up[c]
<1>1. c \in Conns
  BY DEF BaselineInv, Typed
<1>2. rx \in Seq(PiecesOf(UpLines)) /\ v \in Seq(PiecesOf(UpLines))
      /\ line \in UpLines
  BY <1>1, ConnNow DEF Seat
<1> HIDE DEF rx, v
<1> DEFINE s == Stream(rx, v)
<1>3. /\ With(v, line) \in Seq(PiecesOf(UpLines))
      /\ s \in Seq(PiecesOf(UpLines))
      /\ Stream(rx, With(v, line)) = With(s, line)
  BY <1>2, StreamWith
<1> HIDE DEF s
<1>4. /\ Framed(s) => Framed(With(s, line))
      /\ LinesIn(With(s, line)) = LinesIn(s) \cup {line}
  BY <1>3, LineAdded
<1> QED BY <1>3, <1>4 DEF rx, v, s

\* A line that leaves the client's queue keeps the invariant.
LEMMA ClientSendsOK ==
    ASSUME BaselineInv, NEW c \in Conns, NEW m \in client[c].out_queue,
           ClientSends(c, m)
    PROVE  BaselineInv'
<1> DEFINE k == [client[c] EXCEPT !.out_queue = @ \ {m}]
           u == With(up[c], m.data)
           id == clients[c].player_id
           rx == clients[c].rx_buffer
<1>1. /\ client[c].at = "draining"
      /\ client' = [client EXCEPT ![c] = k]
      /\ up' = [up EXCEPT ![c] = u]
      /\ UNCHANGED <<clock, serverVars, down>>
  BY DEF ClientSends, With
<1>2. /\ k \in ClientRecord /\ k.at = "draining" /\ k.my_pid = client[c].my_pid
      /\ k.rx_buf = client[c].rx_buf /\ k.next_seq = client[c].next_seq
      /\ k.in_queue = client[c].in_queue
      /\ k.out_queue \subseteq client[c].out_queue
      /\ k.pending = client[c].pending
  BY <1>1, ConnNow DEF ClientRecord
<1>3. Prepared(client[c]) /\ c \in DOMAIN clients
  BY <1>1, ConnNow, InTheLoop
<1>4. m.data \in InLines /\ m.data \in UpLines /\ m.data.seq < client[c].next_seq
  BY <1>3, ConnNow DEF ClientRecord, UpLines, Prepared
<1> DEFINE s == Stream(rx, up[c])
           t == Stream(rx, u)
<1>5. /\ u \in Seq(PiecesOf(UpLines))
      /\ Framed(s) => Framed(t)
      /\ LinesIn(t) = LinesIn(s) \cup {m.data}
  BY <1>3, <1>4, ClientWrites
<1> HIDE DEF k, u
<1>6. Prepared(k)
  BY <1>1, <1>2, <1>3 DEF Prepared
<1>7. Served(k, u, down[c], clients[c], Ack(id))
  <2>1. Served(client[c], up[c], down[c], clients[c], Ack(id))
    BY <1>3, ConnNow
  <2>2. Framed(t)
    BY <1>5, <2>1 DEF Served
  <2>3. Written(client[c], LinesIn(s))
    BY <2>1 DEF Served
  <2> HIDE DEF s, t
  <2>4. m.data.cmd # "BYE"
    BY <1>4 DEF InLines, IN_
  <2>5. Written(k, LinesIn(t))
    BY <1>1, <1>2, <1>4, <1>5, <2>3, <2>4 DEF Written
  <2>6. Ack(id) < k.next_seq /\ clients[c].open
        /\ Incoming(k, Stream(k.rx_buf, down[c]), id, Ack(id))
    BY <1>1, <1>2, <2>1 DEF Served, Incoming
  <2> QED BY <2>2, <2>5, <2>6 DEF Served, t
<1> QED BY <1>1, <1>2, <1>3, <1>5, <1>6, <1>7, ConnNow, ClientStepOK

\* A client that leaves keeps the invariant.
LEMMA ClientLeavesOK ==
    ASSUME BaselineInv, NEW c \in Conns, ClientLeaves(c)
    PROVE  BaselineInv'
<1> DEFINE k == [client[c] EXCEPT !.at = "gone"]
           u == With(up[c], BYE)
           id == clients[c].player_id
           rx == clients[c].rx_buffer
<1>1. /\ client[c].at = "draining"
      /\ client' = [client EXCEPT ![c] = k]
      /\ up' = [up EXCEPT ![c] = u]
      /\ UNCHANGED <<clock, serverVars, down>>
  BY DEF ClientLeaves, LoopHead, With
<1>2. /\ k \in ClientRecord /\ k.at = "gone"
      /\ k.next_seq = client[c].next_seq
      /\ k.in_queue = client[c].in_queue /\ k.out_queue = client[c].out_queue
      /\ k.pending = client[c].pending
  BY <1>1, ConnNow DEF ClientRecord
<1>3. Prepared(client[c]) /\ c \in DOMAIN clients
  BY <1>1, ConnNow, InTheLoop
<1> DEFINE s == Stream(rx, up[c])
           t == Stream(rx, u)
<1>4. /\ u \in Seq(PiecesOf(UpLines))
      /\ Framed(s) => Framed(t)
      /\ LinesIn(t) = LinesIn(s) \cup {BYE}
  <2>1. BYE \in UpLines
    BY DEF UpLines
  <2> QED BY <1>3, <2>1, ClientWrites
<1> HIDE DEF k, u
<1>5. Prepared(k)
  BY <1>1, <1>2, <1>3 DEF Prepared
<1>6. Served(k, u, down[c], clients[c], Ack(id))
  <2>1. Served(client[c], up[c], down[c], clients[c], Ack(id))
    BY <1>3, ConnNow
  <2>2. Framed(t)
    BY <1>4, <2>1 DEF Served
  <2>3. Written(client[c], LinesIn(s))
    BY <2>1 DEF Served
  <2> HIDE DEF s, t
  <2>4. BYE.cmd # "IN"
    BY DEF BYE
  <2>5. Written(k, LinesIn(t))
    BY <1>2, <1>4, <2>3, <2>4 DEF Written
  <2>6. Ack(id) < k.next_seq
    BY <1>2, <2>1 DEF Served
  <2> QED BY <1>2, <2>2, <2>5, <2>6 DEF Served, t
<1> QED BY <1>1, <1>2, <1>3, <1>4, <1>5, <1>6, ConnNow, ClientStepOK

\* A read by a client: its stream is what it was, and what it has read of it
\* is cut into lines.
LEMMA ClientReadsSome ==
    ASSUME BaselineInv, NEW c \in Conns, NEW n \in 0..Len(down[c])
    PROVE  LET b == Buffer(client[c].rx_buf, down[c], n)
               d == Unread(down[c], n)
           IN  /\ b \in Seq(PiecesOf(DownLines))
               /\ d \in Seq(PiecesOf(DownLines))
               /\ Stream(b, d) = Stream(client[c].rx_buf, down[c])
<1> DEFINE rx == client[c].rx_buf
           v  == down[c]
<1>1. /\ rx \in Seq(PiecesOf(DownLines)) /\ v \in Seq(PiecesOf(DownLines))
      /\ n \in 0..Len(v)
  BY ConnNow DEF ClientRecord
<1> HIDE DEF rx, v
<1>2. /\ Buffer(rx, v, n) \in Seq(PiecesOf(DownLines))
      /\ Unread(v, n) \in Seq(PiecesOf(DownLines))
      /\ Stream(Buffer(rx, v, n), Unread(v, n)) = Stream(rx, v)
  BY <1>1, ReadMoves
<1> QED BY <1>2 DEF rx, v

\* The JA line, which ends the wait for it, keeps the invariant.
LEMMA JoinsOK ==
    ASSUME BaselineInv, NEW c \in Conns, NEW n \in 1..Len(down[c]), Joins(c, n)
    PROVE  BaselineInv'
<1> DEFINE id == clients[c].player_id
           b  == Buffer(client[c].rx_buf, down[c], n)
           d  == Unread(down[c], n)
           s  == Stream(client[c].rx_buf, down[c])
           k  == IF Lines(b) = <<>> THEN [client[c] EXCEPT !.rx_buf = b]
                 ELSE [client[c] EXCEPT !.rx_buf = AfterFirst(b),
                                        !.my_pid = Lines(b)[1].player_id,
                                        !.at = "draining"]
<1>1. /\ client[c].at = "joining"
      /\ down' = [down EXCEPT ![c] = d]
      /\ client' = [client EXCEPT ![c] = k]
      /\ UNCHANGED <<clock, serverVars, up>>
  BY DEF Joins, Buffer, Unread
<1>2. c \in DOMAIN clients
  <2>1. down[c] # <<>>
    BY ConnNow
  <2> QED BY <1>1, <2>1, ConnNow DEF Unserved
<1>3. /\ client[c] \in ClientRecord /\ Prepared(client[c])
      /\ clients[c] \in Seat
      /\ Served(client[c], up[c], down[c], clients[c], Ack(id))
  BY <1>2, ConnNow
<1>4. n \in 0..Len(down[c])
  BY ConnNow
<1>5. /\ b \in Seq(PiecesOf(DownLines))
      /\ d \in Seq(PiecesOf(DownLines))
      /\ s = Stream(b, d)
  BY <1>4, ClientReadsSome
<1>6. /\ Framed(s) /\ Len(s) >= 2 /\ s[1].line = JA(id)
      /\ \A i \in 3..Len(s) : Own(id, Ack(id), s[i].line)
  BY <1>1, <1>3 DEF Served, Incoming
<1>6a. s \in Seq(PiecesOf(DownLines))
  BY <1>5, StreamBegins
<1> HIDE DEF b, d
<1>7. /\ k \in ClientRecord /\ Prepared(k)
      /\ k.at # "gone" /\ k.next_seq = client[c].next_seq
      /\ k.pending = client[c].pending
      /\ Incoming(k, Stream(k.rx_buf, d), id, Ack(id))
  <2>1. CASE Lines(b) = <<>>
    <3>1. k = [client[c] EXCEPT !.rx_buf = b]
      BY <2>1
    <3> HIDE DEF k, s
    <3>2. /\ k \in ClientRecord /\ k.at = "joining" /\ k.rx_buf = b
          /\ k.my_pid = client[c].my_pid /\ k.next_seq = client[c].next_seq
          /\ k.in_queue = client[c].in_queue /\ k.pending = client[c].pending
          /\ k.out_queue = client[c].out_queue
      BY <1>1, <1>3, <1>5, <3>1 DEF ClientRecord
    <3>3. Incoming(k, s, id, Ack(id))
      BY <1>6, <3>2 DEF Incoming
    <3> QED BY <1>1, <1>3, <1>5, <3>2, <3>3 DEF Prepared
  <2>2. CASE Lines(b) # <<>>
    <3> DEFINE t == Stream(AfterFirst(b), d)
    <3> HIDE DEF s
    <3>1. /\ Lines(b)[1] = s[1].line
          /\ AfterFirst(b) \in Seq(PiecesOf(DownLines))
          /\ Framed(t) /\ Len(t) = Len(s) - 2
          /\ \A i \in 1..Len(t) : t[i] = s[i + 2]
      <4> HIDE DEF k, id, t
      <4>1. /\ b \in Seq(PiecesOf(DownLines)) /\ d \in Seq(PiecesOf(DownLines))
            /\ s = Stream(b, d) /\ Framed(s) /\ Lines(b) # <<>>
        BY <1>5, <1>6, <2>2
      <4>2. FirstCut(b, d, s) /\ AfterFirst(b) \in Seq(PiecesOf(DownLines))
        BY <4>1, ReadCuts
      <4> QED BY <4>2 DEF FirstCut, t
    <3>2. Lines(b)[1].player_id = id /\ id \in 0..MAX_PLAYERS
      <4>1. id \in 0..MAX_PLAYERS
        BY <1>3, BaselineAssumption DEF Seat, PlayerIds
      <4> QED BY <1>6, <3>1, <4>1 DEF JA
    <3>3. k = [client[c] EXCEPT !.rx_buf = AfterFirst(b), !.my_pid = id,
                                !.at = "draining"]
      BY <2>2, <3>2
    <3> HIDE DEF k
    <3>4. /\ k \in ClientRecord /\ k.at = "draining"
          /\ k.rx_buf = AfterFirst(b)
          /\ k.my_pid = id /\ k.next_seq = client[c].next_seq
          /\ k.in_queue = client[c].in_queue /\ k.pending = client[c].pending
          /\ k.out_queue = client[c].out_queue
      BY <1>3, <3>1, <3>2, <3>3 DEF ClientRecord
    <3>5. k.in_queue = {} /\ k.out_queue = {}
      BY <1>1, <1>3, <3>4 DEF Prepared
    <3>6. \A i \in 1..Len(t) : i + 2 \in 3..Len(s)
      BY <1>6a, <3>1
    <3>7. \A l \in LinesIn(t) : Own(id, Ack(id), l)
      BY <1>6, <3>1, <3>6 DEF LinesIn
    <3>8. Incoming(k, t, id, Ack(id))
      BY <3>1, <3>4, <3>5, <3>7 DEF Incoming
    <3> QED BY <3>4, <3>5, <3>8 DEF Prepared
  <2> QED BY <2>1, <2>2
<1> HIDE DEF k
<1>8. Served(k, up[c], d, clients[c], Ack(id))
  BY <1>1, <1>3, <1>7 DEF Served, Written
<1> QED BY <1>1, <1>2, <1>5, <1>7, <1>8, ConnNow, ClientStepOK

\* Reading a part of the stream, whole lines or not, keeps the invariant.
LEMMA ClientReadsOK ==
    ASSUME BaselineInv, NEW c \in Conns, NEW n \in 0..Len(down[c]),
           ClientReads(c, n)
    PROVE  BaselineInv'
<1> DEFINE id == clients[c].player_id
           b  == Buffer(client[c].rx_buf, down[c], n)
           d  == Unread(down[c], n)
           s  == Stream(client[c].rx_buf, down[c])
           all == ToSet(Lines(b))
<1>1. /\ client[c].at = "draining"
      /\ down' = [down EXCEPT ![c] = d]
      /\ UNCHANGED <<clock, serverVars, up>>
  BY DEF ClientReads, LoopHead, Unread
<1>2. PICK kept \in SUBSET all :
          client' = [client EXCEPT
                        ![c].rx_buf = Rest(b),
                        ![c].in_queue = @ \cup {Delayed(line) : line \in kept},
                        ![c].at = "releasing"]
  BY DEF ClientReads, Buffer
<1> DEFINE new == {Delayed(line) : line \in kept}
           k == [client[c] EXCEPT !.rx_buf = Rest(b),
                                  !.in_queue = @ \cup new,
                                  !.at = "releasing"]
<1>3. client' = [client EXCEPT ![c] = k]
  <2> HIDE DEF new, b
  <2> QED BY <1>2 DEF new, b
<1>4. /\ c \in DOMAIN clients
      /\ client[c] \in ClientRecord /\ Prepared(client[c])
      /\ Served(client[c], up[c], down[c], clients[c], Ack(id))
  BY <1>1, InTheLoop, ConnNow
<1>5. /\ b \in Seq(PiecesOf(DownLines))
      /\ d \in Seq(PiecesOf(DownLines))
      /\ s = Stream(b, d)
  BY ClientReadsSome
<1>6. /\ Framed(s) /\ client[c].my_pid = id /\ clients[c].open
      /\ \A l \in LinesIn(s) : Own(id, Ack(id), l)
      /\ \A e \in client[c].in_queue : Own(id, Ack(id), e.data)
  BY <1>1, <1>4 DEF Served, Incoming
<1> DEFINE t == Stream(Rest(b), d)
<1> HIDE DEF b, d, s
<1>7. /\ all \subseteq LinesIn(s)
      /\ Rest(b) \in Seq(PiecesOf(DownLines))
      /\ Framed(t) /\ LinesIn(t) \subseteq LinesIn(s)
  BY <1>5, <1>6, ReadCuts
<1> HIDE DEF t, all
<1>8. ASSUME NEW e \in new
      PROVE  /\ e \in [deliver_at_ms : Nat, data : SnapshotLines]
             /\ Own(id, Ack(id), e.data)
  <2>1. PICK line \in kept : e = Delayed(line)
    OBVIOUS
  <2>2. Own(id, Ack(id), line) /\ line \in SnapshotLines
    BY <1>6, <1>7 DEF Own
  <2>3. clock + Latency \in Nat
    BY BaselineAssumption DEF BaselineInv, Typed
  <2> QED BY <2>1, <2>2, <2>3 DEF Delayed
<1> HIDE DEF new
<1>9. /\ k \in ClientRecord /\ k.at = "releasing" /\ k.my_pid = id
      /\ k.rx_buf = Rest(b) /\ k.next_seq = client[c].next_seq
      /\ k.in_queue = client[c].in_queue \cup new
      /\ k.pending = client[c].pending /\ k.out_queue = client[c].out_queue
  <2>1. client[c].in_queue \cup new
            \in SUBSET [deliver_at_ms : Nat, data : SnapshotLines]
    BY <1>4, <1>8 DEF ClientRecord
  <2> QED BY <1>4, <1>6, <1>7, <2>1 DEF ClientRecord
<1> HIDE DEF k
<1>10. Prepared(k)
  BY <1>1, <1>4, <1>9 DEF Prepared
<1>11. Incoming(k, t, id, Ack(id))
  BY <1>6, <1>7, <1>8, <1>9 DEF Incoming
<1>12. Served(k, up[c], d, clients[c], Ack(id))
  BY <1>1, <1>4, <1>6, <1>9, <1>11 DEF Served, Written, t
<1> QED BY <1>1, <1>3, <1>4, <1>5, <1>9, <1>10, <1>12, ConnNow, ClientStepOK

\* Showing a snapshot whose delay is over keeps the invariant.
LEMMA ClientReleasesOK ==
    ASSUME BaselineInv, NEW c \in Conns, NEW m \in client[c].in_queue,
           ClientReleases(c, m)
    PROVE  BaselineInv'
<1> DEFINE id == clients[c].player_id
           states == m.data.players
           shown == [i \in DOMAIN client[c].latest \cup DOMAIN states |->
                        IF i \in DOMAIN states THEN states[i]
                        ELSE client[c].latest[i]]
           kept == client[c].pending
                       \ Retired(client[c].pending, client[c].my_pid, states)
           k == [client[c] EXCEPT !.in_queue = @ \ {m},
                                  !.latest_tick = m.data.tick,
                                  !.latest = shown,
                                  !.pending = kept]
<1>1. /\ client[c].at = "releasing"
      /\ UNCHANGED <<clock, serverVars, up, down>>
  BY DEF ClientReleases
<1>2. client' = [client EXCEPT ![c] = k]
  BY DEF ClientReleases
<1>3. /\ c \in DOMAIN clients
      /\ client[c] \in ClientRecord /\ Prepared(client[c])
      /\ Served(client[c], up[c], down[c], clients[c], Ack(id))
      /\ Ack(id) \in Nat
  BY <1>1, InTheLoop, ConnNow
<1>4. client[c].my_pid = id /\ Own(id, Ack(id), m.data)
  BY <1>1, <1>3 DEF Served, Incoming
<1>5. PICK tk \in 0..MaxTick, sts \in States : m.data = SS(tk, sts)
  BY <1>4 DEF Own, SnapshotLines
<1>6. m.data.tick \in 0..MaxTick /\ states \in States
  BY <1>5 DEF SS
<1>7. shown \in States
  <2>1. PICK I \in SUBSET PlayerIds : states \in [I -> PlayerState]
    BY <1>6 DEF States
  <2>2. PICK J \in SUBSET PlayerIds : client[c].latest \in [J -> PlayerState]
    BY <1>3 DEF States, ClientRecord
  <2> HIDE DEF states
  <2>3. shown \in [I \cup J -> PlayerState] /\ I \cup J \in SUBSET PlayerIds
    BY <2>1, <2>2
  <2> HIDE DEF shown
  <2> QED BY <2>3 DEF States
<1>8. kept \in SUBSET (1..MaxSeq)
  BY <1>3 DEF ClientRecord
<1> HIDE DEF kept, shown, states
<1>9. /\ k \in ClientRecord /\ k.at = "releasing" /\ k.my_pid = id
       /\ k.rx_buf = client[c].rx_buf /\ k.next_seq = client[c].next_seq
       /\ k.in_queue \subseteq client[c].in_queue
       /\ k.out_queue = client[c].out_queue /\ k.pending = kept
  BY <1>1, <1>3, <1>4, <1>6, <1>7, <1>8 DEF ClientRecord
<1> HIDE DEF k
<1>10. Prepared(k)
  BY <1>1, <1>3, <1>9 DEF Prepared
<1>11. Served(k, up[c], down[c], clients[c], Ack(id))
  BY <1>1, <1>3, <1>9 DEF Served, Written, Incoming
<1> QED BY <1>1, <1>2, <1>3, <1>9, <1>10, <1>11, ConnNow, ClientStepOK

\* The passing of time keeps the invariant.
LEMMA AdvanceOK ==
    ASSUME BaselineInv, Advance
    PROVE  BaselineInv'
<1>1. /\ clock' = clock + 1 /\ accepted' = accepted /\ clients' = clients
      /\ players' = players /\ tick' = tick /\ up' = up /\ down' = down
      /\ client' = client
  BY DEF Advance, serverVars
<1>2. clock' \in Nat
  BY <1>1 DEF BaselineInv, Typed
<1>3. Typed'
  BY <1>1, <1>2 DEF BaselineInv, Typed, Worlds
<1>4. WorldMatchesClients' /\ InStep(players)'
  BY <1>1 DEF BaselineInv, WorldMatchesClients, IdsTaken
<1>5. \A c \in Conns : ConnOK(c)'
  BY <1>1 DEF BaselineInv, ConnOK, Ack
<1> QED BY <1>3, <1>4, <1>5 DEF BaselineInv

-----------------------------------------------------------------------------
\* The steps of the server.

\* A connection that a step of the server leaves alone.
LEMMA OtherConnOK ==
    ASSUME NEW o \in Conns, ConnOK(o),
           client'[o] = client[o], up'[o] = up[o], down'[o] = down[o],
           o \in DOMAIN clients' <=> o \in DOMAIN clients,
           o \in DOMAIN clients =>
               /\ clients'[o] = clients[o]
               /\ players'[clients[o].player_id].last_processed_input_seq
                      = players[clients[o].player_id].last_processed_input_seq,
           o \in accepted' <=> o \in accepted
    PROVE  ConnOK(o)'
<1>1. CASE o \in DOMAIN clients
  BY <1>1 DEF ConnOK, Ack
<1>2. CASE o \notin DOMAIN clients
  BY <1>2 DEF ConnOK
<1> QED BY <1>1, <1>2

\* Nobody else has the seat of a client.
LEMMA OthersSeat ==
    ASSUME BaselineInv, NEW c \in DOMAIN clients, NEW o \in DOMAIN clients,
           o # c
    PROVE  clients[o].player_id # clients[c].player_id
BY DEF BaselineInv, WorldMatchesClients

\* A newcomer, given the least free id and its JA line, keeps the invariant.
LEMMA AcceptOK ==
    ASSUME BaselineInv, NEW c \in Conns, Accept(c)
    PROVE  BaselineInv'
<1>1. /\ client[c].at # "outside" /\ c \notin accepted /\ c \notin DOMAIN clients
      /\ accepted' = accepted \cup {c}
      /\ UNCHANGED <<clock, tick, up, client>>
  BY DEF Accept, BaselineInv, Typed
<1>2. /\ Prepared(client[c]) /\ client[c] \in ClientRecord
      /\ down[c] \in Seq(PiecesOf(DownLines))
      /\ Unserved(client[c], up[c], down[c], c \in accepted)
  BY <1>1, ConnNow
<1>3. CASE UNCHANGED <<clients, players, down>>
  <2>1. Typed'
    BY <1>1, <1>3 DEF BaselineInv, Typed, Worlds
  <2>2. WorldMatchesClients' /\ InStep(players)'
    BY <1>3 DEF BaselineInv, WorldMatchesClients, IdsTaken
  <2>3. ASSUME NEW o \in Conns PROVE ConnOK(o)'
    <3>1. CASE o = c
      BY <1>1, <1>2, <1>3, <3>1 DEF ConnOK, Unserved
    <3>2. CASE o # c
      BY <1>1, <1>3, <3>2, OtherConnOK DEF BaselineInv
    <3> QED BY <3>1, <3>2
  <2> QED BY <2>1, <2>2, <2>3 DEF BaselineInv
<1>4. ASSUME NEW id \in alloc_id,
             clients' = Put(clients, c, [player_id |-> id, open |-> TRUE,
                                         rx_buffer |-> <<>>]),
             players' = add_player(players, id),
             down' = [down EXCEPT ![c] = @ \o Pieces(JA(id))]
      PROVE  BaselineInv'
  <2> DEFINE seat == [player_id |-> id, open |-> TRUE, rx_buffer |-> <<>>]
  <2>1. id \in PlayerIds /\ id \notin DOMAIN players
    BY DEF alloc_id, BaselineInv, WorldMatchesClients
  <2>2. seat \in Seat /\ seat.player_id = id /\ seat.open
        /\ seat.rx_buffer = <<>>
    BY <2>1 DEF Seat
  <2> HIDE DEF seat
  <2>3. /\ clients' \in [DOMAIN clients \cup {c} -> Seat] /\ clients'[c] = seat
        /\ \A o \in DOMAIN clients : clients'[o] = clients[o]
    <3>1. clients' = Put(clients, c, seat)
      BY <1>4 DEF seat
    <3> QED BY <1>1, <2>2, <3>1 DEF Put, BaselineInv, Typed
  <2>4. /\ players' \in [DOMAIN players \cup {id} -> Player]
        /\ players'[id] = NewPlayer
        /\ \A i \in DOMAIN players : players'[i] = players[i]
    <3>1. players \in [DOMAIN players -> Player]
      BY DEF BaselineInv, Typed, Worlds
    <3>2. add_player(players, id) \in [DOMAIN players \cup {id} -> Player]
      BY <3>1, AddPlayer
    <3>3. /\ add_player(players, id)[id] = NewPlayer
          /\ \A i \in DOMAIN players : add_player(players, id)[i] = players[i]
      BY <2>1 DEF add_player, Put
    <3> QED BY <1>4, <3>2, <3>3
  <2>5. down' = [down EXCEPT ![c] = With(down[c], JA(id))]
        /\ JA(id) \in DownLines
    BY <1>4, <2>1 DEF With, DownLines
  <2>6. With(down[c], JA(id)) \in Seq(PiecesOf(DownLines))
    BY <1>2, <2>5, LineAdded
  <2>7. Typed'
    <3>1. /\ accepted' \subseteq Conns /\ DOMAIN clients' \subseteq accepted'
          /\ clients' \in [DOMAIN clients' -> Seat]
      BY <1>1, <2>3 DEF BaselineInv, Typed
    <3>2. DOMAIN players' \subseteq PlayerIds /\ Worlds' = [DOMAIN players' -> Player]
          /\ players' \in [DOMAIN players' -> Player]
      BY <2>1, <2>4 DEF BaselineInv, Typed, Worlds
    <3>3. /\ down' \in [Conns -> Seq(PiecesOf(DownLines))]
          /\ clock' = clock /\ tick' = tick /\ up' = up /\ client' = client
      BY <1>1, <2>5, <2>6 DEF BaselineInv, Typed
    <3> QED BY <3>1, <3>2, <3>3 DEF BaselineInv, Typed
  <2>8. WorldMatchesClients'
    <3>1. \A o \in DOMAIN clients : clients[o].player_id # id
      BY <2>1 DEF BaselineInv, WorldMatchesClients, IdsTaken
    <3>2. \A o \in DOMAIN clients' :
              \/ o = c /\ clients'[o].player_id = id
              \/ o \in DOMAIN clients
                     /\ clients'[o].player_id = clients[o].player_id
      BY <2>2, <2>3
    <3>3. IdsTaken' = IdsTaken \cup {id}
      BY <1>1, <2>2, <2>3 DEF IdsTaken
    <3> QED BY <2>4, <3>1, <3>2, <3>3 DEF BaselineInv, WorldMatchesClients
  <2>9. InStep(players)'
    BY <2>4 DEF InStep, NewPlayer, BaselineInv
  <2>10. ASSUME NEW o \in Conns PROVE ConnOK(o)'
    <3>1. CASE o = c
      <4> DEFINE k == client[c]
                 s == With(<<>>, JA(id))
      <4>1. up[c] = <<>> /\ Stream(seat.rx_buffer, up[c]) = <<>>
            /\ Framed(<<>>)
        BY <1>1, <1>2, <2>2, NothingOnTheWay DEF Unserved
      <4>2. LinesIn(<<>>) = {}
        BY DEF LinesIn
      <4>3. 0 < k.next_seq
        BY <1>2 DEF ClientRecord
      <4>4. ASSUME k.at # "gone"
            PROVE  Incoming(k, Stream(k.rx_buf, With(down[c], JA(id))), id, 0)
        <5>1. k.at = "joining" /\ k.rx_buf = <<>> /\ down[c] = <<>>
              /\ k.next_seq = 1
          BY <1>1, <1>2, <4>4 DEF Unserved, Prepared
        <5>2. <<>> \in Seq(PiecesOf(DownLines)) /\ Stream(<<>>, <<>>) = <<>>
          BY NothingOnTheWay
        <5>3. Stream(<<>>, With(<<>>, JA(id))) = s
          <6> DEFINE e == <<>>
                     line == JA(id)
          <6>1. e \in Seq(PiecesOf(DownLines)) /\ line \in DownLines
            BY <2>5, <5>2
          <6> HIDE DEF e, line
          <6>2. Stream(e, With(e, line)) = With(Stream(e, e), line)
            BY <6>1, StreamWith
          <6> QED BY <5>2, <6>2 DEF e, line
        <5>4. /\ Framed(s) /\ Len(s) = 2
              /\ s[1] = Pieces(JA(id))[1]
          <6> DEFINE e == <<>>
                     line == JA(id)
          <6>1. e \in Seq(PiecesOf(DownLines)) /\ line \in DownLines
                /\ Len(e) = 0 /\ Framed(e)
            BY <2>5, <4>1, <5>2
          <6> HIDE DEF e, line
          <6>2. Framed(With(e, line)) /\ Prolonged(e, line)
            BY <6>1, LineAdded
          <6>3. Len(With(e, line)) = 2 /\ With(e, line)[1] = Pieces(line)[1]
            BY <6>1, <6>2 DEF Prolonged
          <6> QED BY <6>2, <6>3 DEF e, line
        <5>5. s[1].line = JA(id)
          BY <5>4, PartsOfPiece DEF Pieces
        <5> HIDE DEF s
        <5>6. Incoming(k, s, id, 0)
          BY <5>1, <5>4, <5>5 DEF Incoming
        <5> QED BY <5>1, <5>3, <5>6 DEF s
      <4>5. Served(k, up[c], With(down[c], JA(id)), seat, 0)
        BY <2>2, <4>1, <4>2, <4>3, <4>4 DEF Served, Written
      <4>6. players'[id].last_processed_input_seq = 0
        BY <2>4 DEF NewPlayer
      <4>7. /\ client'[c] = k /\ up'[c] = up[c]
            /\ down'[c] = With(down[c], JA(id)) /\ c \in DOMAIN clients'
        BY <1>1, <2>3, <2>5 DEF BaselineInv, Typed
      <4> QED BY <1>2, <2>2, <2>3, <3>1, <4>5, <4>6, <4>7 DEF ConnOK, Ack
    <3>2. CASE o # c
      <4>1. /\ down'[o] = down[o]
            /\ o \in DOMAIN clients' <=> o \in DOMAIN clients
            /\ o \in accepted' <=> o \in accepted
        BY <1>1, <2>3, <2>5, <3>2 DEF BaselineInv, Typed
      <4>2. ASSUME o \in DOMAIN clients
            PROVE  players'[clients[o].player_id]
                       = players[clients[o].player_id]
        BY <2>4, <4>2, ConnNow
      <4> QED BY <1>1, <2>3, <4>1, <4>2, OtherConnOK DEF BaselineInv
    <3> QED BY <3>1, <3>2
  <2> QED BY <2>7, <2>8, <2>9, <2>10 DEF BaselineInv
<1> QED BY <1>3, <1>4 DEF Accept

\* The end of a client's stream keeps the invariant: seat and player go together.
LEMMA ServerReadsEndOK ==
    ASSUME BaselineInv, NEW c \in Conns, ServerReadsEnd(c)
    PROVE  BaselineInv'
<1> DEFINE id == clients[c].player_id
<1>1. /\ c \in DOMAIN clients
      /\ clients[c].open => client[c].at = "gone"
      /\ up' = [up EXCEPT ![c] = <<>>]
      /\ players' = remove_player(players, {id})
      /\ clients' = Erase(clients, {c})
      /\ UNCHANGED <<clock, accepted, tick, down, client>>
  BY DEF ServerReadsEnd, RemoveClient
<1>2. /\ clients' \in [DOMAIN clients \ {c} -> Seat]
      /\ \A o \in DOMAIN clients \ {c} : clients'[o] = clients[o]
  BY <1>1 DEF Erase, Restrict, BaselineInv, Typed
<1>3. /\ players' \in [DOMAIN players \ {id} -> Player]
      /\ \A i \in DOMAIN players \ {id} : players'[i] = players[i]
  <2>1. players \in [DOMAIN players -> Player]
    BY DEF BaselineInv, Typed, Worlds
  <2>2. remove_player(players, {id}) \in [DOMAIN players \ {id} -> Player]
    BY <2>1, RemovePlayer
  <2>3. \A i \in DOMAIN players \ {id} :
            remove_player(players, {id})[i] = players[i]
    BY <2>1 DEF remove_player, Erase, Restrict
  <2> QED BY <1>1, <2>2, <2>3
<1>4. Typed'
  <2>1. <<>> \in Seq(PiecesOf(UpLines))
    OBVIOUS
  <2>2. /\ DOMAIN clients' \subseteq accepted
        /\ clients' \in [DOMAIN clients' -> Seat]
        /\ up' \in [Conns -> Seq(PiecesOf(UpLines))]
    BY <1>1, <1>2, <2>1 DEF BaselineInv, Typed
  <2>3. DOMAIN players' \subseteq PlayerIds
        /\ players' \in [DOMAIN players' -> Player]
    BY <1>3 DEF BaselineInv, Typed
  <2> QED BY <1>1, <2>2, <2>3 DEF BaselineInv, Typed, Worlds
<1>5. WorldMatchesClients'
  <2>1. IdsTaken' = IdsTaken \ {id}
    <3>1. \A o \in DOMAIN clients \ {c} : clients[o].player_id # id
      BY <1>1, OthersSeat
    <3>2. IdsTaken' = {clients[o].player_id : o \in DOMAIN clients \ {c}}
      BY <1>2 DEF IdsTaken
    <3>3. IdsTaken = {clients[o].player_id : o \in DOMAIN clients \ {c}} \cup {id}
      BY <1>1 DEF IdsTaken
    <3> QED BY <3>1, <3>2, <3>3
  <2> QED BY <1>2, <1>3, <2>1 DEF BaselineInv, WorldMatchesClients
<1>6. InStep(players)'
  BY <1>3 DEF InStep, BaselineInv
<1>7. ASSUME NEW o \in Conns PROVE ConnOK(o)'
  <2>1. CASE o = c
    <3>1. client[c].at = "gone" /\ c \in accepted /\ Prepared(client[c])
      BY <1>1, ConnNow DEF Served, BaselineInv, Typed
    <3>2. client'[c] = client[c] /\ c \notin DOMAIN clients' /\ c \in accepted'
      BY <1>1, <1>2, <3>1
    <3> QED BY <2>1, <3>1, <3>2 DEF ConnOK, Unserved
  <2>2. CASE o # c
    <3>1. /\ up'[o] = up[o]
          /\ o \in DOMAIN clients' <=> o \in DOMAIN clients
      BY <1>1, <1>2, <2>2 DEF BaselineInv, Typed
    <3>2. ASSUME o \in DOMAIN clients
          PROVE  /\ clients'[o] = clients[o]
                 /\ players'[clients[o].player_id]
                        = players[clients[o].player_id]
      BY <1>1, <1>2, <1>3, <2>2, <3>2, ConnNow, OthersSeat
    <3> QED BY <1>1, <3>1, <3>2, OtherConnOK DEF BaselineInv
  <2> QED BY <2>1, <2>2
<1> QED BY <1>4, <1>5, <1>6, <1>7 DEF BaselineInv

\* What the server reads of a stream, and what is left of it, is the stream.
LEMMA ServerReadsSome ==
    ASSUME BaselineInv, NEW c \in DOMAIN clients, NEW n \in 0..Len(up[c])
    PROVE  LET b == Buffer(clients[c].rx_buffer, up[c], n)
               u == Unread(up[c], n)
           IN  /\ b \in Seq(PiecesOf(UpLines))
               /\ u \in Seq(PiecesOf(UpLines))
               /\ Stream(b, u) = Stream(clients[c].rx_buffer, up[c])
<1> DEFINE rx == clients[c].rx_buffer
           v  == up[c]
<1>1. c \in Conns
  BY DEF BaselineInv, Typed
<1>2. /\ rx \in Seq(PiecesOf(UpLines)) /\ v \in Seq(PiecesOf(UpLines))
      /\ n \in 0..Len(v)
  BY <1>1, ConnNow DEF Seat
<1> HIDE DEF rx, v
<1>3. /\ Buffer(rx, v, n) \in Seq(PiecesOf(UpLines))
      /\ Unread(v, n) \in Seq(PiecesOf(UpLines))
      /\ Stream(Buffer(rx, v, n), Unread(v, n)) = Stream(rx, v)
  BY <1>2, ReadMoves
<1> QED BY <1>3 DEF rx, v

\* What has been processed of a client only grows, and what it was sent goes
\* on acknowledging no more than that.
LEMMA MoreProcessed ==
    ASSUME NEW k \in ClientRecord, NEW s, NEW id, NEW ack \in Nat,
           NEW more \in Nat, ack <= more,
           Incoming(k, s, id, ack)
    PROVE  Incoming(k, s, id, more)
<1>1. ASSUME NEW l, Own(id, ack, l) PROVE Own(id, more, l)
  <2>1. PICK tk \in 0..MaxTick, states \in States : l = SS(tk, states)
    BY <1>1 DEF Own, SnapshotLines
  <2>2. PICK I \in SUBSET PlayerIds : states \in [I -> PlayerState]
    BY DEF States
  <2>3. l.players \in [I -> PlayerState] /\ id \in I
    BY <1>1, <2>1, <2>2 DEF SS, Own
  <2>4. l.players[id].last_processed_input_seq \in Nat
    BY <2>3 DEF PlayerState, Seqs
  <2> QED BY <1>1, <2>4 DEF Own
<1> QED BY <1>1 DEF Incoming

\* Reading a part of a client's stream keeps the invariant.
LEMMA ServerReadsOK ==
    ASSUME BaselineInv, NEW c \in Conns, NEW n \in 1..Len(up[c]),
           ServerReads(c, n)
    PROVE  BaselineInv'
<1> DEFINE id == clients[c].player_id
           b  == Buffer(clients[c].rx_buffer, up[c], n)
           u  == Unread(up[c], n)
           s  == Stream(clients[c].rx_buffer, up[c])
           k  == client[c]
           read == BYE \in ToSet(Lines(b))
           seat == [clients[c] EXCEPT !.rx_buffer = Rest(b), !.open = ~read]
<1>1. /\ c \in DOMAIN clients
      /\ up' = [up EXCEPT ![c] = u]
      /\ players' = AfterLines(id, Lines(b))
      /\ UNCHANGED <<clock, accepted, tick, down, client>>
  BY DEF ServerReads, ProcessLines, Unread, Buffer
<1>2. clients' = [clients EXCEPT ![c] = seat]
  BY DEF ServerReads, ProcessLines, Buffer
<1>3. /\ k \in ClientRecord /\ Prepared(k)
      /\ clients[c] \in Seat /\ id \in DOMAIN players
      /\ Ack(id) \in Nat
      /\ Served(k, up[c], down[c], clients[c], Ack(id))
  BY <1>1, ConnNow
<1>4. /\ b \in Seq(PiecesOf(UpLines)) /\ u \in Seq(PiecesOf(UpLines))
      /\ s = Stream(b, u)
  <2>1. n \in 0..Len(up[c])
    BY ConnNow
  <2> QED BY <1>1, <2>1, ServerReadsSome
<1>5. Framed(s) /\ Written(k, LinesIn(s)) /\ Ack(id) < k.next_seq
  BY <1>3 DEF Served
<1> DEFINE t == Stream(Rest(b), u)
<1> HIDE DEF b, u, s
<1>6. /\ Lines(b) \in Seq(UpLines)
      /\ ToSet(Lines(b)) \subseteq LinesIn(s)
      /\ Rest(b) \in Seq(PiecesOf(UpLines))
      /\ Framed(t) /\ LinesIn(t) \subseteq LinesIn(s)
  BY <1>4, <1>5, ReadCuts
<1>7. k.at # "gone" => ~read
  <2>1. k.at # "gone" => BYE \notin LinesIn(s)
    BY <1>5 DEF Written, BYE
  <2> QED BY <1>6, <2>1
<1>8. Follows(players, players', id, k.next_seq)
  <2> DEFINE lines == Lines(b)
  <2>1. \A l \in ToSet(lines) : l.cmd = "IN" => l.seq < k.next_seq
    BY <1>5, <1>6 DEF Written
  <2>2. lines \in Seq(UpLines) /\ k.next_seq \in Nat
    BY <1>3, <1>6, SeqAssumption DEF ClientRecord
  <2>3. /\ players \in Worlds /\ InStep(players)
        /\ players[id].last_processed_input_seq < k.next_seq
    BY <1>5 DEF BaselineInv, Typed, Ack
  <2> DEFINE bound == k.next_seq
  <2> HIDE DEF lines, bound, id
  <2>4. Follows(players, AfterLines(id, lines), id, bound)
    BY <1>3, <2>1, <2>2, <2>3, AfterLinesFollow DEF bound
  <2> QED BY <1>1, <2>4 DEF lines, bound, id
<1> HIDE DEF t
<1>9. /\ seat \in Seat /\ seat.player_id = id /\ seat.rx_buffer = Rest(b)
      /\ seat.open <=> ~read
  BY <1>3, <1>6 DEF Seat
<1> HIDE DEF seat, read
<1>10. /\ clients' \in [DOMAIN clients -> Seat] /\ clients'[c] = seat
       /\ \A o \in DOMAIN clients \ {c} : clients'[o] = clients[o]
  BY <1>1, <1>2, <1>9 DEF BaselineInv, Typed
<1>11. /\ DOMAIN players' = DOMAIN players
       /\ players' \in [DOMAIN players -> Player]
       /\ \A i \in DOMAIN players \ {id} : players'[i] = players[i]
       /\ InStep(players)'
  BY <1>8 DEF Follows, InStep
<1>12. Typed'
  <2>1. up' \in [Conns -> Seq(PiecesOf(UpLines))]
    BY <1>1, <1>4 DEF BaselineInv, Typed
  <2> QED BY <1>1, <1>10, <1>11, <2>1 DEF BaselineInv, Typed, Worlds
<1>13. WorldMatchesClients'
  <2>1. DOMAIN clients' = DOMAIN clients
        /\ \A o \in DOMAIN clients :
               clients'[o].player_id = clients[o].player_id
    BY <1>9, <1>10
  <2>2. IdsTaken' = IdsTaken
    BY <2>1 DEF IdsTaken
  <2> QED BY <1>11, <2>1, <2>2 DEF BaselineInv, WorldMatchesClients
<1>14. ASSUME NEW o \in Conns PROVE ConnOK(o)'
  <2>1. CASE o = c
    <3> DEFINE more == players'[id].last_processed_input_seq
    <3>1. Ack(id) <= more /\ more < k.next_seq /\ more \in Nat
      <4>1. players'[id] \in Player
        BY <1>3, <1>11
      <4> QED BY <1>8, <4>1 DEF Follows, Ack, Player, Seqs
    <3>2. Written(k, LinesIn(t))
      BY <1>5, <1>6 DEF Written
    <3>3. ASSUME k.at # "gone"
          PROVE  seat.open /\ Incoming(k, Stream(k.rx_buf, down[c]), id, more)
      <4>1. Incoming(k, Stream(k.rx_buf, down[c]), id, Ack(id))
        BY <1>3, <3>3 DEF Served
      <4> DEFINE d == Stream(k.rx_buf, down[c])
                 ack == Ack(id)
      <4> HIDE DEF d, ack, more, k
      <4>2. Incoming(k, d, id, more)
        BY <1>3, <3>1, <4>1, MoreProcessed DEF d, ack
      <4> QED BY <1>7, <1>9, <3>3, <4>2 DEF d
    <3>4. Served(k, u, down[c], seat, more)
      BY <1>6, <1>9, <3>1, <3>2, <3>3 DEF Served, t
    <3>5. /\ client'[c] = k /\ up'[c] = u /\ down'[c] = down[c]
          /\ c \in DOMAIN clients'
      BY <1>1, <1>10 DEF BaselineInv, Typed
    <3> QED BY <1>3, <1>9, <1>10, <2>1, <3>4, <3>5 DEF ConnOK, Ack
  <2>2. CASE o # c
    <3>1. /\ up'[o] = up[o]
          /\ o \in DOMAIN clients' <=> o \in DOMAIN clients
      BY <1>1, <1>10, <2>2 DEF BaselineInv, Typed
    <3>2. ASSUME o \in DOMAIN clients
          PROVE  /\ clients'[o] = clients[o]
                 /\ players'[clients[o].player_id]
                        = players[clients[o].player_id]
      BY <1>1, <1>10, <1>11, <2>2, <3>2, ConnNow, OthersSeat
    <3> QED BY <1>1, <3>1, <3>2, OtherConnOK DEF BaselineInv
  <2> QED BY <2>1, <2>2
<1> QED BY <1>11, <1>12, <1>13, <1>14 DEF BaselineInv

\* A snapshot for a client is written to it.
LEMMA SnapshotWritten ==
    ASSUME NEW k, NEW s \in Seq(PiecesOf(DownLines)), NEW id, NEW ack,
           Incoming(k, s, id, ack), NEW line \in DownLines, Own(id, ack, line)
    PROVE  Incoming(k, With(s, line), id, ack)
<1> DEFINE t == With(s, line)
<1>1. /\ Framed(s) => Framed(t)
      /\ LinesIn(t) = LinesIn(s) \cup {line}
      /\ Prolonged(s, line)
  BY LineAdded
<1>2. Len(s) \in Nat
  OBVIOUS
<1>3. Pieces(line)[1].line = line /\ Pieces(line)[2].line = line
  BY PartsOfPiece DEF Pieces
<1> DEFINE p == Pieces(line)
<1> HIDE DEF t, p
<1>4. /\ Len(t) = Len(s) + 2
      /\ \A i \in 1..Len(s) + 2 :
             t[i] = IF i <= Len(s) THEN s[i] ELSE p[i - Len(s)]
  BY <1>1 DEF Prolonged, t, p
<1>5. ASSUME Len(s) >= 2, \A i \in 3..Len(s) : Own(id, ack, s[i].line)
      PROVE  /\ Len(t) >= 2 /\ t[1] = s[1]
             /\ \A i \in 3..Len(t) : Own(id, ack, t[i].line)
  <2>1. Len(t) >= 2 /\ t[1] = s[1]
    BY <1>2, <1>4, <1>5
  <2>2. ASSUME NEW i \in 3..Len(t) PROVE Own(id, ack, t[i].line)
    <3>1. CASE i <= Len(s)
      <4>1. i \in 3..Len(s) /\ t[i] = s[i]
        BY <1>2, <1>4, <3>1
      <4> QED BY <1>5, <4>1
    <3>2. CASE ~(i <= Len(s))
      <4>1. t[i] = p[i - Len(s)] /\ i - Len(s) \in {1, 2}
        BY <1>2, <1>4, <3>2
      <4>2. t[i].line = line
        BY <1>3, <4>1 DEF p
      <4> QED BY <4>2
    <3> QED BY <3>1, <3>2
  <2> QED BY <2>1, <2>2
<1> QED BY <1>1, <1>5 DEF Incoming, t

\* A tick, which sends every client a snapshot, keeps the invariant.
LEMMA ServerTickOK ==
    ASSUME BaselineInv, ServerTick
    PROVE  BaselineInv'
<1> DEFINE states == collect_player_states(players')
           line == SS(tick', states)
<1>1. /\ tick' = tick + 1 /\ tick < MaxTick
      /\ players' = step_tick(players)
      /\ UNCHANGED <<clock, accepted, clients, up, client>>
  BY DEF ServerTick
<1>2. /\ players' \in [DOMAIN players -> Player]
      /\ \A i \in DOMAIN players :
             /\ players'[i].last_processed_input_seq
                    = players[i].last_processed_input_seq
             /\ players'[i].latest_seen_seq = players[i].latest_seen_seq
  <2>1. players \in [DOMAIN players -> Player]
    BY DEF BaselineInv, Typed, Worlds
  <2>2. step_tick(players) \in [DOMAIN players -> Player]
    BY <2>1, StepTick
  <2>3. \A i \in DOMAIN players :
            /\ step_tick(players)[i].last_processed_input_seq
                   = players[i].last_processed_input_seq
            /\ step_tick(players)[i].latest_seen_seq
                   = players[i].latest_seen_seq
    BY <2>1 DEF step_tick, Player
  <2> QED BY <1>1, <2>2, <2>3
<1>3. tick' \in 0..MaxTick
  BY <1>1, BaselineAssumption DEF BaselineInv, Typed
<1>4. /\ states \in [DOMAIN players -> PlayerState]
      /\ \A i \in DOMAIN players :
             states[i].last_processed_input_seq
                 = players[i].last_processed_input_seq
  <2>1. states \in [DOMAIN players -> PlayerState]
    BY <1>2, CollectStates
  <2>2. \A i \in DOMAIN players :
            states[i].last_processed_input_seq
                = players'[i].last_processed_input_seq
    BY <1>2 DEF collect_player_states
  <2> QED BY <1>2, <2>1, <2>2
<1>5. line \in SnapshotLines /\ line \in DownLines
  <2> HIDE DEF states
  <2>1. states \in States
    BY <1>4 DEF BaselineInv, Typed, States
  <2> QED BY <1>3, <2>1 DEF SnapshotLines, DownLines
<1>6. \A i \in DOMAIN players : Own(i, Ack(i), line)
  <2> HIDE DEF states
  <2>1. line.players = states
    BY DEF SS
  <2>2. \A i \in DOMAIN players : i \in DOMAIN states /\ Ack(i) \in Nat
    BY <1>4 DEF BaselineInv, Typed, Worlds, Player, Seqs, Ack
  <2> HIDE DEF line
  <2> QED BY <1>4, <1>5, <2>1, <2>2 DEF Own, Ack
<1>7. ASSUME NEW o \in Conns
      PROVE  \/ down'[o] = down[o]
             \/ o \in DOMAIN clients /\ down'[o] = With(down[o], line)
  BY DEF ServerTick, With, BaselineInv, Typed
<1>8. down' \in [Conns -> Seq(PiecesOf(DownLines))]
  <2>1. down' = [o \in Conns |-> down'[o]]
    BY DEF ServerTick, BaselineInv, Typed
  <2>2. ASSUME NEW o \in Conns PROVE down'[o] \in Seq(PiecesOf(DownLines))
    <3>1. With(down[o], line) \in Seq(PiecesOf(DownLines))
      <4> DEFINE v == down[o]
      <4> HIDE DEF v, line
      <4>1. v \in Seq(PiecesOf(DownLines))
        BY ConnNow DEF v
      <4> QED BY <1>5, <4>1, LineAdded DEF v
    <3> QED BY <1>7, <3>1, ConnNow
  <2> QED BY <2>1, <2>2
<1> HIDE DEF line
<1>9. Typed'
  BY <1>1, <1>2, <1>3, <1>8 DEF BaselineInv, Typed, Worlds
<1>10. WorldMatchesClients' /\ InStep(players)'
  BY <1>1, <1>2 DEF BaselineInv, WorldMatchesClients, IdsTaken, InStep
<1>11. ASSUME NEW o \in Conns PROVE ConnOK(o)'
  <2>1. CASE down'[o] = down[o]
    <3>1. ASSUME o \in DOMAIN clients
          PROVE  players'[clients[o].player_id].last_processed_input_seq
                     = players[clients[o].player_id].last_processed_input_seq
      BY <1>2, <3>1, ConnNow
    <3> QED BY <1>1, <2>1, <3>1, OtherConnOK DEF BaselineInv
  <2>2. CASE o \in DOMAIN clients /\ down'[o] = With(down[o], line)
    <3> DEFINE id == clients[o].player_id
               k  == client[o]
               d  == With(down[o], line)
               ack == Ack(id)
    <3>1. /\ Prepared(k) /\ k \in ClientRecord /\ id \in DOMAIN players
          /\ Served(k, up[o], down[o], clients[o], ack)
      BY <2>2, ConnNow
    <3>2. players'[id].last_processed_input_seq = ack
      BY <1>2, <3>1 DEF Ack
    <3>3. ASSUME k.at # "gone"
          PROVE  Incoming(k, Stream(k.rx_buf, d), id, ack)
      <4> DEFINE rx == k.rx_buf
                 v == down[o]
      <4>1. rx \in Seq(PiecesOf(DownLines)) /\ v \in Seq(PiecesOf(DownLines))
        BY <3>1, ConnNow DEF ClientRecord
      <4>2. Incoming(k, Stream(rx, v), id, ack) /\ Own(id, ack, line)
        BY <1>6, <3>1, <3>3 DEF Served
      <4> HIDE DEF rx, v, k, id, ack
      <4> DEFINE s == Stream(rx, v)
      <4>3. s \in Seq(PiecesOf(DownLines))
            /\ Stream(rx, With(v, line)) = With(s, line)
        BY <1>5, <4>1, StreamWith
      <4> HIDE DEF s
      <4>4. Incoming(k, With(s, line), id, ack)
        <5>1. Incoming(k, s, id, ack)
          BY <4>2 DEF s
        <5> QED BY <1>5, <4>2, <4>3, <5>1, SnapshotWritten
      <4> QED BY <4>3, <4>4 DEF rx, v
    <3>4. Served(k, up[o], d, clients[o], ack)
      BY <3>1, <3>3 DEF Served
    <3>5. /\ client'[o] = k /\ up'[o] = up[o] /\ down'[o] = d
          /\ clients'[o] = clients[o] /\ o \in DOMAIN clients'
      BY <1>1, <2>2
    <3> QED BY <3>1, <3>2, <3>4, <3>5 DEF ConnOK, Ack
  <2> QED BY <1>7, <2>1, <2>2
<1> QED BY <1>9, <1>10, <1>11 DEF BaselineInv

-----------------------------------------------------------------------------
\* Every step of server, client and network keeps the invariant.
LEMMA BaselineNextOK == BaselineInv /\ [Next]_baselineVars => BaselineInv'
<1> SUFFICES ASSUME BaselineInv, [Next]_baselineVars PROVE BaselineInv'
  OBVIOUS
<1>1. CASE ServerNext
  <2>1. ASSUME NEW c \in Conns, Accept(c) PROVE BaselineInv'
    BY <2>1, AcceptOK
  <2>2. ASSUME NEW c \in Conns, NEW n \in 1..Len(up[c]), ServerReads(c, n)
        PROVE  BaselineInv'
    BY <2>2, ServerReadsOK
  <2>3. ASSUME NEW c \in Conns, ServerReadsEnd(c) PROVE BaselineInv'
    BY <2>3, ServerReadsEndOK
  <2>4. CASE ServerTick
    BY <2>4, ServerTickOK
  <2> QED BY <1>1, <2>1, <2>2, <2>3, <2>4 DEF ServerNext
<1>2. ASSUME NEW c \in Conns, ClientNext(c) PROVE BaselineInv'
  <2>1. CASE Connect(c)
    BY <2>1, ConnectOK
  <2>2. ASSUME NEW n \in 1..Len(down[c]), Joins(c, n) PROVE BaselineInv'
    BY <2>2, JoinsOK
  <2>3. CASE GivesUp(c)
    BY <2>3, GivesUpOK
  <2>4. ASSUME NEW n \in 0..Len(down[c]), ClientReads(c, n) PROVE BaselineInv'
    BY <2>4, ClientReadsOK
  <2>5. ASSUME NEW m \in client[c].in_queue, ClientReleases(c, m)
        PROVE  BaselineInv'
    BY <2>5, ClientReleasesOK
  <2>6. CASE ClientInputs(c)
    BY <2>6, ClientInputsOK
  <2>7. CASE ClientWaits(c)
    BY <2>7, ClientWaitsOK
  <2>8. ASSUME NEW m \in client[c].out_queue, ClientSends(c, m)
        PROVE  BaselineInv'
    BY <2>8, ClientSendsOK
  <2>9. CASE ClientLeaves(c)
    BY <2>9, ClientLeavesOK
  <2> QED BY <1>2, <2>1, <2>2, <2>3, <2>4, <2>5, <2>6, <2>7, <2>8, <2>9
          DEF ClientNext
<1>3. CASE Advance
  BY <1>3, AdvanceOK
<1>4. CASE UNCHANGED baselineVars
  <2>1. /\ clock' = clock /\ accepted' = accepted /\ clients' = clients
        /\ players' = players /\ tick' = tick /\ up' = up /\ down' = down
        /\ client' = client
    BY <1>4 DEF baselineVars, serverVars
  <2>2. Typed'
    BY <2>1 DEF BaselineInv, Typed, Worlds
  <2>3. WorldMatchesClients' /\ InStep(players)'
    BY <2>1 DEF BaselineInv, WorldMatchesClients, IdsTaken
  <2>4. \A c \in Conns : ConnOK(c)'
    BY <2>1 DEF BaselineInv, ConnOK, Ack
  <2> QED BY <2>2, <2>3, <2>4 DEF BaselineInv
<1> QED BY <1>1, <1>2, <1>3, <1>4 DEF Next

\* The invariant of the baseline mode.
THEOREM BaselineInvariant == Spec => []BaselineInv
BY BaselineInitOK, BaselineNextOK, PTL DEF Spec

\* Every variable of the baseline mode keeps its type.
THEOREM BaselineTypeCorrect == Spec => []BaselineTypeOK
<1>1. ASSUME BaselineInv PROVE BaselineTypeOK
  <2>1. ASSUME NEW c \in DOMAIN clients PROVE clients[c].player_id \in PlayerIds
    BY <1>1 DEF BaselineInv, Typed, Seat
  <2>2. ASSUME NEW c \in Conns
        PROVE  /\ client[c].my_pid \in 0..MAX_PLAYERS
               /\ client[c].pending \subseteq 1..MaxSeq
               /\ client[c].latest_tick \in 0..MaxTick
               /\ \A d \in client[c].in_queue : d.data.cmd = "SS"
               /\ \A d \in client[c].out_queue : d.data.cmd = "IN"
    <3>1. client[c] \in ClientRecord
      BY <1>1, ConnNow
    <3>2. \A l \in SnapshotLines : l.cmd = "SS"
      BY DEF SnapshotLines, SS
    <3>3. \A l \in InLines : l.cmd = "IN"
      BY DEF InLines, IN_
    <3> QED BY <3>1, <3>2, <3>3 DEF ClientRecord
  <2> QED BY <1>1, <2>1, <2>2 DEF BaselineInv, Typed, Worlds, BaselineTypeOK
<1> QED BY <1>1, BaselineInvariant, PTL

\* No two clients have the same id, and the world simulates the players of
\* the clients and no others, however connections come and go.
THEOREM SeatsMatchWorld == Spec => []WorldMatchesClients
<1>1. BaselineInv => WorldMatchesClients
  BY DEF BaselineInv
<1> QED BY <1>1, BaselineInvariant, PTL

\* Lines stay whole in both directions, wherever the reads end.
THEOREM LinesStayWhole == Spec => []StreamsFramed
<1>1. ASSUME BaselineInv PROVE StreamsFramed
  <2>1. ASSUME NEW c \in DOMAIN clients
        PROVE  Framed(clients[c].rx_buffer \o up[c])
    <3>1. c \in Conns
      BY <1>1 DEF BaselineInv, Typed
    <3> QED BY <1>1, <3>1, ConnNow DEF Served, Stream
  <2>2. ASSUME NEW c \in Conns, client[c].at # "gone"
        PROVE  Framed(client[c].rx_buf \o down[c])
    <3>1. CASE c \in DOMAIN clients
      BY <1>1, <2>2, <3>1, ConnNow DEF Served, Incoming, Stream
    <3>2. CASE c \notin DOMAIN clients
      <4>1. client[c].rx_buf = <<>> /\ down[c] = <<>>
        BY <1>1, <2>2, <3>2, ConnNow DEF Unserved
      <4> QED BY <4>1, NothingOnTheWay DEF Stream
    <3> QED BY <3>1, <3>2
  <2> QED BY <2>1, <2>2 DEF StreamsFramed
<1> QED BY <1>1, BaselineInvariant, PTL

\* A client in its main loop has a seat.
LEMMA JoinedInLoop ==
    ASSUME BaselineInv, NEW c \in Joined
    PROVE  /\ c \in Conns /\ c \in DOMAIN clients
           /\ client[c].my_pid = clients[c].player_id
           /\ Ack(clients[c].player_id) < client[c].next_seq
           /\ Incoming(client[c], Stream(client[c].rx_buf, down[c]),
                       clients[c].player_id, Ack(clients[c].player_id))
<1>1. c \in Conns /\ client[c].at \in {"releasing", "draining"}
  BY DEF Joined
<1>2. c \in DOMAIN clients
  BY <1>1, InTheLoop
<1>3. Served(client[c], up[c], down[c], clients[c], Ack(clients[c].player_id))
  BY <1>1, <1>2, ConnNow
<1> QED BY <1>1, <1>2, <1>3 DEF Served, Incoming

\* Every snapshot on its way to a client has the client in it, and
\* acknowledges only inputs it has made: never those of the client that had
\* the id before, though ids are given away again at once.
THEOREM OwnAcks == Spec => []AcksAreOwn
<1>1. ASSUME BaselineInv PROVE AcksAreOwn
  <2> SUFFICES ASSUME NEW c \in Joined, NEW l \in OnTheWay(c)
               PROVE  /\ client[c].my_pid \in DOMAIN l.players
                      /\ l.players[client[c].my_pid].last_processed_input_seq
                             < client[c].next_seq
    BY DEF AcksAreOwn
  <2> DEFINE id == clients[c].player_id
             ack == Ack(id)
             s == Stream(client[c].rx_buf, down[c])
             k == client[c]
  <2>1. /\ c \in Conns /\ c \in DOMAIN clients /\ k.my_pid = id
        /\ ack < k.next_seq /\ Incoming(k, s, id, ack)
    BY <1>1, JoinedInLoop
  <2>2. /\ Framed(s)
        /\ \A m \in LinesIn(s) : Own(id, ack, m)
        /\ \A d \in k.in_queue : Own(id, ack, d.data)
    BY <2>1 DEF Incoming, Joined
  <2>3. ack \in Nat /\ k \in ClientRecord /\ down[c] \in Seq(PiecesOf(DownLines))
    BY <1>1, <2>1, ConnNow
  <2>4. ToSet(Lines(s)) \subseteq LinesIn(s)
    <3> DEFINE rx == k.rx_buf
               v  == down[c]
    <3>1. rx \in Seq(PiecesOf(DownLines)) /\ v \in Seq(PiecesOf(DownLines))
      BY <2>3 DEF ClientRecord
    <3> HIDE DEF rx, v
    <3> DEFINE st == Stream(rx, v)
               e == <<>>
    <3>2. st \in Seq(PiecesOf(DownLines))
      BY <3>1, StreamBegins
    <3>3. Framed(st)
      BY <2>2 DEF rx, v
    <3> HIDE DEF st
    <3>4. st = Stream(st, e) /\ e \in Seq(PiecesOf(DownLines))
      BY <3>2, ConcatEmptySeq DEF Stream
    <3> HIDE DEF e
    <3>5. ToSet(Lines(st)) \subseteq LinesIn(st)
      BY <3>2, <3>3, <3>4, ReadCuts
    <3> QED BY <3>5 DEF st, rx, v
  <2>5. Own(id, ack, l)
    <3>1. l \in ToSet(Lines(s)) \/ l \in {d.data : d \in k.in_queue}
      BY DEF OnTheWay, Stream
    <3> QED BY <2>2, <2>4, <3>1
  <2>6. l.players[id].last_processed_input_seq \in Nat
    <3>1. PICK tk \in 0..MaxTick, states \in States : l = SS(tk, states)
      BY <2>5 DEF Own, SnapshotLines
    <3>2. PICK I \in SUBSET PlayerIds : states \in [I -> PlayerState]
      BY DEF States
    <3>3. l.players \in [I -> PlayerState] /\ id \in I
      BY <2>5, <3>1, <3>2 DEF SS, Own
    <3> QED BY <3>3 DEF PlayerState, Seqs
  <2>7. k.next_seq \in Nat
    BY <2>3, SeqAssumption DEF ClientRecord
  <2> HIDE DEF ack
  <2> QED BY <2>1, <2>3, <2>5, <2>6, <2>7 DEF Own
<1> QED BY <1>1, BaselineInvariant, PTL

\* The inputs that a snapshot retires have been processed.
LEMMA RetiredAreProcessed ==
    ASSUME BaselineInv, NEW c \in Joined, NEW m \in client[c].in_queue,
           NEW seq \in Retired(client[c].pending, client[c].my_pid,
                               m.data.players)
    PROVE  seq <= Ack(clients[c].player_id)
<1> DEFINE id == clients[c].player_id
           states == m.data.players
<1>1. /\ c \in Conns /\ c \in DOMAIN clients /\ client[c].my_pid = id
      /\ Incoming(client[c], Stream(client[c].rx_buf, down[c]), id, Ack(id))
  BY JoinedInLoop
<1>2. Own(id, Ack(id), m.data)
  BY <1>1 DEF Incoming, Joined
<1>3. client[c] \in ClientRecord /\ Ack(id) \in Nat
  BY <1>1, ConnNow
<1>4. PICK tk \in 0..MaxTick, sts \in States : m.data = SS(tk, sts)
  BY <1>2 DEF Own, SnapshotLines
<1>5. PICK I \in SUBSET PlayerIds : states \in [I -> PlayerState]
  BY <1>4 DEF SS, States
<1>6. /\ id \in DOMAIN states
      /\ seq \in client[c].pending
      /\ seq <= states[id].last_processed_input_seq
      /\ states[id].last_processed_input_seq <= Ack(id)
  BY <1>1, <1>2 DEF Retired, Own
<1> HIDE DEF states
<1>7. states[id].last_processed_input_seq \in Int
  BY <1>5, <1>6 DEF PlayerState, Seqs
<1>8. seq \in Int
  BY <1>3, <1>6 DEF ClientRecord
<1> QED BY <1>3, <1>6, <1>7, <1>8

\* More than MaxPending inputs with the next one are at least MaxPending now.
LEMMA PendingFull ==
    ASSUME NEW pending \in SUBSET (1..MaxSeq), NEW seq,
           Cardinality(pending \cup {seq}) > MaxPending
    PROVE  Cardinality(pending) >= MaxPending
<1>1. IsFiniteSet(pending)
  <2>1. IsFiniteSet(1..MaxSeq)
    BY FS_Interval, SeqAssumption
  <2> QED BY <2>1, FS_Subset
<1>2. /\ Cardinality(pending) \in Nat
      /\ Cardinality(pending \cup {seq}) \in
             {Cardinality(pending), Cardinality(pending) + 1}
  BY <1>1, FS_CardinalityType, FS_AddElement
<1> QED BY <1>2, BaselineAssumption

\* An input a client in the game waits for is dropped only when the server has
\* processed it or a newer one, or when too many are pending and all are
\* dropped: nothing is logged as a round trip that was none.
THEOREM PendingLeftForCause == Spec => PendingLeavesForCause
<1> DEFINE A == \A c \in Joined :
                    \A seq \in client[c].pending \ client'[c].pending :
                        \/ /\ c \in DOMAIN clients
                           /\ seq <= players[clients[c].player_id]
                                         .last_processed_input_seq
                        \/ /\ client'[c].next_seq = client[c].next_seq + 1
                           /\ Cardinality(client[c].pending) >= MaxPending
<1>1. ASSUME BaselineInv, Next
      PROVE  A
  <2> SUFFICES ASSUME NEW c \in Joined,
                      NEW seq \in client[c].pending \ client'[c].pending
               PROVE  \/ /\ c \in DOMAIN clients
                         /\ seq <= Ack(clients[c].player_id)
                      \/ /\ client'[c].next_seq = client[c].next_seq + 1
                         /\ Cardinality(client[c].pending) >= MaxPending
    BY DEF Ack
  <2>1. c \in Conns /\ c \in DOMAIN clients
    BY <1>1, JoinedInLoop
  <2>2. client[c] \in ClientRecord /\ client \in [Conns -> ClientRecord]
    BY <1>1, <2>1 DEF BaselineInv, Typed
  <2>3. client' # client
    OBVIOUS
  <2>4. PICK o \in Conns : ClientNext(o)
    <3>1. ~Advance /\ ~ServerNext
      BY <2>3 DEF Advance, ServerNext, Accept, ServerReads, ServerReadsEnd,
                  ServerTick
    <3> QED BY <1>1, <3>1 DEF Next
  <2>5. CASE \E m \in client[o].in_queue : ClientReleases(o, m)
    <3>1. PICK m \in client[o].in_queue : ClientReleases(o, m)
      BY <2>5
    <3> DEFINE retired == Retired(client[o].pending, client[o].my_pid,
                                  m.data.players)
    <3>2. \A x \in Conns :
              client'[x].pending = IF x = o THEN client[o].pending \ retired
                                   ELSE client[x].pending
      <4> HIDE DEF retired
      <4>1. PICK shown :
                client' = [client EXCEPT ![o].in_queue = @ \ {m},
                                         ![o].latest_tick = m.data.tick,
                                         ![o].latest = shown,
                                         ![o].pending = @ \ retired]
        BY <3>1 DEF ClientReleases, retired
      <4> QED BY <2>2, <4>1 DEF ClientRecord
    <3>3. o = c /\ seq \in retired
      <4> HIDE DEF retired
      <4> QED BY <2>1, <3>2
    <3> QED BY <1>1, <2>1, <3>1, <3>3, RetiredAreProcessed
  <2>6. CASE ClientInputs(o)
    <3>1. /\ o = c /\ client'[c].next_seq = client[c].next_seq + 1
          /\ Cardinality(client[c].pending \cup {client[c].next_seq})
                 > MaxPending
      BY <2>2, <2>6 DEF ClientInputs, ClientRecord
    <3>2. client[c].pending \in SUBSET (1..MaxSeq)
      BY <2>2 DEF ClientRecord
    <3> QED BY <3>1, <3>2, PendingFull
  <2>7. CASE \/ Connect(o) \/ GivesUp(o) \/ ClientWaits(o) \/ ClientLeaves(o)
             \/ \E n \in 1..Len(down[o]) : Joins(o, n)
             \/ \E n \in 0..Len(down[o]) : ClientReads(o, n)
             \/ \E d \in client[o].out_queue : ClientSends(o, d)
    <3>1. CASE \/ Connect(o) \/ GivesUp(o) \/ ClientWaits(o)
               \/ ClientLeaves(o)
      <4>1. PICK at : client' = [client EXCEPT ![o].at = at]
        BY <3>1 DEF Connect, GivesUp, ClientWaits, ClientLeaves
      <4> QED BY <2>1, <2>2, <4>1 DEF ClientRecord
    <3>2. CASE \E n \in 1..Len(down[o]) : Joins(o, n)
      <4>1. PICK buffer :
                client' =
                    IF Lines(buffer) = <<>>
                    THEN [client EXCEPT ![o].rx_buf = buffer]
                    ELSE [client EXCEPT
                             ![o].rx_buf = AfterFirst(buffer),
                             ![o].my_pid = Lines(buffer)[1].player_id,
                             ![o].at = "draining"]
        BY <3>2 DEF Joins
      <4> QED BY <2>1, <2>2, <4>1 DEF ClientRecord
    <3>3. CASE \E n \in 0..Len(down[o]) : ClientReads(o, n)
      <4>1. PICK rest, held :
                client' = [client EXCEPT ![o].rx_buf = rest,
                                         ![o].in_queue = @ \cup held,
                                         ![o].at = "releasing"]
        BY <3>3 DEF ClientReads
      <4> QED BY <2>1, <2>2, <4>1 DEF ClientRecord
    <3>4. CASE \E d \in client[o].out_queue : ClientSends(o, d)
      BY <2>1, <2>2, <3>4 DEF ClientSends, ClientRecord
    <3> QED BY <2>7, <3>1, <3>2, <3>3, <3>4
  <2> QED BY <2>4, <2>5, <2>6, <2>7 DEF ClientNext
<1>2. BaselineInv /\ [Next]_baselineVars => [A]_baselineVars
  BY <1>1
<1> HIDE DEF A
<1>3. Spec => [][A]_baselineVars
  BY <1>2, BaselineInvariant, PTL DEF Spec
<1> QED BY <1>3 DEF PendingLeavesForCause, A
=============================================================================
