------------------------------ MODULE Induction ------------------------------
(***************************************************************************)
(* Facts about least and greatest elements, and induction over an initial  *)
(* segment of the naturals, in a form the provers can use: about sets, so  *)
(* that no predicate has to be instantiated.                               *)
(***************************************************************************)
EXTENDS Integers, FiniteSetsExt, WellFoundedInduction, TLAPS

\* A set of naturals has a least element.
LEMMA LeastNatural ==
    ASSUME NEW S, S \subseteq Nat, S # {}
    PROVE  \E m \in S : \A k \in S : m <= k
<1>1. PICK m \in S : \A k \in S : ~(<<k, m>> \in OpToRel(<, Nat))
  BY NatLessThanWellFounded, WFMin
<1>2. \A k \in S : ~(k < m)
  BY <1>1 DEF OpToRel
<1>3. \A k \in S : m <= k
  BY <1>2
<1> QED BY <1>3

\* Min is that element.
LEMMA LeastIsMin ==
    ASSUME NEW S, S \subseteq Nat, S # {}
    PROVE  Min(S) \in S /\ \A k \in S : Min(S) <= k
BY LeastNatural DEF Min

\* Max is the greatest element of a bounded set of naturals.
LEMMA GreatestIsMax ==
    ASSUME NEW n \in Nat, NEW S, S \subseteq 0..n, S # {}
    PROVE  Max(S) \in S /\ \A k \in S : k <= Max(S)
<1> DEFINE T == {n - k : k \in S}
<1>1. PICK m \in T : \A k \in T : m <= k
  <2>1. T \subseteq Nat
    BY SMT
  <2>2. T # {}
    OBVIOUS
  <2> QED BY <2>1, <2>2, LeastNatural
<1>2. PICK x \in S : m = n - x
  BY <1>1
<1>3. \A k \in S : x >= k
  BY <1>1, <1>2
<1> QED BY <1>3 DEF Max

\* The larger of zero and a number, in closed form.
LEMMA AtLeastZero ==
    ASSUME NEW x \in Int
    PROVE  Max({0, x}) = IF x >= 0 THEN x ELSE 0
<1> DEFINE larger == IF x >= 0 THEN x ELSE 0
<1>1. larger \in {0, x} /\ \A y \in {0, x} : larger >= y
  OBVIOUS
<1>2. \A z \in {0, x} : (\A y \in {0, x} : z >= y) => z = larger
  OBVIOUS
<1> HIDE DEF larger
<1>3. Max({0, x}) = larger
  BY <1>1, <1>2 DEF Max
<1> QED BY <1>3 DEF larger

\* A set that has 0, and the successor of what it has, has every number.
LEMMA UpTo ==
    ASSUME NEW n \in Nat, NEW S, 0 \in S,
           \A k \in 0..n - 1 : k \in S => k + 1 \in S
    PROVE  0..n \subseteq S
<1> SUFFICES ASSUME (0..n) \ S # {} PROVE FALSE
  OBVIOUS
<1>1. PICK m \in (0..n) \ S : \A k \in (0..n) \ S : m <= k
  <2>1. (0..n) \ S \subseteq Nat
    OBVIOUS
  <2> QED BY <2>1, LeastNatural
<1>2. m # 0 /\ m - 1 \in 0..n - 1
  BY <1>1
<1>3. m - 1 \in S
  BY <1>1, <1>2
<1>4. (m - 1) + 1 \in S
  BY <1>2, <1>3
<1> QED BY <1>1, <1>4

\* A remainder leaves alone what is smaller than the modulus.
LEMMA Unwrapped ==
    ASSUME NEW n \in Nat \ {0}, NEW a \in 0..n - 1
    PROVE  a % n = a
BY Z3

-----------------------------------------------------------------------------
\* Values made step by step, from x: w is x, and then what each step makes of
\* the one before.
Steps(step, n, V) == n \in Nat /\ step \in [(1..n) \X V -> V]

Made(w, step, x, n) ==
    /\ DOMAIN w = 0..n
    /\ w = [i \in 0..n |-> w[i]]
    /\ w[0] = x
    /\ \A i \in 1..n : w[i] = step[<<i, w[i - 1]>>]

\* A function given by its first value and a step from each to the next exists.
LEMMA Iteration ==
    ASSUME NEW n, NEW V, NEW x, NEW step, Steps(step, n, V), x \in V
    PROVE  \E w : w \in [0..n -> V] /\ Made(w, step, x, n)
<1> DEFINE Run(w, k) == /\ w \in [0..k -> V]
                        /\ w[0] = x
                        /\ \A i \in 1..k : w[i] = step[<<i, w[i - 1]>>]
           K == {k \in 0..n : \E w : Run(w, k)}
<1>a. n \in Nat /\ step \in [(1..n) \X V -> V]
  BY DEF Steps
<1>1. 0 \in K
  <2>1. Run([i \in 0..0 |-> x], 0)
    OBVIOUS
  <2>2. 0 \in 0..n
    BY <1>a
  <2> HIDE DEF Run
  <2> QED BY <2>1, <2>2
<1>2. ASSUME NEW k \in 0..n - 1, k \in K PROVE k + 1 \in K
  <2>1. PICK w : Run(w, k)
    BY <1>2
  <2> DEFINE next == step[<<k + 1, w[k]>>]
             v == [i \in 0..k + 1 |-> IF i <= k THEN w[i] ELSE next]
  <2>2. k + 1 \in 1..n /\ k + 1 \in 0..n /\ w[k] \in V
    BY <1>a, <2>1
  <2>3. next \in V
    BY <1>a, <2>2
  <2> HIDE DEF next
  <2>4. v \in [0..k + 1 -> V] /\ v[0] = x
    BY <1>a, <2>1, <2>3
  <2>5. ASSUME NEW i \in 1..k + 1 PROVE v[i] = step[<<i, v[i - 1]>>]
    <3>1. CASE i <= k
      <4>1. i \in 1..k /\ v[i] = w[i] /\ v[i - 1] = w[i - 1]
        BY <1>a, <3>1
      <4> QED BY <2>1, <4>1
    <3>2. CASE i = k + 1
      <4>1. v[i] = next /\ v[i - 1] = w[k]
        BY <1>a, <3>2
      <4> QED BY <3>2, <4>1 DEF next
    <3> QED BY <1>a, <3>1, <3>2
  <2>6. Run(v, k + 1)
    BY <2>4, <2>5
  <2> HIDE DEF Run
  <2> QED BY <2>2, <2>6
<1>3. n \in K
  <2> HIDE DEF K
  <2>1. 0..n \subseteq K
    BY <1>a, <1>1, <1>2, UpTo
  <2> QED BY <1>a, <2>1
<1>4. PICK w : Run(w, n)
  BY <1>3
<1>5. w \in [0..n -> V] /\ Made(w, step, x, n)
  BY <1>4 DEF Made
<1> QED BY <1>5
=============================================================================
