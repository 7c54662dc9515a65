----------------------------- MODULE ViewProofs -----------------------------
(***************************************************************************)
(* The remote players as they are drawn, for histories, delays and limits  *)
(* of any size: no point lies beyond the samples of its player, and as     *)
(* long as the wall clock is not set back nobody jumps back and nobody     *)
(* fresh is hidden.                                                        *)
(***************************************************************************)
EXTENDS RemoteView, SequenceTheorems, Induction

Times == StartTime..MaxTime

Owners == UNION {[ids -> Entities] : ids \in SUBSET RemoteIds}

Snapshots == [players : Owners, recv_wall_ms : Times]

\* A point lies between two samples and not beyond them.
PointOK(point) ==
    /\ point.from \in Samples
    /\ point.to \in Samples
    /\ point.elapsed \in 0..point.to.recv_wall_ms - point.from.recv_wall_ms

\* The type invariant, with what a queued snapshot, a history and a point are.
ViewInv ==
    /\ ViewTypeOK
    /\ interpolation_enabled \in BOOLEAN
    /\ owner \in Owners
    /\ queue \in Seq(Snapshots)
    /\ \A id \in DOMAIN latest_authoritative :
           latest_authoritative[id] \in Entities
    /\ \A id \in DOMAIN histories : histories[id] \in Seq(Samples)
    /\ \A id \in DOMAIN drawn : PointOK(drawn[id])

-----------------------------------------------------------------------------
\* Samples are in the order they were received, before what is still queued.
InOrder(dq) ==
    \A i, j \in 1..Len(dq) : i <= j => dq[i].recv_wall_ms <= dq[j].recv_wall_ms

TimesInOrder ==
    /\ InOrder(queue)
    /\ \A i \in 1..Len(queue) : queue[i].recv_wall_ms <= clock
    /\ \A id \in DOMAIN histories :
           LET dq == histories[id]
           IN  /\ InOrder(dq)
               /\ dq[Len(dq)].recv_wall_ms <= clock
               /\ \A i \in 1..Len(queue) :
                      dq[Len(dq)].recv_wall_ms <= queue[i].recv_wall_ms

\* A moment that a history does not precede, and that the target of the
\* interpolation has passed unless the history begins after it.
Passed(dq, moment, target) ==
    /\ moment <= dq[Len(dq)].recv_wall_ms
    /\ moment <= target \/ moment <= dq[1].recv_wall_ms

\* No player was drawn at a later moment than it can be drawn at now, nor at
\* one that a snapshot still queued precedes.
NotBehind ==
    \A id \in DOMAIN drawn :
        /\ Moment(drawn[id]) <= clock
        /\ interpolation_enabled =>
               /\ \A i \in 1..Len(queue) :
                      Moment(drawn[id]) <= queue[i].recv_wall_ms
               /\ id \in DOMAIN histories =>
                      Passed(histories[id], Moment(drawn[id]),
                             clock - INTERP_DELAY)

Steady == ~slipped => TimesInOrder /\ NotBehind

-----------------------------------------------------------------------------
\* Times are naturals, and samples have one.
LEMMA TimesAreNumbers ==
    /\ StartTime \in Nat /\ MaxTime \in Nat
    /\ INTERP_DELAY \in Nat /\ INTERP_DELAY <= StartTime
    /\ Times \subseteq Nat
    /\ \A s \in Samples : s.recv_wall_ms \in Times /\ s.entity \in Entities
    /\ \A entity \in Entities, t \in Times : Sample(entity, t) \in Samples
BY ViewAssumption, InterpolatorAssumption DEF Times, Samples, Sample

\* Every sample of a history has a time.
LEMMA SampleTimes ==
    ASSUME NEW dq \in Seq(Samples), NEW i \in 1..Len(dq)
    PROVE  /\ dq[i] \in Samples
           /\ dq[i].recv_wall_ms \in Times /\ dq[i].recv_wall_ms \in Nat
<1>1. dq[i] \in Samples
  BY ElementOfSeq
<1> QED BY <1>1, TimesAreNumbers

\* A history that gets one more sample has it at the end, and loses its
\* oldest if it was full.
LEMMA TrimShifts ==
    ASSUME NEW dq \in Seq(Samples), Len(dq) <= SNAPSHOT_HISTORY_SIZE,
           NEW e \in Samples
    PROVE  /\ Trim(Append(dq, e)) \in Seq(Samples)
           /\ Len(Trim(Append(dq, e))) \in 1..SNAPSHOT_HISTORY_SIZE
           /\ \E shift \in {0, 1} :
                  /\ Len(Trim(Append(dq, e))) = Len(dq) + 1 - shift
                  /\ \A i \in 1..Len(dq) + 1 - shift :
                         Trim(Append(dq, e))[i] =
                             IF i + shift <= Len(dq) THEN dq[i + shift] ELSE e
<1> DEFINE all == Append(dq, e)
           new == Trim(all)
           size == SNAPSHOT_HISTORY_SIZE
           shift == IF Len(dq) + 1 > size THEN 1 ELSE 0
<1>1. size \in Nat /\ size >= 1 /\ Len(dq) \in Nat
  BY InterpolatorAssumption
<1>2. /\ all \in Seq(Samples) /\ Len(all) = Len(dq) + 1
      /\ \A i \in 1..Len(dq) + 1 :
             all[i] = IF i <= Len(dq) THEN dq[i] ELSE e
  BY <1>1
<1> HIDE DEF all
<1>3. Max({0, Len(all) - size}) = shift
  BY <1>1, <1>2, AtLeastZero
<1>4. new = SubSeq(all, 1 + shift, Len(all))
  BY <1>3 DEF Trim
<1>5. shift \in {0, 1} /\ shift <= Len(dq)
  BY <1>1
<1>6. /\ new \in Seq(Samples)
      /\ Len(new) = Len(dq) + 1 - shift
      /\ \A i \in 1..Len(dq) + 1 - shift : new[i] = all[i + shift]
  <2> HIDE DEF shift
  <2> QED BY <1>1, <1>2, <1>4, <1>5
<1>7. Len(new) \in 1..size
  BY <1>1, <1>6
<1>8. \A i \in 1..Len(dq) + 1 - shift :
          new[i] = IF i + shift <= Len(dq) THEN dq[i + shift] ELSE e
  <2> HIDE DEF shift, new
  <2> QED BY <1>1, <1>2, <1>5, <1>6
<1> QED BY <1>5, <1>6, <1>7, <1>8 DEF all

\* It stays in order when the sample is not older than its newest.
LEMMA TrimKeepsOrder ==
    ASSUME NEW dq \in Seq(Samples), Len(dq) <= SNAPSHOT_HISTORY_SIZE,
           NEW e \in Samples, InOrder(dq),
           dq # <<>> => dq[Len(dq)].recv_wall_ms <= e.recv_wall_ms
    PROVE  LET new == Trim(Append(dq, e))
           IN  /\ InOrder(new)
               /\ new[Len(new)] = e
               /\ dq # <<>> => dq[1].recv_wall_ms <= new[1].recv_wall_ms
               /\ dq = <<>> => new[1] = e
<1> DEFINE new == Trim(Append(dq, e))
<1>1. PICK shift \in {0, 1} :
          /\ Len(new) = Len(dq) + 1 - shift
          /\ \A i \in 1..Len(dq) + 1 - shift :
                 new[i] = IF i + shift <= Len(dq) THEN dq[i + shift] ELSE e
  BY TrimShifts
<1>2. Len(new) \in Nat /\ Len(new) >= 1 /\ new \in Seq(Samples)
  BY TrimShifts
<1> HIDE DEF new
<1>3. \A i \in 1..Len(dq) : dq[i].recv_wall_ms \in Nat
  BY SampleTimes
<1>4. e.recv_wall_ms \in Nat
  BY TimesAreNumbers
<1>5. \A i \in 1..Len(dq) : dq[i].recv_wall_ms <= e.recv_wall_ms
  <2> SUFFICES ASSUME NEW i \in 1..Len(dq)
               PROVE  dq[i].recv_wall_ms <= e.recv_wall_ms
    OBVIOUS
  <2>1. dq # <<>> /\ Len(dq) \in 1..Len(dq) /\ i <= Len(dq)
    OBVIOUS
  <2>2. dq[i].recv_wall_ms <= dq[Len(dq)].recv_wall_ms
    BY <2>1 DEF InOrder
  <2> QED BY <1>3, <1>4, <2>1, <2>2
<1>6. InOrder(new)
  <2> SUFFICES ASSUME NEW i \in 1..Len(new), NEW j \in 1..Len(new), i <= j
               PROVE  new[i].recv_wall_ms <= new[j].recv_wall_ms
    BY DEF InOrder
  <2>1. CASE j + shift <= Len(dq)
    <3>1. i + shift \in 1..Len(dq) /\ j + shift \in 1..Len(dq)
      BY <1>1, <2>1
    <3>2. dq[i + shift].recv_wall_ms <= dq[j + shift].recv_wall_ms
      BY <3>1 DEF InOrder
    <3> QED BY <1>1, <3>1, <3>2
  <2>2. CASE ~(j + shift <= Len(dq))
    <3>1. new[j] = e
      BY <1>1, <2>2
    <3>2. new[i] = e \/ \E k \in 1..Len(dq) : new[i] = dq[k]
      BY <1>1
    <3> QED BY <1>4, <1>5, <3>1, <3>2
  <2> QED BY <2>1, <2>2
<1>7. new[Len(new)] = e
  BY <1>1, <1>2
<1>8. dq # <<>> => dq[1].recv_wall_ms <= new[1].recv_wall_ms
  <2> SUFFICES ASSUME dq # <<>>
               PROVE  dq[1].recv_wall_ms <= new[1].recv_wall_ms
    OBVIOUS
  <2>1. Len(dq) >= 1
    OBVIOUS
  <2>2. new[1] = e \/ (1 + shift \in 1..Len(dq) /\ new[1] = dq[1 + shift])
    BY <1>1, <1>2
  <2>3. 1 + shift \in 1..Len(dq)
            => dq[1].recv_wall_ms <= dq[1 + shift].recv_wall_ms
    BY <2>1 DEF InOrder
  <2> QED BY <1>5, <2>1, <2>2, <2>3
<1>9. dq = <<>> => new[1] = e
  BY <1>1, <1>2
<1> QED BY <1>6, <1>7, <1>8, <1>9 DEF new

-----------------------------------------------------------------------------
\* Holding a player at a sample shows it where it was then.
LEMMA HoldIsPoint ==
    ASSUME NEW sample \in Samples
    PROVE  PointOK(Hold(sample)) /\ Moment(Hold(sample)) = sample.recv_wall_ms
<1>1. sample.recv_wall_ms \in Nat
  BY TimesAreNumbers
<1> QED BY <1>1 DEF PointOK, Hold, Moment

\* Where render_position puts a player, case by case.
LEMMA RenderCases ==
    ASSUME NEW id, NEW now_ms \in Times,
           History(id) \in Seq(Samples),
           NEW point \in render_position(id, now_ms)
    PROVE  LET dq     == History(id)
               target == now_ms - INTERP_DELAY
           IN  /\ dq # <<>>
               /\ \/ /\ point = Hold(dq[Len(dq)])
                     /\ Brackets(dq, target) = {}
                     /\ ~(target < dq[1].recv_wall_ms)
                  \/ /\ point = Hold(dq[1])
                     /\ Brackets(dq, target) = {}
                     /\ target < dq[1].recv_wall_ms
                  \/ \E i \in 2..Len(dq) :
                         /\ i \in Brackets(dq, target)
                         /\ \/ /\ point = Hold(dq[i])
                               /\ dq[i].recv_wall_ms = dq[i - 1].recv_wall_ms
                            \/ point = Between(dq[i - 1], dq[i], target)
<1> DEFINE dq     == History(id)
           target == now_ms - INTERP_DELAY
           first  == Min(Brackets(dq, target))
<1>1. ~(now_ms < INTERP_DELAY)
  BY TimesAreNumbers, ViewAssumption DEF Times
<1>2. dq # <<>>
  BY DEF render_position
<1>3. \/ /\ Brackets(dq, target) = {}
         /\ point = Unbracketed(dq, target)
      \/ /\ Brackets(dq, target) # {}
         /\ dq[first].recv_wall_ms = dq[first - 1].recv_wall_ms
         /\ point = Hold(dq[first])
      \/ /\ Brackets(dq, target) # {}
         /\ point = Between(dq[first - 1], dq[first], target)
  BY <1>1, <1>2 DEF render_position
<1>4. Brackets(dq, target) \subseteq 2..Len(dq)
  BY DEF Brackets
<1>5. Brackets(dq, target) # {}
          => first \in Brackets(dq, target) /\ first \in 2..Len(dq)
  <2>1. Brackets(dq, target) \subseteq Nat
    BY <1>4
  <2> QED BY <1>4, <2>1, LeastIsMin
<1> HIDE DEF first
<1>6. CASE Brackets(dq, target) = {}
  BY <1>2, <1>3, <1>6 DEF Unbracketed, Last
<1>7. CASE Brackets(dq, target) # {}
  BY <1>2, <1>3, <1>5, <1>7
<1> QED BY <1>6, <1>7

\* No extrapolation: in every case the point lies between two samples.
LEMMA RenderIsPoint ==
    ASSUME NEW id, NEW now_ms \in Times,
           History(id) \in Seq(Samples),
           NEW point \in render_position(id, now_ms)
    PROVE  PointOK(point)
<1> DEFINE dq     == History(id)
           target == now_ms - INTERP_DELAY
<1>1. dq \in Seq(Samples)
  OBVIOUS
<1>2. dq # <<>> => 1 \in 1..Len(dq) /\ Len(dq) \in 1..Len(dq)
  BY <1>1
<1>3. ASSUME NEW i \in 2..Len(dq), i \in Brackets(dq, target)
      PROVE  PointOK(Between(dq[i - 1], dq[i], target))
  <2>1. i \in 1..Len(dq) /\ i - 1 \in 1..Len(dq)
    BY <1>1
  <2>2. /\ dq[i - 1].recv_wall_ms <= target
        /\ target <= dq[i].recv_wall_ms
    BY <1>3 DEF Brackets
  <2>3. /\ dq[i - 1] \in Samples /\ dq[i] \in Samples
        /\ dq[i - 1].recv_wall_ms \in Nat /\ dq[i].recv_wall_ms \in Nat
    BY <1>1, <2>1, SampleTimes
  <2>4. target \in Int
    BY TimesAreNumbers
  <2> HIDE DEF target
  <2> QED BY <2>2, <2>3, <2>4 DEF PointOK, Between
<1>4. \A i \in 1..Len(dq) : PointOK(Hold(dq[i]))
  BY <1>1, SampleTimes, HoldIsPoint
<1>5. \A i \in 2..Len(dq) : i \in 1..Len(dq)
  BY <1>1
<1> HIDE DEF dq, target
<1> QED BY <1>2, <1>3, <1>4, <1>5, RenderCases DEF dq, target

\* From a history in order, the point lies at the target of the interpolation,
\* or at the nearest sample if the target is outside the history.
LEMMA RenderMoment ==
    ASSUME NEW id, NEW now_ms \in Times,
           History(id) \in Seq(Samples), InOrder(History(id)),
           NEW point \in render_position(id, now_ms)
    PROVE  LET dq     == History(id)
               target == now_ms - INTERP_DELAY
               oldest == dq[1].recv_wall_ms
               newest == dq[Len(dq)].recv_wall_ms
           IN  Moment(point) = IF target < oldest THEN oldest
                               ELSE IF target > newest THEN newest
                               ELSE target
<1> DEFINE dq     == History(id)
           target == now_ms - INTERP_DELAY
           T(i)   == dq[i].recv_wall_ms
<1>1. dq \in Seq(Samples) /\ InOrder(dq) /\ Len(dq) \in Nat
  OBVIOUS
<1>2. dq # <<>> /\ Len(dq) >= 1
  BY <1>1, RenderCases
<1>3. target \in Int
  BY TimesAreNumbers
<1>4. \A i \in 1..Len(dq) : T(i) \in Nat /\ dq[i] \in Samples
  BY <1>1, SampleTimes
<1>5. \A i, j \in 1..Len(dq) : i <= j => T(i) <= T(j)
  BY <1>1 DEF InOrder
<1>6. \/ /\ point = Hold(dq[Len(dq)])
         /\ Brackets(dq, target) = {}
         /\ ~(target < T(1))
      \/ /\ point = Hold(dq[1])
         /\ target < T(1)
      \/ \E i \in 2..Len(dq) :
             /\ T(i - 1) <= target /\ target <= T(i)
             /\ \/ point = Hold(dq[i]) /\ T(i) = T(i - 1)
                \/ point = Between(dq[i - 1], dq[i], target)
  BY RenderCases DEF Brackets
<1>7. \A i \in 2..Len(dq) : T(i - 1) <= target /\ target <= T(i)
                                => i \in Brackets(dq, target)
  BY DEF Brackets
<1> HIDE DEF dq, target
<1>8. CASE point = Hold(dq[Len(dq)]) /\ Brackets(dq, target) = {}
           /\ ~(target < T(1))
  <2>1. Moment(point) = T(Len(dq))
    BY <1>2, <1>4, <1>8, HoldIsPoint
  <2>2. ASSUME ~(target > T(Len(dq))) PROVE target = T(Len(dq))
    <3> DEFINE late == {i \in 1..Len(dq) : target <= T(i)}
    <3>1. late \subseteq Nat /\ Len(dq) \in late
      BY <1>1, <1>2, <1>3, <1>4, <2>2
    <3>2. PICK i \in late : \A k \in late : i <= k
      BY <3>1, LeastNatural
    <3>3. CASE i = 1
      <4>1. target = T(1)
        BY <1>2, <1>3, <1>4, <1>8, <3>2, <3>3
      <4>2. CASE Len(dq) = 1
        BY <4>1, <4>2
      <4>3. CASE Len(dq) # 1
        <5> DEFINE n == Len(dq)
        <5> HIDE DEF n
        <5>1. n \in Nat /\ n >= 1 /\ n # 1
          BY <1>1, <1>2, <4>3 DEF n
        <5>2. n >= 2
          BY <5>1
        <5>3. 2 \in 2..Len(dq) /\ 1 \in 1..Len(dq) /\ 2 \in 1..Len(dq)
          BY <5>1, <5>2 DEF n
        <5>4. T(1) <= target /\ target <= T(2)
          BY <1>3, <1>4, <1>5, <4>1, <5>3
        <5>5. T(2 - 1) <= target
          BY <5>4
        <5> QED BY <1>7, <1>8, <5>3, <5>4, <5>5
      <4> QED BY <4>2, <4>3
    <3>4. CASE i # 1
      <4>1. i \in 2..Len(dq) /\ i - 1 \in 1..Len(dq) /\ ~(i <= i - 1)
        BY <1>1, <3>4
      <4>2. T(i - 1) <= target
        BY <1>3, <1>4, <3>2, <4>1
      <4> QED BY <1>7, <1>8, <3>2, <4>1, <4>2
    <3> QED BY <3>3, <3>4
  <2> QED BY <1>2, <1>3, <1>4, <1>8, <2>1, <2>2 DEF dq, target
<1>9. CASE point = Hold(dq[1]) /\ target < T(1)
  <2>1. Moment(point) = T(1)
    BY <1>2, <1>4, <1>9, HoldIsPoint
  <2> QED BY <1>9, <2>1 DEF dq, target
<1>10. ASSUME NEW i \in 2..Len(dq), T(i - 1) <= target, target <= T(i),
              \/ point = Hold(dq[i]) /\ T(i) = T(i - 1)
              \/ point = Between(dq[i - 1], dq[i], target)
       PROVE  Moment(point) = target /\ T(1) <= target /\ target <= T(Len(dq))
  <2>1. i \in 1..Len(dq) /\ i - 1 \in 1..Len(dq) /\ Len(dq) \in 1..Len(dq)
        /\ 1 \in 1..Len(dq) /\ 1 <= i - 1 /\ i <= Len(dq)
    BY <1>1
  <2>2. T(1) <= T(i - 1) /\ T(i) <= T(Len(dq))
    BY <1>5, <2>1
  <2>3. T(1) <= target /\ target <= T(Len(dq))
    BY <1>3, <1>4, <1>10, <2>1, <2>2
  <2>4. CASE point = Hold(dq[i]) /\ T(i) = T(i - 1)
    <3>1. Moment(point) = T(i)
      BY <1>4, <2>1, <2>4, HoldIsPoint
    <3> QED BY <1>3, <1>4, <1>10, <2>1, <2>3, <2>4, <3>1
  <2>5. CASE point = Between(dq[i - 1], dq[i], target)
    <3>1. Moment(point) = T(i - 1) + (target - T(i - 1))
      BY <2>5 DEF Moment, Between
    <3> QED BY <1>3, <1>4, <2>1, <2>3, <3>1
  <2> QED BY <1>10, <2>4, <2>5, <2>3
<1> QED BY <1>2, <1>3, <1>4, <1>6, <1>8, <1>9, <1>10 DEF dq, target

-----------------------------------------------------------------------------
\* What the operators on the two maps of histories and owners return.
LEMMA OwnersChange ==
    ASSUME owner \in Owners, NEW id \in RemoteIds, NEW entity \in Entities
    PROVE  Put(owner, id, entity) \in Owners /\ Erase(owner, {id}) \in Owners
<1>1. PICK ids \in SUBSET RemoteIds : owner \in [ids -> Entities]
  BY DEF Owners
<1>2. Put(owner, id, entity) \in [ids \cup {id} -> Entities]
  BY <1>1 DEF Put
<1>3. Erase(owner, {id}) \in [ids \ {id} -> Entities]
  BY <1>1 DEF Erase, Restrict
<1>4. ids \cup {id} \in SUBSET RemoteIds /\ ids \ {id} \in SUBSET RemoteIds
  BY <1>1
<1> QED BY <1>2, <1>3, <1>4 DEF Owners

\* A snapshot tells of remote ids, and who has them.
LEMMA OwnersType ==
    ASSUME NEW players \in Owners
    PROVE  /\ DOMAIN players \subseteq RemoteIds
           /\ \A id \in DOMAIN players : players[id] \in Entities
BY DEF Owners

\* What ingest makes of each history.
LEMMA Ingested ==
    ASSUME NEW players, NEW t
    PROVE  LET new == ingest([id \in DOMAIN players |-> Sample(players[id], t)])
           IN  /\ DOMAIN new = DOMAIN histories \cup DOMAIN players
               /\ \A id \in DOMAIN players :
                      new[id] =
                          Trim(Append(History(id), Sample(players[id], t)))
               /\ \A id \in DOMAIN histories \ DOMAIN players :
                      new[id] = histories[id]
BY DEF ingest

\* What prune drops, and what it leaves as it is.
LEMMA Pruned ==
    ASSUME NEW now_ms
    PROVE  /\ DOMAIN prune(now_ms) =
                  {id \in DOMAIN histories : ~Stale(histories[id], now_ms)}
           /\ \A id \in DOMAIN prune(now_ms) :
                  prune(now_ms)[id] = histories[id]
BY DEF prune, Erase, Restrict

\* A history is a bounded sequence of samples, and is empty if there is none.
LEMMA HistoryType ==
    ASSUME ViewInv, NEW id
    PROVE  /\ History(id) \in Seq(Samples)
           /\ Len(History(id)) <= SNAPSHOT_HISTORY_SIZE
           /\ History(id) # <<>> <=> id \in DOMAIN histories
<1>1. SNAPSHOT_HISTORY_SIZE \in Nat
  BY InterpolatorAssumption
<1>2. CASE id \in DOMAIN histories
  <2>1. /\ histories[id] \in Seq(Samples)
        /\ Len(histories[id]) \in 1..SNAPSHOT_HISTORY_SIZE
    BY <1>2 DEF ViewInv, ViewTypeOK
  <2> QED BY <1>1, <1>2, <2>1 DEF History
<1>3. CASE id \notin DOMAIN histories
  BY <1>1, <1>3 DEF History
<1> QED BY <1>2, <1>3

\* The first of a queue, and what is left after it.
LEMMA HeadAndTail ==
    ASSUME NEW S, NEW s \in Seq(S), s # <<>>
    PROVE  /\ Head(s) = s[1] /\ s[1] \in S /\ 1 \in 1..Len(s)
           /\ Tail(s) \in Seq(S)
           /\ Len(Tail(s)) = Len(s) - 1
           /\ \A i \in 1..Len(Tail(s)) : Tail(s)[i] = s[i + 1] /\ i + 1 \in 1..Len(s)
<1>1. Len(s) \in Nat /\ Len(s) >= 1
  OBVIOUS
<1> QED BY <1>1

\* What a frame draws.
LEMMA Drawn ==
    ASSUME Draw
    PROVE  /\ DOMAIN drawn' = {id \in DOMAIN latest_authoritative :
                   interpolation_enabled => render_position(id, clock) # {}}
           /\ \A id \in DOMAIN drawn' :
                  drawn'[id] \in IF interpolation_enabled
                                 THEN render_position(id, clock)
                                 ELSE {Hold(Sample(latest_authoritative[id],
                                                   clock))}
BY DEF Draw

-----------------------------------------------------------------------------
\* The invariant holds before the first snapshot.
LEMMA ViewInvInit == Init => ViewInv
<1> SUFFICES ASSUME Init PROVE ViewInv
  OBVIOUS
<1>1. owner \in [{} -> Entities] /\ {} \in SUBSET RemoteIds
  BY DEF Init, NoEntries
<1>2. owner \in Owners
  BY <1>1 DEF Owners
<1>3. StartTime \in StartTime..MaxTime /\ 0 \in 0..MaxQueued
  BY ViewAssumption DEF Init
<1>4. ViewTypeOK
  BY <1>3 DEF Init, ViewTypeOK, NoEntries
<1> QED BY <1>2, <1>4 DEF Init, ViewInv, NoEntries

\* Ingesting a snapshot from the queue keeps the invariant.
LEMMA DrainKeepsInv ==
    ASSUME ViewInv, DrainSnapshot
    PROVE  ViewInv'
<1> DEFINE ss == Head(queue)
           t  == ss.recv_wall_ms
<1>1. /\ ss \in Snapshots
      /\ queue' \in Seq(Snapshots) /\ Len(queue') = Len(queue) - 1
      /\ Len(queue) \in Nat
  BY HeadAndTail DEF ViewInv, DrainSnapshot
<1>2. ss.players \in Owners /\ t \in Times
  BY <1>1 DEF Snapshots
<1>3. \A id \in DOMAIN ss.players : Sample(ss.players[id], t) \in Samples
  BY <1>2, OwnersType, TimesAreNumbers
<1>4. /\ DOMAIN histories' = DOMAIN histories \cup DOMAIN ss.players
      /\ \A id \in DOMAIN ss.players :
             histories'[id] =
                 Trim(Append(History(id), Sample(ss.players[id], t)))
      /\ \A id \in DOMAIN histories \ DOMAIN ss.players :
             histories'[id] = histories[id]
  <2>1. histories' = ingest([id \in DOMAIN ss.players |->
                                Sample(ss.players[id], t)])
    BY DEF DrainSnapshot
  <2> HIDE DEF ss, t
  <2> QED BY <2>1, Ingested
<1>5. \A id \in DOMAIN histories' :
          /\ histories'[id] \in Seq(Samples)
          /\ Len(histories'[id]) \in 1..SNAPSHOT_HISTORY_SIZE
  <2> SUFFICES ASSUME NEW id \in DOMAIN histories'
               PROVE  /\ histories'[id] \in Seq(Samples)
                      /\ Len(histories'[id]) \in 1..SNAPSHOT_HISTORY_SIZE
    OBVIOUS
  <2>1. CASE id \in DOMAIN ss.players
    BY <1>3, <1>4, <2>1, HistoryType, TrimShifts
  <2>2. CASE id \notin DOMAIN ss.players
    BY <1>4, <2>2 DEF ViewInv, ViewTypeOK
  <2> QED BY <2>1, <2>2
<1>6. \A id \in DOMAIN histories' : ToSet(histories'[id]) \subseteq Samples
  BY <1>5 DEF ToSet
<1>7. /\ DOMAIN latest_authoritative' =
             DOMAIN latest_authoritative \cup DOMAIN ss.players
      /\ \A id \in DOMAIN latest_authoritative' :
             latest_authoritative'[id] \in Entities
  BY <1>2, OwnersType DEF DrainSnapshot, ViewInv
<1>8. Len(queue') \in 0..MaxQueued
  <2>1. Len(queue) \in 0..MaxQueued /\ Len(queue') \in Nat
    BY <1>1 DEF ViewInv, ViewTypeOK
  <2> QED BY <1>1, <2>1, ViewAssumption
<1>9. UNCHANGED <<clock, slipped, owner, interpolation_enabled, drawn>>
  BY DEF DrainSnapshot
<1>10. ViewTypeOK'
  BY <1>4, <1>5, <1>6, <1>7, <1>8, <1>9 DEF ViewInv, ViewTypeOK
<1>11. \A id \in DOMAIN drawn' : PointOK(drawn'[id])
  BY <1>9 DEF ViewInv
<1> QED BY <1>1, <1>5, <1>7, <1>9, <1>10, <1>11 DEF ViewInv, PointOK, Samples

\* Drawing a frame, which prunes, keeps the invariant.
LEMMA DrawKeepsInv ==
    ASSUME ViewInv, Draw
    PROVE  ViewInv'
<1>1. UNCHANGED <<histories, clock, slipped, owner, queue,
                  latest_authoritative, interpolation_enabled>>
  BY DEF Draw
<1>2. DOMAIN drawn' \subseteq DOMAIN latest_authoritative
  BY Drawn
<1>3. ASSUME NEW id \in DOMAIN drawn' PROVE PointOK(drawn'[id])
  <2>1. clock \in Times
    BY DEF ViewInv, ViewTypeOK, Times
  <2>2. CASE interpolation_enabled
    BY <2>1, <2>2, Drawn, HistoryType, RenderIsPoint
  <2>3. CASE ~interpolation_enabled
    <3>1. latest_authoritative[id] \in Entities
      BY <1>2 DEF ViewInv
    <3>2. Sample(latest_authoritative[id], clock) \in Samples
      BY <2>1, <3>1, TimesAreNumbers
    <3> QED BY <2>3, <3>2, Drawn, HoldIsPoint
  <2> QED BY <2>2, <2>3
<1>4. ViewTypeOK'
  BY <1>1, <1>2 DEF ViewInv, ViewTypeOK
<1> QED BY <1>1, <1>3, <1>4 DEF ViewInv, PointOK

\* Every step of the view keeps the invariant, also one that sets the clock back.
LEMMA ViewInvNext == ViewInv /\ [Next]_viewVars => ViewInv'
<1> SUFFICES ASSUME ViewInv, [Next]_viewVars
             PROVE  ViewInv'
  OBVIOUS
<1> USE DEF ViewInv, ViewTypeOK
<1>1. ASSUME NEW id \in RemoteIds, NEW entity \in Entities, Seat(id, entity)
      PROVE  ViewInv'
  <2>1. owner' \in Owners
    BY <1>1, OwnersChange DEF Seat
  <2> QED BY <1>1, <2>1, OwnersType DEF Seat, PointOK
<1>2. ASSUME NEW id \in RemoteIds, Unseat(id) PROVE ViewInv'
  <2>1. owner' \in Owners
    <3>1. owner[id] \in Entities
      BY <1>2 DEF Unseat
    <3> QED BY <1>2, <3>1, OwnersChange DEF Unseat
  <2> QED BY <1>2, <2>1, OwnersType DEF Unseat, PointOK
<1>3. CASE Receive
  <2>1. StampedSnapshot(owner, clock) \in Snapshots
    BY DEF StampedSnapshot, Snapshots, Times
  <2>2. queue' \in Seq(Snapshots) /\ Len(queue') = Len(queue) + 1
    BY <1>3, <2>1 DEF Receive
  <2>3. Len(queue') \in 0..MaxQueued
    BY <1>3, <2>2, ViewAssumption DEF Receive
  <2> QED BY <1>3, <2>2, <2>3 DEF Receive, PointOK
<1>4. CASE DrainSnapshot
  BY <1>4, DrainKeepsInv
<1>5. CASE DrainEnds
  BY <1>5 DEF DrainEnds, PointOK
<1>6. CASE Prune
  <2>1. DOMAIN histories' \subseteq DOMAIN histories
        /\ \A id \in DOMAIN histories' : histories'[id] = histories[id]
    BY <1>6, Pruned DEF Prune
  <2> QED BY <1>6, <2>1 DEF Prune, PointOK
<1>7. CASE Draw
  BY <1>7, DrawKeepsInv
<1>8. CASE ToggleInterpolation
  BY <1>8 DEF ToggleInterpolation, NoEntries
<1>9. CASE Advance
  <2>1. clock' \in StartTime..MaxTime
    BY <1>9, ViewAssumption DEF Advance
  <2> QED BY <1>9, <2>1 DEF Advance, PointOK
<1>10. CASE Slip
  <2>1. clock' \in StartTime..MaxTime
    BY <1>10, ViewAssumption DEF Slip
  <2> QED BY <1>10, <2>1 DEF Slip, PointOK
<1>11. CASE UNCHANGED viewVars
  BY <1>11 DEF viewVars, PointOK
<1> QED BY <1>1, <1>2, <1>3, <1>4, <1>5, <1>6, <1>7, <1>8, <1>9, <1>10, <1>11
        DEF Next

\* The inductive invariant of the view.
THEOREM ViewInvariant == Spec => []ViewInv
BY ViewInvInit, ViewInvNext, PTL DEF Spec

\* Every variable keeps its type, and no history outgrows its bound.
THEOREM ViewTypeCorrect == Spec => []ViewTypeOK
BY ViewInvariant, PTL DEF ViewInv

-----------------------------------------------------------------------------
\* The times that the steady part of the invariant compares.
LEMMA TimesOf ==
    ASSUME ViewInv
    PROVE  /\ clock \in Times /\ clock \in Nat
           /\ \A i \in 1..Len(queue) : queue[i].recv_wall_ms \in Nat
           /\ \A id \in DOMAIN histories :
                  /\ histories[id] \in Seq(Samples)
                  /\ Len(histories[id]) \in Nat /\ Len(histories[id]) >= 1
                  /\ \A i \in 1..Len(histories[id]) :
                         histories[id][i].recv_wall_ms \in Nat
           /\ \A id \in DOMAIN drawn : Moment(drawn[id]) \in Nat
<1>1. clock \in Times /\ clock \in Nat
  BY TimesAreNumbers DEF ViewInv, ViewTypeOK, Times
<1>2. ASSUME NEW i \in 1..Len(queue) PROVE queue[i].recv_wall_ms \in Nat
  <2>1. queue[i] \in Snapshots
    BY ElementOfSeq DEF ViewInv
  <2> QED BY <2>1, TimesAreNumbers DEF Snapshots
<1>3. ASSUME NEW id \in DOMAIN histories
      PROVE  /\ histories[id] \in Seq(Samples)
             /\ Len(histories[id]) \in Nat /\ Len(histories[id]) >= 1
             /\ \A i \in 1..Len(histories[id]) :
                    histories[id][i].recv_wall_ms \in Nat
  <2>1. /\ histories[id] \in Seq(Samples)
        /\ Len(histories[id]) \in 1..SNAPSHOT_HISTORY_SIZE
    BY DEF ViewInv, ViewTypeOK
  <2> QED BY <2>1, SampleTimes, InterpolatorAssumption
<1>4. ASSUME NEW id \in DOMAIN drawn PROVE Moment(drawn[id]) \in Nat
  <2>1. PointOK(drawn[id])
    BY DEF ViewInv
  <2> DEFINE from == drawn[id].from.recv_wall_ms
             to   == drawn[id].to.recv_wall_ms
  <2>2. from \in Nat /\ to \in Nat /\ drawn[id].elapsed \in 0..to - from
    BY <2>1, TimesAreNumbers DEF PointOK
  <2> HIDE DEF from, to
  <2>3. drawn[id].elapsed \in Nat
    BY <2>2
  <2> QED BY <2>2, <2>3 DEF Moment, from
<1> QED BY <1>1, <1>2, <1>3, <1>4

\* A snapshot stamped now keeps all samples in the order of their times.
LEMMA ReceiveKeepsSteady ==
    ASSUME ViewInv, TimesInOrder, NotBehind, Receive
    PROVE  TimesInOrder' /\ NotBehind'
<1> DEFINE new == StampedSnapshot(owner, clock)
<1>1. new.recv_wall_ms = clock
  BY DEF StampedSnapshot
<1>2. /\ queue' = Append(queue, new)
      /\ UNCHANGED <<histories, clock, interpolation_enabled, drawn>>
  BY DEF Receive
<1>3. queue \in Seq(Snapshots)
  BY DEF ViewInv
<1> HIDE DEF new
<1>4. \A i \in 1..Len(queue') :
          \/ i \in 1..Len(queue) /\ queue'[i] = queue[i]
          \/ i = Len(queue) + 1 /\ queue'[i].recv_wall_ms = clock
  BY <1>1, <1>2, <1>3
<1>5. Len(queue) \in Nat /\ Len(queue') \in Nat
  BY <1>2, <1>3
<1>6. \A i \in 1..Len(queue) : queue[i].recv_wall_ms <= clock
  BY DEF TimesInOrder
<1>7. \A i \in 1..Len(queue') : queue'[i].recv_wall_ms <= clock
  BY <1>4, <1>6, TimesOf
<1>8. InOrder(queue')
  <2> SUFFICES ASSUME NEW i \in 1..Len(queue'), NEW j \in 1..Len(queue'), i <= j
               PROVE  queue'[i].recv_wall_ms <= queue'[j].recv_wall_ms
    BY DEF InOrder
  <2>1. CASE j \in 1..Len(queue)
    <3>1. i \in 1..Len(queue) /\ queue'[i] = queue[i] /\ queue'[j] = queue[j]
      BY <1>4, <1>5, <2>1
    <3> QED BY <2>1, <3>1 DEF TimesInOrder, InOrder
  <2>2. CASE j \notin 1..Len(queue)
    <3>1. queue'[j].recv_wall_ms = clock
      BY <1>4, <2>2
    <3> QED BY <1>7, <3>1
  <2> QED BY <2>1, <2>2
<1>9. ASSUME NEW id \in DOMAIN histories,
             NEW i \in 1..Len(queue')
      PROVE  histories[id][Len(histories[id])].recv_wall_ms
                 <= queue'[i].recv_wall_ms
  BY <1>4 DEF TimesInOrder
<1>10. ASSUME NEW id \in DOMAIN drawn, interpolation_enabled,
              NEW i \in 1..Len(queue')
       PROVE  Moment(drawn[id]) <= queue'[i].recv_wall_ms
  BY <1>4, <1>10 DEF NotBehind
<1>11. TimesInOrder'
  BY <1>2, <1>7, <1>8, <1>9 DEF TimesInOrder, InOrder
<1>12. NotBehind'
  BY <1>2, <1>10 DEF NotBehind, Passed, Moment
<1> QED BY <1>11, <1>12

\* Ingesting in the order of the queue keeps it as well.
LEMMA DrainKeepsSteady ==
    ASSUME ViewInv, TimesInOrder, NotBehind, DrainSnapshot
    PROVE  TimesInOrder' /\ NotBehind'
<1> DEFINE ss == Head(queue)
           t  == ss.recv_wall_ms
           e(id) == Sample(ss.players[id], t)
<1>1. /\ ss \in Snapshots /\ ss = queue[1] /\ 1 \in 1..Len(queue)
      /\ Len(queue') = Len(queue) - 1
      /\ \A i \in 1..Len(queue') :
             queue'[i] = queue[i + 1] /\ i + 1 \in 1..Len(queue)
  BY HeadAndTail DEF ViewInv, DrainSnapshot
<1>2. UNCHANGED <<clock, interpolation_enabled, drawn>>
  BY DEF DrainSnapshot
<1>3. /\ DOMAIN histories' = DOMAIN histories \cup DOMAIN ss.players
      /\ \A id \in DOMAIN ss.players :
             histories'[id] = Trim(Append(History(id), e(id)))
      /\ \A id \in DOMAIN histories \ DOMAIN ss.players :
             histories'[id] = histories[id]
  <2>1. histories' = ingest([id \in DOMAIN ss.players |->
                                Sample(ss.players[id], t)])
    BY DEF DrainSnapshot
  <2> HIDE DEF ss, t
  <2> QED BY <2>1, Ingested
<1>4. ASSUME NEW id \in DOMAIN ss.players
      PROVE  e(id) \in Samples /\ e(id).recv_wall_ms = t
  <2>1. ss.players \in Owners /\ t \in Times
    BY <1>1 DEF Snapshots
  <2> HIDE DEF ss, t
  <2> QED BY <2>1, OwnersType, TimesAreNumbers DEF Sample
<1>5. t \in Nat /\ clock \in Nat
  BY <1>1, TimesOf
<1>6. t <= clock /\ \A i \in 1..Len(queue) : t <= queue[i].recv_wall_ms
  BY <1>1 DEF TimesInOrder, InOrder
<1> HIDE DEF ss, t
<1>7. ASSUME NEW id \in DOMAIN ss.players
      PROVE  /\ InOrder(histories'[id])
             /\ histories'[id][Len(histories'[id])].recv_wall_ms = t
             /\ id \in DOMAIN histories =>
                    histories[id][1].recv_wall_ms
                        <= histories'[id][1].recv_wall_ms
             /\ id \notin DOMAIN histories =>
                    histories'[id][1].recv_wall_ms = t
  <2>1. /\ History(id) \in Seq(Samples)
        /\ Len(History(id)) <= SNAPSHOT_HISTORY_SIZE
        /\ History(id) # <<>> <=> id \in DOMAIN histories
        /\ id \in DOMAIN histories => History(id) = histories[id]
    BY HistoryType DEF History
  <2>2. /\ InOrder(History(id))
        /\ History(id) # <<>> =>
               History(id)[Len(History(id))].recv_wall_ms <= t
    <3>1. CASE id \in DOMAIN histories
      BY <1>1, <2>1, <3>1 DEF TimesInOrder, t
    <3>2. CASE id \notin DOMAIN histories
      BY <2>1, <3>2 DEF InOrder
    <3> QED BY <3>1, <3>2
  <2> HIDE DEF e
  <2> DEFINE dq == History(id)
  <2>3. /\ InOrder(Trim(Append(dq, e(id))))
        /\ LET new == Trim(Append(dq, e(id)))
           IN  /\ new[Len(new)] = e(id)
               /\ dq # <<>> => dq[1].recv_wall_ms <= new[1].recv_wall_ms
               /\ dq = <<>> => new[1] = e(id)
    BY <1>4, <2>1, <2>2, TrimKeepsOrder
  <2> QED BY <1>3, <1>4, <2>1, <2>3
<1>8. ASSUME NEW id \in DOMAIN histories'
      PROVE  /\ InOrder(histories'[id])
             /\ histories'[id][Len(histories'[id])].recv_wall_ms <= clock
             /\ \A i \in 1..Len(queue') :
                    histories'[id][Len(histories'[id])].recv_wall_ms
                        <= queue'[i].recv_wall_ms
  <2>1. CASE id \in DOMAIN ss.players
    BY <1>1, <1>6, <1>7, <2>1
  <2>2. CASE id \notin DOMAIN ss.players
    <3>1. id \in DOMAIN histories /\ histories'[id] = histories[id]
      BY <1>3, <2>2
    <3> QED BY <1>1, <3>1 DEF TimesInOrder
  <2> QED BY <2>1, <2>2
<1>9. TimesInOrder'
  <2>1. InOrder(queue')
    <3> SUFFICES ASSUME NEW i \in 1..Len(queue'), NEW j \in 1..Len(queue'),
                        i <= j
                 PROVE  queue'[i].recv_wall_ms <= queue'[j].recv_wall_ms
      BY DEF InOrder
    <3>1. i + 1 <= j + 1
      OBVIOUS
    <3> QED BY <1>1, <3>1 DEF TimesInOrder, InOrder
  <2>2. \A i \in 1..Len(queue') : queue'[i].recv_wall_ms <= clock
    BY <1>1 DEF TimesInOrder
  <2> QED BY <1>2, <1>8, <2>1, <2>2 DEF TimesInOrder, InOrder
<1>10. ASSUME NEW id \in DOMAIN drawn, interpolation_enabled,
              id \in DOMAIN histories'
       PROVE  Passed(histories'[id], Moment(drawn[id]), clock - INTERP_DELAY)
  <2>1. Moment(drawn[id]) <= t /\ Moment(drawn[id]) \in Nat
    BY <1>1, <1>10, TimesOf DEF NotBehind, t
  <2>2. CASE id \in DOMAIN ss.players /\ id \in DOMAIN histories
    <3> DEFINE old == histories[id][1].recv_wall_ms
               new == histories'[id][1].recv_wall_ms
    <3>1. Moment(drawn[id]) <= clock - INTERP_DELAY \/ Moment(drawn[id]) <= old
      BY <1>10, <2>2 DEF NotBehind, Passed
    <3>2. old <= new
      BY <1>7, <2>2
    <3>3. old \in Nat /\ new \in Nat
      <4>1. ViewInv'
        BY DrainKeepsInv
      <4>2. /\ histories'[id] \in Seq(Samples)
            /\ Len(histories'[id]) \in 1..SNAPSHOT_HISTORY_SIZE
        BY <1>10, <4>1 DEF ViewInv, ViewTypeOK
      <4>3. 1 \in 1..Len(histories'[id])
        BY <4>2
      <4>4. new \in Nat
        BY <4>2, <4>3, SampleTimes
      <4>5. 1 \in 1..Len(histories[id])
        BY <2>2, TimesOf
      <4>6. old \in Nat
        BY <2>2, <4>5, TimesOf
      <4> QED BY <4>4, <4>6
    <3>4. Moment(drawn[id]) <= old => Moment(drawn[id]) <= new
      BY <2>1, <3>2, <3>3
    <3> QED BY <1>7, <2>1, <2>2, <3>1, <3>4 DEF Passed
  <2>3. CASE id \in DOMAIN ss.players /\ id \notin DOMAIN histories
    BY <1>7, <2>1, <2>3 DEF Passed
  <2>4. CASE id \notin DOMAIN ss.players
    <3>1. id \in DOMAIN histories /\ histories'[id] = histories[id]
      BY <1>3, <1>10, <2>4
    <3> QED BY <1>10, <3>1 DEF NotBehind
  <2> QED BY <2>2, <2>3, <2>4
<1>11. NotBehind'
  <2> SUFFICES ASSUME NEW id \in DOMAIN drawn
               PROVE  /\ Moment(drawn[id]) <= clock
                      /\ interpolation_enabled =>
                             /\ \A i \in 1..Len(queue') :
                                    Moment(drawn[id]) <= queue'[i].recv_wall_ms
                             /\ id \in DOMAIN histories' =>
                                    Passed(histories'[id], Moment(drawn[id]),
                                           clock - INTERP_DELAY)
    BY <1>2 DEF NotBehind, Passed, Moment
  <2> QED BY <1>1, <1>10 DEF NotBehind
<1> QED BY <1>9, <1>11

\* A player drawn by interpolation in a steady view is drawn within its
\* history, no later than now, and no earlier than it was before.
LEMMA SteadyDraw ==
    ASSUME ViewInv, TimesInOrder, NotBehind, interpolation_enabled,
           NEW id, NEW point \in render_position(id, clock)
    PROVE  /\ id \in DOMAIN histories
           /\ Moment(point) \in Nat
           /\ Moment(point) <= clock
           /\ \A i \in 1..Len(queue) : Moment(point) <= queue[i].recv_wall_ms
           /\ Passed(histories[id], Moment(point), clock - INTERP_DELAY)
           /\ id \in DOMAIN drawn => Moment(drawn[id]) <= Moment(point)
<1> DEFINE dq     == histories[id]
           target == clock - INTERP_DELAY
           oldest == dq[1].recv_wall_ms
           newest == dq[Len(dq)].recv_wall_ms
<1>1. /\ History(id) \in Seq(Samples) /\ History(id) # <<>>
      /\ id \in DOMAIN histories /\ History(id) = dq
  <2>1. History(id) # <<>>
    BY DEF render_position
  <2> QED BY <2>1, HistoryType DEF History
<1>2. clock \in Times /\ clock \in Nat /\ INTERP_DELAY \in Nat
  BY TimesOf, TimesAreNumbers
<1>3. oldest \in Nat /\ newest \in Nat /\ oldest <= newest
  <2>1. 1 \in 1..Len(dq) /\ Len(dq) \in 1..Len(dq) /\ 1 <= Len(dq)
    BY <1>1, TimesOf
  <2> QED BY <1>1, <2>1, TimesOf DEF TimesInOrder, InOrder
<1>4. InOrder(dq) /\ newest <= clock
  BY <1>1 DEF TimesInOrder
<1>5. Moment(point) = IF target < oldest THEN oldest
                      ELSE IF target > newest THEN newest
                      ELSE target
  BY <1>1, <1>2, <1>4, RenderMoment
<1>6. \A i \in 1..Len(queue) :
          newest <= queue[i].recv_wall_ms /\ queue[i].recv_wall_ms \in Nat
  BY <1>1, TimesOf DEF TimesInOrder
<1>7. id \in DOMAIN drawn =>
          /\ Moment(drawn[id]) \in Nat
          /\ Moment(drawn[id]) <= newest
          /\ Moment(drawn[id]) <= target \/ Moment(drawn[id]) <= oldest
  BY <1>1, TimesOf DEF NotBehind, Passed
<1> DEFINE moment == Moment(point)
           before == Moment(drawn[id])
<1> HIDE DEF oldest, newest, moment, before
<1>8. moment \in Nat /\ moment <= clock /\ moment <= newest
  BY <1>2, <1>3, <1>4, <1>5 DEF moment
<1>9. moment <= target \/ moment <= oldest
  BY <1>2, <1>3, <1>5 DEF moment
<1>10. id \in DOMAIN drawn => before <= moment
  BY <1>2, <1>3, <1>5, <1>7 DEF moment, before
<1>11. \A i \in 1..Len(queue) : moment <= queue[i].recv_wall_ms
  BY <1>3, <1>6, <1>8
<1> QED BY <1>1, <1>8, <1>9, <1>10, <1>11
        DEF Passed, oldest, newest, moment, before

\* So does drawing a frame.
LEMMA DrawKeepsSteady ==
    ASSUME ViewInv, TimesInOrder, NotBehind, Draw
    PROVE  TimesInOrder' /\ NotBehind'
<1>1. UNCHANGED <<histories, clock, queue, interpolation_enabled>>
  BY DEF Draw
<1>2. TimesInOrder'
  BY <1>1 DEF TimesInOrder, InOrder
<1>3. ASSUME NEW id \in DOMAIN drawn', interpolation_enabled
      PROVE  /\ Moment(drawn'[id]) <= clock
             /\ \A i \in 1..Len(queue) :
                    Moment(drawn'[id]) <= queue[i].recv_wall_ms
             /\ Passed(histories[id], Moment(drawn'[id]),
                       clock - INTERP_DELAY)
  <2>1. drawn'[id] \in render_position(id, clock)
    BY <1>3, Drawn
  <2> QED BY <1>3, <2>1, SteadyDraw
<1>4. ASSUME NEW id \in DOMAIN drawn', ~interpolation_enabled
      PROVE  Moment(drawn'[id]) <= clock
  <2>1. drawn'[id] = Hold(Sample(latest_authoritative[id], clock))
    BY <1>4, Drawn
  <2>2. Moment(drawn'[id]) = clock
    BY <2>1, TimesOf DEF Moment, Hold, Sample
  <2> QED BY <2>2, TimesOf
<1>5. NotBehind'
  BY <1>1, <1>3, <1>4 DEF NotBehind, Passed, Moment
<1> QED BY <1>2, <1>5

\* The view is steady before the first snapshot.
LEMMA SteadyInit == Init => Steady
<1> SUFFICES ASSUME Init PROVE TimesInOrder /\ NotBehind
  BY DEF Steady
<1>1. queue = <<>> /\ DOMAIN histories = {} /\ DOMAIN drawn = {}
  BY DEF Init, NoEntries
<1> QED BY <1>1 DEF TimesInOrder, InOrder, NotBehind

\* It stays so in every step, until the clock is set back.
LEMMA SteadyNext == ViewInv /\ Steady /\ [Next]_viewVars => Steady'
<1> SUFFICES ASSUME ViewInv, Steady, [Next]_viewVars, ~slipped'
             PROVE  TimesInOrder' /\ NotBehind'
  BY DEF Steady
<1> DEFINE Same == UNCHANGED <<clock, queue, interpolation_enabled, drawn>>
<1>1. ~Slip
  BY DEF Slip
<1>2. ~slipped
  BY <1>1 DEF Next, Seat, Unseat, Receive, DrainSnapshot, DrainEnds, Prune,
              Draw, ToggleInterpolation, Advance, viewVars
<1>3. TimesInOrder /\ NotBehind
  BY <1>2 DEF Steady
<1>4. CASE Same /\ UNCHANGED histories
  BY <1>3, <1>4 DEF TimesInOrder, InOrder, NotBehind, Passed, Moment
<1>5. ASSUME NEW id \in RemoteIds, NEW entity \in Entities, Seat(id, entity)
      PROVE  Same /\ UNCHANGED histories
  BY <1>5 DEF Seat
<1>6. ASSUME NEW id \in RemoteIds, Unseat(id)
      PROVE  Same /\ UNCHANGED histories
  BY <1>6 DEF Unseat
<1>7. CASE Receive
  BY <1>3, <1>7, ReceiveKeepsSteady
<1>8. CASE DrainSnapshot
  BY <1>3, <1>8, DrainKeepsSteady
<1>9. CASE DrainEnds
  BY <1>4, <1>9 DEF DrainEnds
<1>10. CASE Prune
  <2>1. /\ Same
        /\ DOMAIN histories' \subseteq DOMAIN histories
        /\ \A id \in DOMAIN histories' : histories'[id] = histories[id]
    BY <1>10, Pruned DEF Prune
  <2>2. TimesInOrder'
    BY <1>3, <2>1 DEF TimesInOrder, InOrder
  <2>3. NotBehind'
    BY <1>3, <2>1 DEF NotBehind, Passed, Moment
  <2> QED BY <2>2, <2>3
<1>11. CASE Draw
  BY <1>3, <1>11, DrawKeepsSteady
<1>12. CASE ToggleInterpolation
  <2>1. /\ UNCHANGED <<histories, clock, queue>>
        /\ DOMAIN drawn' = {}
    BY <1>12 DEF ToggleInterpolation, NoEntries
  <2> QED BY <1>3, <2>1 DEF TimesInOrder, InOrder, NotBehind
<1>13. CASE Advance
  <2>1. clock' = clock + 1 /\ INTERP_DELAY \in Nat
        /\ UNCHANGED <<histories, queue, interpolation_enabled, drawn>>
    BY <1>13, TimesAreNumbers DEF Advance
  <2>2. TimesInOrder'
    <3>1. \A i \in 1..Len(queue) : queue[i].recv_wall_ms <= clock'
      BY <1>3, <2>1, TimesOf DEF TimesInOrder
    <3>2. ASSUME NEW id \in DOMAIN histories
          PROVE  histories[id][Len(histories[id])].recv_wall_ms <= clock'
      <4>1. Len(histories[id]) \in 1..Len(histories[id])
        BY TimesOf
      <4> QED BY <1>3, <2>1, <4>1, TimesOf DEF TimesInOrder
    <3> QED BY <1>3, <2>1, <3>1, <3>2 DEF TimesInOrder, InOrder
  <2>3. ASSUME NEW id \in DOMAIN drawn
        PROVE  /\ Moment(drawn[id]) <= clock'
               /\ Moment(drawn[id]) <= clock - INTERP_DELAY =>
                      Moment(drawn[id]) <= clock' - INTERP_DELAY
    BY <1>3, <2>1, TimesOf DEF NotBehind
  <2>4. NotBehind'
    <3> SUFFICES ASSUME NEW id \in DOMAIN drawn
                 PROVE  /\ Moment(drawn[id]) <= clock'
                        /\ interpolation_enabled =>
                               /\ \A i \in 1..Len(queue) :
                                      Moment(drawn[id])
                                          <= queue[i].recv_wall_ms
                               /\ id \in DOMAIN histories =>
                                      Passed(histories[id], Moment(drawn[id]),
                                             clock' - INTERP_DELAY)
      BY <2>1 DEF NotBehind, Passed, Moment
    <3> QED BY <1>3, <2>3 DEF NotBehind, Passed
  <2> QED BY <2>2, <2>4
<1>14. CASE UNCHANGED viewVars
  BY <1>4, <1>14 DEF viewVars
<1> QED BY <1>1, <1>4, <1>5, <1>6, <1>7, <1>8, <1>9, <1>10, <1>11, <1>12, <1>13,
           <1>14 DEF Next

\* Until the clock is set back, samples are in the order of their times and nobody
\* has been drawn further than a frame now would show.
THEOREM SteadyInvariant == Spec => [](ViewInv /\ Steady)
BY ViewInvInit, ViewInvNext, SteadyInit, SteadyNext, PTL DEF Spec

\* When snapshots are lost or late, a player goes on through the samples that
\* are left of the delay and then stands still at the newest: it is never
\* drawn beyond a sample, also when the clock has been set back.
THEOREM DrawnOnDelay == Spec => RunwayThenHold
<1>1. ASSUME ViewInv, Draw, interpolation_enabled, NEW id \in DOMAIN drawn'
      PROVE  drawn'[id].elapsed \in
                 0..drawn'[id].to.recv_wall_ms - drawn'[id].from.recv_wall_ms
  <2>1. clock \in Times
    BY <1>1, TimesOf
  <2>2. drawn'[id] \in render_position(id, clock)
    BY <1>1, Drawn
  <2>3. PointOK(drawn'[id])
    BY <1>1, <2>1, <2>2, HistoryType, RenderIsPoint
  <2> QED BY <2>3 DEF PointOK
<1>2. ASSUME ViewInv, Steady, Draw, interpolation_enabled, ~slipped,
             NEW id \in DOMAIN drawn'
      PROVE  Moment(drawn'[id]) = DelayedMoment(histories[id], clock)
  <2>1. drawn'[id] \in render_position(id, clock)
    BY <1>2, Drawn
  <2>2. TimesInOrder
    BY <1>2 DEF Steady
  <2>3. History(id) \in Seq(Samples) /\ History(id) # <<>>
    BY <1>2, <2>1, HistoryType DEF render_position
  <2>4. id \in DOMAIN histories /\ History(id) = histories[id]
    BY <1>2, <2>3, HistoryType DEF History
  <2>5. clock \in Times /\ InOrder(History(id))
    BY <1>2, <2>2, <2>4, TimesOf DEF TimesInOrder
  <2> QED BY <2>1, <2>3, <2>4, <2>5, RenderMoment DEF DelayedMoment, Last
<1>3. ViewInv /\ Steady /\ [Next]_viewVars =>
          [Draw /\ interpolation_enabled =>
               \A id \in DOMAIN drawn' :
                   /\ drawn'[id].elapsed \in
                          0..drawn'[id].to.recv_wall_ms
                                 - drawn'[id].from.recv_wall_ms
                   /\ ~slipped => Moment(drawn'[id])
                                      = DelayedMoment(histories[id],
                                                      clock)]_viewVars
  BY <1>1, <1>2
<1> QED BY <1>3, SteadyInvariant, PTL DEF Spec, RunwayThenHold

\* As long as the wall clock has not been set back, a remote player is drawn
\* from frame to frame at later and later moments of its history.
THEOREM DrawnForward == Spec => DrawnMovesForward
<1>1. ASSUME ViewInv, Steady, [Next]_viewVars, ~slipped,
             NEW id \in DOMAIN drawn \cap DOMAIN drawn'
      PROVE  Moment(drawn'[id]) >= Moment(drawn[id])
  <2>1. TimesInOrder /\ NotBehind
    BY <1>1 DEF Steady
  <2>2. Moment(drawn[id]) \in Nat /\ Moment(drawn[id]) <= clock
    BY <1>1, <2>1, TimesOf DEF NotBehind
  <2>3. CASE Draw
    <3>1. CASE interpolation_enabled
      <4>1. drawn'[id] \in render_position(id, clock)
        BY <2>3, <3>1, Drawn
      <4>2. /\ Moment(drawn'[id]) \in Nat
            /\ Moment(drawn[id]) <= Moment(drawn'[id])
        BY <1>1, <2>1, <3>1, <4>1, SteadyDraw
      <4> QED BY <2>2, <4>2
    <3>2. CASE ~interpolation_enabled
      <4>1. drawn'[id] = Hold(Sample(latest_authoritative[id], clock))
        BY <2>3, <3>2, Drawn
      <4>2. Moment(drawn'[id]) = clock
        BY <1>1, <4>1, TimesOf DEF Moment, Hold, Sample
      <4> QED BY <1>1, <2>2, <4>2, TimesOf
    <3> QED BY <3>1, <3>2
  <2>4. CASE ToggleInterpolation
    BY <2>4 DEF ToggleInterpolation, NoEntries
  <2>5. CASE ~Draw /\ ~ToggleInterpolation
    <3>1. drawn' = drawn
      BY <1>1, <2>5 DEF Next, Seat, Unseat, Receive, DrainSnapshot, DrainEnds,
                        Prune, Advance, Slip, viewVars
    <3> QED BY <2>2, <3>1
  <2> QED BY <2>3, <2>4, <2>5
<1>2. ViewInv /\ Steady /\ [Next]_viewVars =>
          [~slipped => \A id \in DOMAIN drawn \cap DOMAIN drawn' :
               Moment(drawn'[id]) >= Moment(drawn[id])]_viewVars
  BY <1>1
<1> QED BY <1>2, SteadyInvariant, PTL DEF Spec, DrawnMovesForward

-----------------------------------------------------------------------------
\* In a steady view a history is stale when its newest sample is too old: the
\* unsigned difference does not wrap.
LEMMA StaleWhenOld ==
    ASSUME ViewInv, TimesInOrder, NEW id \in DOMAIN histories,
           Stale(histories[id], clock)
    PROVE  clock > Last(histories[id]).recv_wall_ms + ENTITY_STALE
<1> DEFINE newest == Last(histories[id]).recv_wall_ms
<1>1. newest \in Times /\ newest \in Nat /\ newest <= clock
  <2>1. /\ histories[id] \in Seq(Samples)
        /\ Len(histories[id]) \in 1..Len(histories[id])
    BY TimesOf
  <2> QED BY <2>1, SampleTimes DEF TimesInOrder, Last
<1>2. clock \in 0..MaxTime /\ MaxTime < ClockModulus /\ MaxTime \in Nat
      /\ ClockModulus \in Nat \ {0} /\ ENTITY_STALE \in Nat
  BY ViewAssumption, InterpolatorAssumption DEF ViewInv, ViewTypeOK
<1> HIDE DEF newest
<1>3. clock - newest \in 0..ClockModulus - 1
  BY <1>1, <1>2
<1>4. (clock - newest) % ClockModulus = clock - newest
  BY <1>2, <1>3, Unwrapped
<1>5. (clock - newest) % ClockModulus > ENTITY_STALE
  BY DEF Stale, newest
<1> QED BY <1>1, <1>2, <1>4, <1>5 DEF newest

\* A player whose history is not stale is drawn.
LEMMA FreshIsDrawn ==
    ASSUME ViewInv, Draw, NEW id \in DOMAIN histories,
           ~Stale(histories[id], clock)
    PROVE  id \in DOMAIN drawn'
<1>1. History(id) = histories[id] /\ histories[id] # <<>>
  BY HistoryType DEF History
<1>2. ~(clock < INTERP_DELAY)
  BY TimesOf, TimesAreNumbers, ViewAssumption DEF Times
<1>3. render_position(id, clock) # {}
  BY <1>1, <1>2 DEF render_position
<1>4. id \in DOMAIN latest_authoritative
  BY DEF ViewInv, ViewTypeOK
<1> QED BY <1>3, <1>4, Drawn

\* As long as the wall clock has not been set back, a player whose newest
\* sample is not too old is neither forgotten nor left out of a frame.
THEOREM FreshNotHidden == Spec => HiddenOnlyIfStaleWhenSteady
<1>1. ASSUME ViewInv, Steady, [Next]_viewVars, ~slipped
      PROVE  FreshAreShown
  <2>1. TimesInOrder
    BY <1>1 DEF Steady
  <2> SUFFICES ASSUME NEW id \in DOMAIN histories,
                      ~Stale(histories[id], clock)
               PROVE  /\ id \in DOMAIN histories'
                      /\ Draw => id \in DOMAIN drawn'
    BY <1>1, <2>1, StaleWhenOld DEF FreshAreShown
  <2>2. id \in DOMAIN histories'
    <3>1. CASE Prune
      BY <3>1, Pruned DEF Prune
    <3>2. CASE DrainSnapshot
      BY <3>2 DEF DrainSnapshot, ingest
    <3>3. CASE ~Prune /\ ~DrainSnapshot
      <4>1. histories' = histories
        BY <1>1, <3>3 DEF Next, Seat, Unseat, Receive, DrainEnds, Draw,
                          ToggleInterpolation, Advance, Slip, viewVars
      <4> QED BY <4>1
    <3> QED BY <3>1, <3>2, <3>3
  <2>3. Draw => id \in DOMAIN drawn'
    BY <1>1, FreshIsDrawn
  <2> QED BY <2>2, <2>3
<1>2. ViewInv /\ Steady /\ [Next]_viewVars =>
          [~slipped => FreshAreShown]_viewVars
  BY <1>1
<1> QED BY <1>2, SteadyInvariant, PTL DEF Spec, HiddenOnlyIfStaleWhenSteady
=============================================================================
