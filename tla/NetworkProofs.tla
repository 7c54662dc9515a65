---------------------------- MODULE NetworkProofs ----------------------------
(***************************************************************************)
(* What lies between the client and the server.                            *)
(*                                                                         *)
(* The conditioner socket, for any latency, jitter and traffic: each       *)
(* direction of it is a Channel, nothing leaves early, and what is due     *)
(* first leaves first, whatever the two threads do between each other's    *)
(* critical sections.                                                      *)
(*                                                                         *)
(* The wire format, for any numbers in a packet and any players in a       *)
(* snapshot: what is sent is what is received, and every decoder refuses   *)
(* a datagram that was cut.                                                *)
(*                                                                         *)
(* The two share neither constants nor variables.                          *)
(***************************************************************************)
EXTENDS LaggedSocket, Serialization, SequenceTheorems, Induction

\* A delay is never negative, and is the latency when there is no jitter.
LEMMA DelayOf ==
    ASSUME NEW latency \in Nat, NEW jitter \in Int
    PROVE  /\ total_ms(latency, jitter) \in Nat
           /\ jitter = 0 => total_ms(latency, jitter) = latency
<1>1. latency + jitter \in Int
  OBVIOUS
<1>2. total_ms(latency, jitter) =
          IF latency + jitter >= 0 THEN latency + jitter ELSE 0
  BY <1>1, AtLeastZero DEF total_ms
<1> QED BY <1>2

-----------------------------------------------------------------------------
Datagrams == queue \cup sending \cup incoming \cup wire \cup delivered

\* How many datagrams have been submitted in a direction, and the latency there.
Submitted(outbound) == IF outbound THEN sent ELSE taken

Latency(outbound) ==
    IF outbound THEN add_latency_ms_send ELSE add_latency_ms_recv

\* recv_from has scheduled a datagram only between taking and pushing it.
Scheduling == receiver # "scheduled" => incoming = {}

\* A datagram is in one place at a time.
InOnePlace ==
    /\ queue \cap sending = {}
    /\ queue \cap incoming = {}
    /\ (queue \cup sending \cup incoming) \cap (wire \cup delivered) = {}

Numbered == \A p \in Datagrams : p.number \in 1..Submitted(p.outbound)

\* A number is used once in each direction.
NumberedOnce ==
    \A p, q \in Datagrams :
        p.outbound = q.outbound /\ p.number = q.number => p = q

\* Without jitter, datagrams are due in the order they were submitted, none
\* later than the latency from now.
DueInOrder ==
    jitter_ms = 0 =>
        /\ \A p \in Datagrams : p.deliver_at_us <= now + Latency(p.outbound)
        /\ \A p, q \in Datagrams :
               p.outbound = q.outbound /\ p.number < q.number
                   => p.deliver_at_us <= q.deliver_at_us

SocketInv ==
    /\ SocketTypeOK
    /\ Scheduling
    /\ InOnePlace
    /\ Numbered
    /\ NumberedOnce
    /\ DueInOrder

-----------------------------------------------------------------------------
\* The types, as facts the provers can use.
LEMMA Types ==
    ASSUME SocketInv
    PROVE  /\ jitter_ms \in Nat /\ now \in Nat /\ sent \in Nat /\ taken \in Nat
           /\ \A p \in Datagrams :
                  /\ p.number \in Nat /\ p.deliver_at_us \in Nat
                  /\ p.outbound \in BOOLEAN
           /\ \A p \in sending \cup wire : p.outbound = TRUE
           /\ \A p \in incoming \cup delivered : p.outbound = FALSE
           /\ \A outbound \in BOOLEAN :
                  Submitted(outbound) \in Nat /\ Latency(outbound) \in Nat
<1>1. /\ jitter_ms \in Nat /\ now \in Nat /\ sent \in Nat
      /\ arrived \in Nat /\ taken \in 0..arrived
  BY SocketAssumption DEF SocketInv, SocketTypeOK
<1>2. \A p \in Datagrams : p \in Pending /\ p.deliver_at_us >= 0
  BY DEF SocketInv, SocketTypeOK, Datagrams
<1>3. \A p \in Datagrams : p.number \in Nat /\ p.deliver_at_us \in Nat
                           /\ p.outbound \in BOOLEAN
  BY <1>2 DEF Pending
<1>4. /\ \A p \in sending \cup wire : p.outbound = TRUE
      /\ \A p \in incoming \cup delivered : p.outbound = FALSE
  BY <1>3 DEF SocketInv, SocketTypeOK, Datagrams
<1>5. \A outbound \in BOOLEAN :
          Submitted(outbound) \in Nat /\ Latency(outbound) \in Nat
  BY <1>1, SocketAssumption DEF Submitted, Latency
<1> QED BY <1>1, <1>3, <1>4, <1>5

\* Moving datagrams about, or letting time pass, keeps their numbers and
\* their order.
LEMMA NothingNew ==
    ASSUME SocketInv, Datagrams' \subseteq Datagrams,
           UNCHANGED <<jitter_ms, sent, taken>>, now' \in Nat, now' >= now
    PROVE  Numbered' /\ NumberedOnce' /\ DueInOrder'
<1>1. \A outbound \in BOOLEAN : Submitted(outbound)' = Submitted(outbound)
  BY DEF Submitted
<1>2. Numbered'
  BY <1>1, Types DEF SocketInv, Numbered
<1>3. NumberedOnce'
  BY DEF SocketInv, NumberedOnce
<1>4. ASSUME jitter_ms' = 0, NEW p \in Datagrams'
      PROVE  p.deliver_at_us <= now' + Latency(p.outbound)'
  <2>1. p.deliver_at_us <= now + Latency(p.outbound)
    BY <1>4 DEF SocketInv, DueInOrder
  <2>2. Latency(p.outbound)' = Latency(p.outbound)
    BY DEF Latency
  <2> QED BY <2>1, <2>2, Types
<1>5. DueInOrder'
  BY <1>4 DEF SocketInv, DueInOrder
<1> QED BY <1>2, <1>3, <1>5

\* So does submitting a datagram with the next number of its direction.
LEMMA OneNew ==
    ASSUME SocketInv, NEW p \in Pending, Datagrams' \subseteq Datagrams \cup {p},
           UNCHANGED <<jitter_ms, now>>,
           p.number = Submitted(p.outbound) + 1,
           \A outbound \in BOOLEAN :
               Submitted(outbound)' = IF outbound = p.outbound THEN p.number
                                      ELSE Submitted(outbound),
           jitter_ms = 0 => p.deliver_at_us = now + Latency(p.outbound)
    PROVE  Numbered' /\ NumberedOnce' /\ DueInOrder'
<1>1. p.number \in Nat /\ p.deliver_at_us \in Int /\ p.outbound \in BOOLEAN
  BY DEF Pending
<1>2. \A q \in Datagrams :
          /\ q.number \in 1..Submitted(q.outbound)
          /\ q.outbound = p.outbound => q.number < p.number
  <2>1. ASSUME NEW q \in Datagrams
        PROVE  q.number \in 1..Submitted(q.outbound)
    BY <2>1 DEF SocketInv, Numbered
  <2>2. ASSUME NEW q \in Datagrams, q.outbound = p.outbound
        PROVE  q.number < p.number
    <3>1. q.number \in 1..Submitted(p.outbound)
      BY <2>1, <2>2
    <3>2. Submitted(p.outbound) \in Nat
      BY <1>1, Types
    <3> QED BY <1>1, <3>1, <3>2
  <2> QED BY <2>1, <2>2
<1>3. Numbered'
  <2>1. p.number \in 1..Submitted(p.outbound)'
    BY <1>1, Types
  <2>2. ASSUME NEW q \in Datagrams
        PROVE  q.number \in 1..Submitted(q.outbound)'
    <3>1. CASE q.outbound = p.outbound
      BY <1>1, <1>2, <3>1, Types
    <3>2. CASE q.outbound # p.outbound
      BY <1>2, <3>2, Types
    <3> QED BY <3>1, <3>2
  <2> QED BY <2>1, <2>2 DEF Numbered
<1>4. NumberedOnce'
  BY <1>1, <1>2, Types DEF SocketInv, NumberedOnce
<1>5. ASSUME jitter_ms' = 0
      PROVE  /\ \A q \in Datagrams' :
                    q.deliver_at_us <= now' + Latency(q.outbound)'
             /\ \A q, r \in Datagrams' :
                    q.outbound = r.outbound /\ q.number < r.number
                        => q.deliver_at_us <= r.deliver_at_us
  <2>1. \A q \in Datagrams : q.deliver_at_us <= now + Latency(q.outbound)
    BY <1>5 DEF SocketInv, DueInOrder
  <2>2. \A q, r \in Datagrams :
            q.outbound = r.outbound /\ q.number < r.number
                => q.deliver_at_us <= r.deliver_at_us
    BY <1>5 DEF SocketInv, DueInOrder
  <2>3. p.deliver_at_us = now + Latency(p.outbound)
    BY <1>5
  <2>4. \A q \in Datagrams' :
            q.deliver_at_us <= now' + Latency(q.outbound)'
    BY <1>1, <2>1, <2>3, Types DEF Latency
  <2>5. ASSUME NEW q \in Datagrams', NEW r \in Datagrams',
               q.outbound = r.outbound, q.number < r.number
        PROVE  q.deliver_at_us <= r.deliver_at_us
    <3>1. CASE r = p
      <4>1. q \in Datagrams
        BY <1>1, <2>5, <3>1
      <4> QED BY <2>1, <2>3, <2>5, <3>1, <4>1
    <3>2. CASE r # p
      <4>1. q # p
        BY <1>1, <1>2, <2>5, <3>2, Types
      <4> QED BY <2>2, <2>5, <3>2, <4>1
    <3> QED BY <3>1, <3>2
  <2> QED BY <2>4, <2>5
<1>6. DueInOrder'
  BY <1>5 DEF DueInOrder
<1> QED BY <1>3, <1>4, <1>6

-----------------------------------------------------------------------------
\* flush_outbound_locked moves due outbound datagrams from the queue to the wire.
LEMMA FlushMoves ==
    ASSUME SocketInv, FlushOutbound
    PROVE  \E some \in Flushes :
               /\ some \subseteq queue
               /\ \A p \in some : p.outbound = TRUE /\ p.deliver_at_us <= now
               /\ wire' = wire \cup some
               /\ queue' = queue \ some
<1>1. PICK some \in Flushes : wire' = wire \cup some /\ queue' = queue \ some
  BY DEF FlushOutbound
<1>2. some \subseteq Matured(TRUE)
  BY <1>1 DEF Flushes
<1> QED BY <1>1, <1>2 DEF Matured

\* Flushing keeps the invariant: what leaves is gone from the queue.
LEMMA FlushKeeps ==
    ASSUME SocketInv, FlushOutbound,
           UNCHANGED <<jitter_ms, now, sent, sending, arrived, inVars>>,
           receiver' \in {receiver, "locked"}
    PROVE  /\ SocketTypeOK' /\ InOnePlace'
           /\ Numbered' /\ NumberedOnce' /\ DueInOrder'
<1>1. PICK some \in Flushes :
          /\ some \subseteq queue
          /\ \A p \in some : p.outbound = TRUE /\ p.deliver_at_us <= now
          /\ wire' = wire \cup some
          /\ queue' = queue \ some
  BY FlushMoves
<1>2. UNCHANGED <<jitter_ms, now, sent, sending, arrived, taken, incoming,
                  delivered>>
  BY DEF inVars
<1>3. Datagrams' \subseteq Datagrams
  BY <1>1, <1>2 DEF Datagrams
<1>4. Numbered' /\ NumberedOnce' /\ DueInOrder'
  BY <1>2, <1>3, NothingNew, Types
<1>5. InOnePlace'
  <2>1. some \cap (sending \cup incoming) = {}
    BY <1>1 DEF SocketInv, InOnePlace
  <2> QED BY <1>1, <1>2, <2>1 DEF SocketInv, InOnePlace
<1>6. SocketTypeOK'
  BY <1>1, <1>2 DEF SocketInv, SocketTypeOK
<1> QED BY <1>4, <1>5, <1>6

\* Flushing, then drawing a delay for a new datagram, keeps the invariant.
LEMMA SendToKeeps ==
    ASSUME SocketInv, NEW jitter \in Jitters, SendTo(jitter)
    PROVE  SocketInv'
<1> DEFINE delay == total_ms(add_latency_ms_send, jitter)
           p == [number |-> sent + 1, deliver_at_us |-> now + delay,
                 outbound |-> TRUE]
<1>1. /\ UNCHANGED <<jitter_ms, now, queue, arrived, receiver, taken,
                     incoming, delivered>>
      /\ sending = {} /\ sent < MaxSends /\ sent' = sent + 1
      /\ \/ UNCHANGED <<sending, wire>>
         \/ wire' = wire \cup {p} /\ UNCHANGED sending
         \/ sending' = {p} /\ UNCHANGED wire
  BY DEF SendTo, inVars
<1>2. /\ delay \in Nat
      /\ jitter_ms = 0 => delay = add_latency_ms_send
  <2>1. jitter \in Int /\ (jitter_ms = 0 => jitter = 0)
    BY Types DEF Jitters
  <2> QED BY <2>1, DelayOf, SocketAssumption
<1> HIDE DEF delay
<1>3. /\ p \in Pending /\ p.deliver_at_us >= 0
      /\ p.number = sent + 1 /\ p.outbound = TRUE
      /\ p.deliver_at_us = now + delay
  BY <1>2, Types DEF Pending
<1> HIDE DEF p
<1>4. p \notin Datagrams
  <2> SUFFICES ASSUME p \in Datagrams PROVE FALSE
    OBVIOUS
  <2>1. p.number \in 1..sent
    BY <1>3 DEF SocketInv, Numbered, Submitted
  <2> QED BY <1>3, <2>1, Types
<1>5. Numbered' /\ NumberedOnce' /\ DueInOrder'
  <2>1. Datagrams' \subseteq Datagrams \cup {p}
    BY <1>1 DEF Datagrams
  <2>2. p.number = Submitted(p.outbound) + 1
    BY <1>3 DEF Submitted
  <2>3. \A outbound \in BOOLEAN :
            Submitted(outbound)' = IF outbound = p.outbound THEN p.number
                                   ELSE Submitted(outbound)
    BY <1>1, <1>3 DEF Submitted
  <2>4. jitter_ms = 0 => p.deliver_at_us = now + Latency(p.outbound)
    BY <1>2, <1>3 DEF Latency
  <2> QED BY <1>1, <1>3, <2>1, <2>2, <2>3, <2>4, OneNew
<1>6. SocketTypeOK'
  BY <1>1, <1>3, SocketAssumption DEF SocketInv, SocketTypeOK
<1>7. InOnePlace'
  BY <1>1, <1>4 DEF SocketInv, InOnePlace, Datagrams
<1>8. Scheduling'
  BY <1>1 DEF SocketInv, Scheduling
<1> QED BY <1>5, <1>6, <1>7, <1>8 DEF SocketInv

\* Pushing what send_to has scheduled keeps the invariant.
LEMMA SendPushKeeps == SocketInv /\ SendPush => SocketInv'
<1> SUFFICES ASSUME SocketInv, SendPush PROVE SocketInv'
  OBVIOUS
<1>1. /\ UNCHANGED <<jitter_ms, now, sent, wire, arrived, receiver, taken,
                     incoming, delivered>>
      /\ queue' = queue \cup sending /\ sending' = {}
  BY DEF SendPush, inVars
<1>2. Datagrams' \subseteq Datagrams
  BY <1>1 DEF Datagrams
<1>3. Numbered' /\ NumberedOnce' /\ DueInOrder'
  BY <1>1, <1>2, NothingNew, Types
<1>4. SocketTypeOK'
  BY <1>1 DEF SocketInv, SocketTypeOK
<1>5. InOnePlace'
  <2>1. sending \cap incoming = {}
    BY Types
  <2> QED BY <1>1, <2>1 DEF SocketInv, InOnePlace
<1>6. Scheduling'
  BY <1>1 DEF SocketInv, Scheduling
<1> QED BY <1>3, <1>4, <1>5, <1>6 DEF SocketInv

\* Taking a datagram from the kernel keeps the invariant.
LEMMA RecvTakeKeeps ==
    ASSUME SocketInv, NEW jitter \in Jitters, RecvTake(jitter)
    PROVE  SocketInv'
<1> DEFINE delay == total_ms(add_latency_ms_recv, jitter)
           p == [number |-> taken + 1, deliver_at_us |-> now + delay,
                 outbound |-> FALSE]
<1>1. /\ UNCHANGED <<jitter_ms, now, queue, sent, sending, wire, arrived,
                     delivered>>
      /\ receiver = "drain" /\ taken < arrived /\ taken' = taken + 1
      /\ \/ UNCHANGED <<receiver, incoming>>
         \/ incoming' = {p} /\ receiver' = "scheduled"
  BY DEF RecvTake, outVars
<1>2. /\ delay \in Nat
      /\ jitter_ms = 0 => delay = add_latency_ms_recv
  <2>1. jitter \in Int /\ (jitter_ms = 0 => jitter = 0)
    BY Types DEF Jitters
  <2> QED BY <2>1, DelayOf, SocketAssumption
<1> HIDE DEF delay
<1>3. /\ p \in Pending /\ p.deliver_at_us >= 0
      /\ p.number = taken + 1 /\ p.outbound = FALSE
      /\ p.deliver_at_us = now + delay
  BY <1>2, Types DEF Pending
<1> HIDE DEF p
<1>4. p \notin Datagrams
  <2> SUFFICES ASSUME p \in Datagrams PROVE FALSE
    OBVIOUS
  <2>1. p.number \in 1..taken
    BY <1>3 DEF SocketInv, Numbered, Submitted
  <2> QED BY <1>3, <2>1, Types
<1>5. incoming = {}
  BY <1>1 DEF SocketInv, Scheduling
<1>6. Numbered' /\ NumberedOnce' /\ DueInOrder'
  <2>1. Datagrams' \subseteq Datagrams \cup {p}
    BY <1>1 DEF Datagrams
  <2>2. p.number = Submitted(p.outbound) + 1
    BY <1>3 DEF Submitted
  <2>3. \A outbound \in BOOLEAN :
            Submitted(outbound)' = IF outbound = p.outbound THEN p.number
                                   ELSE Submitted(outbound)
    BY <1>1, <1>3 DEF Submitted
  <2>4. jitter_ms = 0 => p.deliver_at_us = now + Latency(p.outbound)
    BY <1>2, <1>3 DEF Latency
  <2> QED BY <1>1, <1>3, <2>1, <2>2, <2>3, <2>4, OneNew
<1>7. SocketTypeOK'
  BY <1>1, <1>3, SocketAssumption DEF SocketInv, SocketTypeOK
<1>8. InOnePlace'
  BY <1>1, <1>4, <1>5 DEF SocketInv, InOnePlace, Datagrams
<1>9. Scheduling'
  BY <1>1, <1>5 DEF Scheduling
<1> QED BY <1>6, <1>7, <1>8, <1>9 DEF SocketInv

\* Pushing what recv_from has scheduled keeps the invariant.
LEMMA RecvPushKeeps == SocketInv /\ RecvPush => SocketInv'
<1> SUFFICES ASSUME SocketInv, RecvPush PROVE SocketInv'
  OBVIOUS
<1>1. /\ UNCHANGED <<jitter_ms, now, sent, sending, wire, arrived, taken,
                     delivered>>
      /\ queue' = queue \cup incoming /\ incoming' = {} /\ receiver' = "drain"
  BY DEF RecvPush, outVars
<1>2. Datagrams' \subseteq Datagrams
  BY <1>1 DEF Datagrams
<1>3. Numbered' /\ NumberedOnce' /\ DueInOrder'
  BY <1>1, <1>2, NothingNew, Types
<1>4. SocketTypeOK'
  BY <1>1 DEF SocketInv, SocketTypeOK
<1>5. InOnePlace'
  <2>1. sending \cap incoming = {}
    BY Types
  <2> QED BY <1>1, <2>1 DEF SocketInv, InOnePlace
<1>6. Scheduling'
  BY <1>1 DEF Scheduling
<1> QED BY <1>3, <1>4, <1>5, <1>6 DEF SocketInv

\* What recv_from extracts is inbound, due, and due first.
LEMMA ExtractMoves ==
    ASSUME SocketInv, RecvExtract
    PROVE  \/ UNCHANGED <<queue, delivered>>
           \/ \E p \in Extracts :
                  /\ p \in queue /\ p.outbound = FALSE /\ p.deliver_at_us <= now
                  /\ delivered' = delivered \cup {p} /\ queue' = queue \ {p}
BY DEF RecvExtract, Extracts, Matured

\* Extracting a due datagram, or returning none, keeps the invariant.
LEMMA RecvExtractKeeps == SocketInv /\ RecvExtract => SocketInv'
<1> SUFFICES ASSUME SocketInv, RecvExtract PROVE SocketInv'
  OBVIOUS
<1>1. /\ UNCHANGED <<jitter_ms, now, sent, sending, wire, arrived, taken,
                     incoming>>
      /\ receiver = "locked" /\ receiver' = "idle"
  BY DEF RecvExtract, outVars
<1>2. \/ UNCHANGED <<queue, delivered>>
      \/ \E p \in queue : /\ p.outbound = FALSE
                          /\ delivered' = delivered \cup {p}
                          /\ queue' = queue \ {p}
  BY ExtractMoves
<1>3. Datagrams' \subseteq Datagrams
  BY <1>1, <1>2 DEF Datagrams
<1>4. Numbered' /\ NumberedOnce' /\ DueInOrder'
  BY <1>1, <1>3, NothingNew, Types
<1>5. SocketTypeOK'
  BY <1>1, <1>2 DEF SocketInv, SocketTypeOK
<1>6. InOnePlace'
  BY <1>1, <1>2 DEF SocketInv, InOnePlace
<1>7. Scheduling'
  BY <1>1 DEF SocketInv, Scheduling
<1> QED BY <1>4, <1>5, <1>6, <1>7 DEF SocketInv

\* Every step of the socket keeps the invariant, for all threads.
LEMMA SocketInvNext == SocketInv /\ [SocketNext]_socketVars => SocketInv'
<1> SUFFICES ASSUME SocketInv, [SocketNext]_socketVars PROVE SocketInv'
  OBVIOUS
<1>1. CASE Pump
  <2>1. FlushOutbound /\ receiver' = receiver
        /\ UNCHANGED <<jitter_ms, now, sent, sending, arrived, inVars>>
    BY <1>1 DEF Pump
  <2>2. Scheduling'
    BY <2>1 DEF SocketInv, Scheduling, inVars
  <2> QED BY <2>1, <2>2, FlushKeeps DEF SocketInv
<1>2. CASE RecvFlush
  <2>1. /\ FlushOutbound /\ receiver = "drain" /\ receiver' = "locked"
        /\ UNCHANGED <<jitter_ms, now, sent, sending, arrived, inVars>>
    BY <1>2 DEF RecvFlush, inVars
  <2>2. Scheduling'
    BY <2>1 DEF SocketInv, Scheduling, inVars
  <2> QED BY <2>1, <2>2, FlushKeeps DEF SocketInv
<1>3. CASE RecvStart \/ Arrive \/ Advance \/ UNCHANGED socketVars
  <2>1. /\ UNCHANGED <<jitter_ms, queue, sent, sending, wire, taken, incoming,
                       delivered>>
        /\ \/ receiver' = receiver
           \/ receiver = "idle" /\ receiver' = "drain"
        /\ \/ arrived' = arrived
           \/ arrived < MaxArrivals /\ arrived' = arrived + 1
        /\ \/ now' = now
           \/ now < MaxTime /\ now' = now + 1
    BY <1>3 DEF RecvStart, Arrive, Advance, socketVars, outVars, inVars
  <2>2. /\ arrived' \in 0..MaxArrivals /\ arrived' >= arrived
        /\ now' \in 0..MaxTime /\ now' >= now
    BY <2>1, SocketAssumption DEF SocketInv, SocketTypeOK
  <2>3. Datagrams' \subseteq Datagrams
    BY <2>1 DEF Datagrams
  <2>4. Numbered' /\ NumberedOnce' /\ DueInOrder'
    BY <2>1, <2>2, <2>3, NothingNew
  <2>5. SocketTypeOK'
    <3>1. taken' \in 0..arrived'
      BY <2>1, <2>2 DEF SocketInv, SocketTypeOK
    <3> QED BY <2>1, <2>2, <3>1 DEF SocketInv, SocketTypeOK
  <2>6. InOnePlace' /\ Scheduling'
    BY <2>1 DEF SocketInv, InOnePlace, Scheduling
  <2> QED BY <2>4, <2>5, <2>6 DEF SocketInv
<1> QED BY <1>1, <1>2, <1>3, SendToKeeps, SendPushKeeps, RecvTakeKeeps,
           RecvPushKeeps, RecvExtractKeeps DEF SocketNext, Receiving

\* The socket starts in the invariant, with nothing submitted.
LEMMA SocketInitOK == SocketInit => SocketInv
<1> SUFFICES ASSUME SocketInit PROVE SocketInv
  OBVIOUS
<1>1. Datagrams = {}
  BY DEF SocketInit, Datagrams
<1>2. SocketTypeOK
  BY SocketAssumption DEF SocketInit, SocketTypeOK
<1>3. Scheduling /\ InOnePlace
  BY DEF SocketInit, Scheduling, InOnePlace
<1> QED BY <1>1, <1>2, <1>3 DEF SocketInv, Numbered, NumberedOnce, DueInOrder

\* Each datagram is in one place and numbered once per direction, whatever the
\* threads of the game do with send_to, pump and recv_from.
THEOREM SocketInvariant == SocketSpec => []SocketInv
BY SocketInitOK, SocketInvNext, PTL DEF SocketSpec

\* The socket's variables keep their types; a due time is never before the
\* clock's origin, however negative the jitter.
THEOREM SocketTypeCorrect == SocketSpec => []SocketTypeOK
<1>1. SocketInv => SocketTypeOK
  BY DEF SocketInv
<1> QED BY <1>1, SocketInvariant, PTL

-----------------------------------------------------------------------------
\* In a step that flushes, what stays carried is what was carried and is not
\* sent: no other datagram has the number of one that is.
LEMMA FlushHandsOver ==
    ASSUME SocketInv, FlushOutbound, UNCHANGED <<sent, sending>>
    PROVE  \E some \in SUBSET Numbers({p \in queue : p.outbound} \cup sending) :
               Outbound!HandOver(some)
<1>1. PICK some \in Flushes :
          /\ some \subseteq queue
          /\ \A p \in some : p.outbound = TRUE /\ p.deliver_at_us <= now
          /\ wire' = wire \cup some
          /\ queue' = queue \ some
  BY FlushMoves
<1> DEFINE carried == {p \in queue : p.outbound} \cup sending
<1>2. some \subseteq carried
  BY <1>1
<1>3. {p \in queue' : p.outbound} \cup sending' = carried \ some
  BY <1>1 DEF SocketInv, InOnePlace
<1>4. \A p, q \in carried : p.number = q.number => p = q
  BY Types DEF SocketInv, NumberedOnce, Datagrams
<1> HIDE DEF carried
<1>5. Numbers(carried \ some) = Numbers(carried) \ Numbers(some)
  BY <1>2, <1>4 DEF Numbers
<1>6. Numbers(wire') = Numbers(wire) \cup Numbers(some)
  BY <1>1 DEF Numbers
<1>7. Numbers(some) \in SUBSET Numbers(carried)
  BY <1>2 DEF Numbers
<1>8. Outbound!HandOver(Numbers(some))
  BY <1>3, <1>5, <1>6 DEF Outbound!HandOver, carried
<1> QED BY <1>7, <1>8 DEF carried

\* Every step of the socket is, outbound, one of the channel or none.
LEMMA OutboundStep ==
    SocketInv /\ [SocketNext]_socketVars => [Outbound!Next]_(Outbound!vars)
<1> SUFFICES ASSUME SocketInv, [SocketNext]_socketVars
             PROVE  Outbound!Next \/ UNCHANGED Outbound!vars
  OBVIOUS
<1>1. ASSUME NEW jitter \in Jitters, SendTo(jitter) PROVE Outbound!Next
  <2> DEFINE p == [number |-> sent', outbound |-> TRUE,
                   deliver_at_us |->
                       now + total_ms(add_latency_ms_send, jitter)]
  <2>1. /\ sent' = sent + 1 /\ queue' = queue /\ sending = {}
        /\ \/ UNCHANGED <<sending, wire>>
           \/ wire' = wire \cup {p} /\ UNCHANGED sending
           \/ sending' = {p} /\ UNCHANGED wire
    BY <1>1 DEF SendTo
  <2>2. p.number = sent'
    OBVIOUS
  <2> HIDE DEF p
  <2>3. Outbound!Submit
    BY <2>1, <2>2 DEF Outbound!Submit, Numbers
  <2> QED BY <2>3 DEF Outbound!Next
<1>2. CASE Pump \/ RecvFlush
  <2>1. FlushOutbound /\ UNCHANGED <<sent, sending>>
    BY <1>2 DEF Pump, RecvFlush
  <2> QED BY <2>1, FlushHandsOver DEF Outbound!Next
<1>3. CASE SendPush
  <2>1. /\ queue' = queue \cup sending /\ sending' = {}
        /\ UNCHANGED <<sent, wire>>
    BY <1>3 DEF SendPush
  <2>2. {p \in queue' : p.outbound} \cup sending' =
        {p \in queue : p.outbound} \cup sending
    BY <2>1, Types
  <2> QED BY <2>1, <2>2 DEF Outbound!vars
<1>4. CASE RecvPush
  <2>1. queue' = queue \cup incoming /\ UNCHANGED <<sent, sending, wire>>
    BY <1>4 DEF RecvPush, outVars
  <2>2. {p \in queue' : p.outbound} = {p \in queue : p.outbound}
    BY <2>1, Types
  <2> QED BY <2>1, <2>2 DEF Outbound!vars
<1>5. CASE RecvExtract
  <2>1. UNCHANGED <<sent, sending, wire>>
    BY <1>5 DEF RecvExtract, outVars
  <2>2. {p \in queue' : p.outbound} = {p \in queue : p.outbound}
    BY <1>5, ExtractMoves
  <2> QED BY <2>1, <2>2 DEF Outbound!vars
<1>6. ASSUME \/ RecvStart \/ Arrive \/ Advance \/ UNCHANGED socketVars
             \/ \E jitter \in Jitters : RecvTake(jitter)
      PROVE  UNCHANGED Outbound!vars
  <2>1. UNCHANGED <<sent, sending, wire, queue>>
    BY <1>6 DEF RecvStart, Arrive, Advance, RecvTake, socketVars, outVars
  <2> QED BY <2>1 DEF Outbound!vars
<1> QED BY <1>1, <1>2, <1>3, <1>4, <1>5, <1>6 DEF SocketNext, Receiving

\* Outbound, the socket is a Channel: pushing outside the critical section
\* that scheduled, flushing by two threads, and sharing the queue with the
\* other direction lose nothing and send nothing twice.
THEOREM OutboundChannel == SocketSpec => OutboundIsChannel
<1>1. SocketInit => Outbound!Init
  BY DEF SocketInit, Outbound!Init, Numbers
<1>2. SocketSpec => Outbound!Spec
  BY <1>1, SocketInvariant, OutboundStep, PTL DEF SocketSpec, Outbound!Spec
<1> QED BY <1>2 DEF OutboundIsChannel

\* Taking one datagram out of the queue hands over its number and no other.
LEMMA ExtractHandsOver ==
    ASSUME SocketInv, RecvExtract
    PROVE  \/ UNCHANGED Inbound!vars
           \/ \E some \in SUBSET Numbers({p \in queue : ~p.outbound}
                                         \cup incoming) :
                  Inbound!HandOver(some)
<1>1. UNCHANGED <<taken, incoming>>
  BY DEF RecvExtract
<1>2. CASE UNCHANGED <<queue, delivered>>
  BY <1>1, <1>2 DEF Inbound!vars
<1>3. ASSUME NEW p \in queue, p.outbound = FALSE,
             delivered' = delivered \cup {p}, queue' = queue \ {p}
      PROVE  \E some \in SUBSET Numbers({q \in queue : ~q.outbound}
                                        \cup incoming) :
                 Inbound!HandOver(some)
  <2> DEFINE carried == {q \in queue : ~q.outbound} \cup incoming
  <2>1. p \in carried
    BY <1>3
  <2>2. {q \in queue' : ~q.outbound} \cup incoming' = carried \ {p}
    BY <1>1, <1>3 DEF SocketInv, InOnePlace
  <2>3. \A q, r \in carried : q.number = r.number => q = r
    BY Types DEF SocketInv, NumberedOnce, Datagrams
  <2> HIDE DEF carried
  <2>4. Numbers(carried \ {p}) = Numbers(carried) \ {p.number}
    BY <2>1, <2>3 DEF Numbers
  <2>5. Numbers(delivered') = Numbers(delivered) \cup {p.number}
    BY <1>3 DEF Numbers
  <2>6. {p.number} \in SUBSET Numbers(carried)
    BY <2>1 DEF Numbers
  <2>7. Inbound!HandOver({p.number})
    BY <1>1, <2>2, <2>4, <2>5 DEF Inbound!HandOver, carried
  <2> QED BY <2>6, <2>7 DEF carried
<1> QED BY <1>2, <1>3, ExtractMoves

\* Every step of the socket is, inbound, one of the channel or none.
LEMMA InboundStep ==
    SocketInv /\ [SocketNext]_socketVars => [Inbound!Next]_(Inbound!vars)
<1> SUFFICES ASSUME SocketInv, [SocketNext]_socketVars
             PROVE  Inbound!Next \/ UNCHANGED Inbound!vars
  OBVIOUS
<1>1. ASSUME NEW jitter \in Jitters, RecvTake(jitter) PROVE Inbound!Next
  <2> DEFINE p == [number |-> taken', outbound |-> FALSE,
                   deliver_at_us |->
                       now + total_ms(add_latency_ms_recv, jitter)]
  <2>1. /\ taken' = taken + 1 /\ queue' = queue /\ delivered' = delivered
        /\ incoming = {}
        /\ UNCHANGED incoming \/ incoming' = {p}
    BY <1>1 DEF RecvTake, SocketInv, Scheduling
  <2>2. p.number = taken'
    OBVIOUS
  <2> HIDE DEF p
  <2>3. Inbound!Submit
    BY <2>1, <2>2 DEF Inbound!Submit, Numbers
  <2> QED BY <2>3 DEF Inbound!Next
<1>2. CASE RecvExtract
  BY <1>2, ExtractHandsOver DEF Inbound!Next
<1>3. CASE RecvPush
  <2>1. /\ queue' = queue \cup incoming /\ incoming' = {}
        /\ UNCHANGED <<taken, delivered>>
    BY <1>3 DEF RecvPush
  <2>2. {p \in queue' : ~p.outbound} \cup incoming' =
        {p \in queue : ~p.outbound} \cup incoming
    BY <2>1, Types
  <2> QED BY <2>1, <2>2 DEF Inbound!vars
<1>4. CASE SendPush
  <2>1. queue' = queue \cup sending /\ UNCHANGED <<taken, incoming, delivered>>
    BY <1>4 DEF SendPush, inVars
  <2>2. {p \in queue' : ~p.outbound} = {p \in queue : ~p.outbound}
    BY <2>1, Types
  <2> QED BY <2>1, <2>2 DEF Inbound!vars
<1>5. CASE Pump \/ RecvFlush
  <2>1. FlushOutbound /\ UNCHANGED <<taken, incoming, delivered>>
    BY <1>5 DEF Pump, RecvFlush, inVars
  <2>2. {p \in queue' : ~p.outbound} = {p \in queue : ~p.outbound}
    BY <2>1, FlushMoves
  <2> QED BY <2>1, <2>2 DEF Inbound!vars
<1>6. ASSUME \/ RecvStart \/ Arrive \/ Advance \/ UNCHANGED socketVars
             \/ \E jitter \in Jitters : SendTo(jitter)
      PROVE  UNCHANGED Inbound!vars
  <2>1. UNCHANGED <<taken, incoming, delivered, queue>>
    BY <1>6 DEF RecvStart, Arrive, Advance, SendTo, socketVars, inVars
  <2> QED BY <2>1 DEF Inbound!vars
<1> QED BY <1>1, <1>2, <1>3, <1>4, <1>5, <1>6 DEF SocketNext, Receiving

\* Inbound, the socket is a Channel too: taking the queue apart to find one
\* entry loses none of the others and returns none twice.
THEOREM InboundChannel == SocketSpec => InboundIsChannel
<1>1. SocketInit => Inbound!Init
  BY DEF SocketInit, Inbound!Init, Numbers
<1>2. SocketSpec => Inbound!Spec
  BY <1>1, SocketInvariant, InboundStep, PTL DEF SocketSpec, Inbound!Spec
<1> QED BY <1>2 DEF InboundIsChannel

-----------------------------------------------------------------------------
\* What a step hands over is due, and nothing of its direction that stays in
\* the queue is due before it.
DueFirst ==
    \A p \in (wire' \ wire) \cup (delivered' \ delivered) :
        /\ p.deliver_at_us <= now
        /\ \A q \in queue' : p \in queue /\ p.outbound = q.outbound
               => p.deliver_at_us <= q.deliver_at_us

\* No step takes out what is not due, or not due first.
LEMMA StepsAreDueFirst ==
    SocketInv /\ [SocketNext]_socketVars => DueFirst
<1> SUFFICES ASSUME SocketInv, [SocketNext]_socketVars PROVE DueFirst
  OBVIOUS
<1>1. ASSUME NEW jitter \in Jitters, SendTo(jitter) PROVE DueFirst
  <2> DEFINE delay == total_ms(add_latency_ms_send, jitter)
             p == [number |-> sent', deliver_at_us |-> now + delay,
                   outbound |-> TRUE]
  <2>1. /\ queue' = queue /\ delivered' = delivered /\ sent' = sent + 1
        /\ \/ wire' = wire
           \/ delay = 0 /\ wire' = wire \cup {p}
    BY <1>1 DEF SendTo, inVars
  <2>2. delay = 0 => p.deliver_at_us <= now
    BY Types
  <2>3. p \notin queue
    <3> SUFFICES ASSUME p \in queue PROVE FALSE
      OBVIOUS
    <3>1. p.number = sent + 1 /\ p.outbound = TRUE
      BY <2>1
    <3>2. p.number \in 1..sent
      BY <3>1 DEF SocketInv, Numbered, Datagrams, Submitted
    <3> QED BY <3>1, <3>2, Types
  <2> HIDE DEF delay, p
  <2> QED BY <2>1, <2>2, <2>3 DEF DueFirst
<1>2. CASE Pump \/ RecvFlush
  <2>1. FlushOutbound /\ delivered' = delivered
    BY <1>2 DEF Pump, RecvFlush, inVars
  <2>2. PICK some \in Flushes :
            /\ some \subseteq queue
            /\ \A p \in some : p.outbound = TRUE /\ p.deliver_at_us <= now
            /\ wire' = wire \cup some
            /\ queue' = queue \ some
    BY <2>1, FlushMoves
  <2>3. \A p \in some, q \in queue \ some : p.deliver_at_us <= q.deliver_at_us
    BY DEF Flushes, PopsBefore
  <2> QED BY <2>1, <2>2, <2>3 DEF DueFirst
<1>3. CASE RecvExtract
  <2>1. wire' = wire
    BY <1>3 DEF RecvExtract, outVars
  <2>2. ASSUME NEW p \in Extracts,
               p \in queue, p.outbound = FALSE, p.deliver_at_us <= now,
               delivered' = delivered \cup {p}, queue' = queue \ {p}
        PROVE  DueFirst
    <3>1. ASSUME NEW q \in queue, p.outbound = q.outbound
          PROVE  p.deliver_at_us <= q.deliver_at_us
      <4>1. CASE q.deliver_at_us <= now
        BY <2>2, <3>1, <4>1 DEF Extracts, Matured, PopsBefore
      <4>2. CASE ~(q.deliver_at_us <= now)
        BY <2>2, <4>2, Types DEF Datagrams
      <4> QED BY <4>1, <4>2
    <3> QED BY <2>1, <2>2, <3>1 DEF DueFirst
  <2> QED BY <1>3, <2>1, <2>2, ExtractMoves DEF DueFirst
<1>4. ASSUME \/ SendPush \/ RecvStart \/ RecvPush \/ Arrive \/ Advance
             \/ UNCHANGED socketVars
             \/ \E jitter \in Jitters : RecvTake(jitter)
      PROVE  DueFirst
  <2>1. wire' = wire /\ delivered' = delivered
    BY <1>4 DEF SendPush, RecvStart, RecvPush, Arrive, Advance, RecvTake,
                socketVars, outVars, inVars
  <2> QED BY <2>1 DEF DueFirst
<1> QED BY <1>1, <1>2, <1>3, <1>4 DEF SocketNext, Receiving

\* Nothing leaves the queue before it is due, nor after what is due later.
THEOREM DueOrder == SocketSpec => DueOrderKept
<1>1. SocketSpec => [][DueFirst]_socketVars
  BY SocketInvariant, StepsAreDueFirst, PTL DEF SocketSpec
<1> QED BY <1>1 DEF DueOrderKept, DueFirst

-----------------------------------------------------------------------------
\* What send_to has scheduled is the newest datagram, and with neither jitter
\* nor latency nothing is scheduled outbound.
Unqueued ==
    /\ \A p \in sending : p.number = sent
    /\ jitter_ms = 0 /\ add_latency_ms_send = 0
           => \A p \in queue \cup sending : p.outbound = FALSE

\* It stays so, since what is due at once is sent at once.
LEMMA UnqueuedNext ==
    SocketInv /\ Unqueued /\ [SocketNext]_socketVars => Unqueued'
<1> SUFFICES ASSUME SocketInv, Unqueued, [SocketNext]_socketVars
             PROVE  Unqueued'
  OBVIOUS
<1>1. ASSUME NEW jitter \in Jitters, SendTo(jitter) PROVE Unqueued'
  <2> DEFINE delay == total_ms(add_latency_ms_send, jitter)
             p == [number |-> sent', deliver_at_us |-> now + delay,
                   outbound |-> TRUE]
  <2>1. /\ UNCHANGED <<jitter_ms, queue>> /\ sending = {}
        /\ \/ sending' = sending
           \/ delay # 0 /\ sending' = {p}
    BY <1>1 DEF SendTo
  <2>2. jitter_ms = 0 /\ add_latency_ms_send = 0 => delay = 0
    <3>1. jitter \in Int /\ (jitter_ms = 0 => jitter = 0)
      BY Types DEF Jitters
    <3> QED BY <3>1, DelayOf
  <2>3. p.number = sent'
    OBVIOUS
  <2> HIDE DEF delay, p
  <2> QED BY <2>1, <2>2, <2>3 DEF Unqueued
<1>2. CASE SendPush
  <2>1. /\ UNCHANGED <<jitter_ms, sent>>
        /\ queue' = queue \cup sending /\ sending' = {}
    BY <1>2 DEF SendPush
  <2> QED BY <2>1 DEF Unqueued
<1>3. CASE RecvPush
  <2>1. /\ UNCHANGED <<jitter_ms, sent, sending>>
        /\ queue' = queue \cup incoming
    BY <1>3 DEF RecvPush, outVars
  <2> QED BY <2>1, Types DEF Unqueued
<1>4. ASSUME \/ Pump \/ RecvFlush \/ RecvExtract \/ RecvStart \/ Arrive
             \/ Advance \/ UNCHANGED socketVars
             \/ \E jitter \in Jitters : RecvTake(jitter)
      PROVE  Unqueued'
  <2>1. UNCHANGED <<jitter_ms, sent, sending>> /\ queue' \subseteq queue
    BY <1>4, FlushMoves, ExtractMoves
       DEF Pump, RecvFlush, RecvExtract, RecvStart, Arrive, Advance, RecvTake,
           socketVars, outVars
  <2> QED BY <2>1 DEF Unqueued
<1> QED BY <1>1, <1>2, <1>3, <1>4 DEF SocketNext, Receiving

\* In a step, and with no jitter configured, what is handed over overtakes
\* nothing of its direction that was submitted before it, unless the two are
\* due at the same instant.
OvertakesNothing ==
    jitter_ms = 0 =>
        \A p \in (wire' \ wire) \cup (delivered' \ delivered),
          q \in queue' \cup sending' \cup incoming' :
            p.outbound = q.outbound /\ p.number > q.number
                => p.deliver_at_us = q.deliver_at_us

\* Without jitter no step takes out what would leave an earlier one behind.
LEMMA StepsOvertakeNothing ==
    SocketInv /\ Unqueued /\ [SocketNext]_socketVars => OvertakesNothing
<1> SUFFICES ASSUME SocketInv, Unqueued, [SocketNext]_socketVars,
                    jitter_ms = 0,
                    NEW p \in (wire' \ wire) \cup (delivered' \ delivered),
                    NEW q \in queue' \cup sending' \cup incoming',
                    p.outbound = q.outbound, p.number > q.number
             PROVE  p.deliver_at_us = q.deliver_at_us
  BY DEF OvertakesNothing
<1>1. SocketInv' /\ Unqueued' /\ DueFirst
  BY SocketInvNext, UnqueuedNext, StepsAreDueFirst
<1>2. jitter_ms' = 0
  BY DEF SocketNext, SendTo, SendPush, Pump, RecvStart, Receiving, RecvTake,
         RecvPush, RecvFlush, RecvExtract, Arrive, Advance, socketVars
<1>3. p \in Datagrams' /\ q \in Datagrams'
  BY DEF Datagrams
<1>4. /\ p.number \in Nat /\ q.number \in Nat
      /\ p.deliver_at_us \in Nat /\ q.deliver_at_us \in Nat
  BY <1>1, <1>3 DEF SocketInv, SocketTypeOK, Pending, Datagrams
<1>5. q.deliver_at_us <= p.deliver_at_us
  BY <1>1, <1>2, <1>3, <1>4 DEF SocketInv, DueInOrder
<1>6. CASE p \in queue /\ q \in queue'
  <2>1. p.deliver_at_us <= q.deliver_at_us
    BY <1>1, <1>6 DEF DueFirst
  <2> QED BY <1>4, <1>5, <2>1
<1>7. q \in queue'
  <2>1. q \notin sending'
    <3> SUFFICES ASSUME q \in sending' PROVE FALSE
      OBVIOUS
    <3>1. q.number = sent' /\ q.outbound = TRUE
      BY <1>1 DEF Unqueued, SocketInv, SocketTypeOK, Pending
    <3>2. p.number \in 1..sent'
      BY <1>1, <1>3, <3>1 DEF SocketInv, Numbered, Submitted
    <3> QED BY <1>4, <3>1, <3>2
  <2>2. q \notin incoming'
    <3> SUFFICES ASSUME q \in incoming' PROVE FALSE
      OBVIOUS
    <3>1. q.outbound = FALSE
      BY <1>1 DEF SocketInv, SocketTypeOK, Pending
    <3>2. p \in delivered' \ delivered
      BY <1>1, <3>1 DEF SocketInv, SocketTypeOK, Pending
    <3>3. RecvExtract
      BY <3>2 DEF SocketNext, SendTo, SendPush, Pump, RecvStart, Receiving,
                  RecvTake, RecvPush, RecvFlush, Arrive, Advance, socketVars,
                  inVars
    <3>4. incoming' = {}
      BY <1>1, <3>3 DEF RecvExtract, SocketInv, Scheduling
    <3> QED BY <3>4
  <2> QED BY <2>1, <2>2
<1>8. p \in queue
  <2>1. CASE p \in delivered' \ delivered
    <3>1. RecvExtract
      BY <2>1 DEF SocketNext, SendTo, SendPush, Pump, RecvStart, Receiving,
                  RecvTake, RecvPush, RecvFlush, Arrive, Advance, socketVars,
                  inVars
    <3> QED BY <2>1, <3>1, ExtractMoves
  <2>2. CASE p \in wire' \ wire
    <3>1. CASE Pump \/ RecvFlush
      BY <2>2, <3>1, FlushMoves DEF Pump, RecvFlush
    <3>2. ASSUME NEW jitter \in Jitters, SendTo(jitter) PROVE FALSE
      <4> DEFINE delay == total_ms(add_latency_ms_send, jitter)
      <4>1. jitter = 0
        BY DEF Jitters
      <4>2. delay = add_latency_ms_send
        BY <4>1, DelayOf, SocketAssumption
      <4>3. delay = 0
        BY <2>2, <3>2 DEF SendTo
      <4>4. q.outbound = FALSE
        BY <1>1, <1>2, <1>7, <4>2, <4>3 DEF Unqueued
      <4>5. p.outbound = TRUE
        BY <1>1, <2>2 DEF SocketInv, SocketTypeOK, Pending
      <4> QED BY <4>4, <4>5
    <3> QED BY <2>2, <3>1, <3>2
            DEF SocketNext, SendPush, RecvStart, Receiving, RecvTake, RecvPush,
                RecvExtract, Arrive, Advance, socketVars, outVars
  <2> QED BY <2>1, <2>2
<1> QED BY <1>6, <1>7, <1>8

\* Without jitter the conditioner delays and does not reorder, in either
\* direction, with both threads at work.
THEOREM NoOvertakingWithoutJitter == SocketSpec => [][OvertakesNothing]_socketVars
<1>1. SocketInit => Unqueued
  BY DEF SocketInit, Unqueued
<1> QED BY <1>1, SocketInvariant, UnqueuedNext, StepsOvertakeNothing, PTL
        DEF SocketSpec

-----------------------------------------------------------------------------
(***************************************************************************)
(* The wire format.  First the numbers: dividing by the powers of Base and *)
(* adding up again.  Then what a writer appends and a reader consumes, for *)
(* a number, a struct, the states of a snapshot and a whole packet.  At    *)
(* last the packet on its way and what is made of it.                      *)
(***************************************************************************)
\* The powers of Base, one by one.
LEMMA Powers ==
    /\ Power[0] = 1
    /\ \A k \in 0..3 : Power[k + 1] = Base * Power[k]
    /\ \A k \in 0..4 : Power[k] \in Nat \ {0}
<1> DEFINE b == Base * Base
           c == Base * b
           d == Base * c
           Body(f) == [k \in 0..4 |-> IF k = 0 THEN 1 ELSE Base * f[k - 1]]
           w == [k \in 0..4 |-> IF k = 0 THEN 1 ELSE IF k = 1 THEN Base
                                ELSE IF k = 2 THEN b ELSE IF k = 3 THEN c ELSE d]
<1>a. Base \in Nat \ {0}
  BY SerializationAssumption
<1>b. b \in Nat \ {0} /\ c \in Nat \ {0} /\ d \in Nat \ {0}
  <2>1. \A x, y \in Nat \ {0} : x * y \in Nat \ {0}
    BY Z3
  <2> HIDE DEF b, c, d
  <2> QED BY <1>a, <2>1 DEF b, c, d
<1>1. w = Body(w)
  <2> HIDE DEF b, c, d
  <2>1. ASSUME NEW k \in 0..4 PROVE w[k] = Body(w)[k]
    <3>1. k = 0 \/ k = 1 \/ k = 2 \/ k = 3 \/ k = 4
      OBVIOUS
    <3>2. CASE k = 0
      BY <3>2
    <3>3. CASE k = 1
      BY <1>a, <3>3
    <3>4. CASE k = 2
      BY <3>4 DEF b
    <3>5. CASE k = 3
      BY <3>5 DEF c
    <3>6. CASE k = 4
      BY <3>6 DEF d
    <3> QED BY <3>1, <3>2, <3>3, <3>4, <3>5, <3>6
  <2> QED BY <2>1
<1>2. Power = Body(Power)
  <2>1. Power = CHOOSE f : f = Body(f)
    BY DEF Power
  <2> HIDE DEF Body, w
  <2> QED BY <1>1, <2>1
<1>3. Power[0] = 1 /\ \A k \in 1..4 : Power[k] = Base * Power[k - 1]
  <2> \A k \in 0..4 : Power[k] = Body(Power)[k]
    BY <1>2
  <2> QED OBVIOUS
<1>4. \A k \in 0..3 : Power[k + 1] = Base * Power[k]
  <2> TAKE k \in 0..3
  <2>1. k + 1 \in 1..4 /\ (k + 1) - 1 = k
    OBVIOUS
  <2> QED BY <1>3, <2>1
<1>5. \A k \in 0..4 : Power[k] \in Nat \ {0}
  <2>1. Power[1] = Base
    <3>1. Power[0 + 1] = Base * Power[0]
      BY <1>4
    <3> QED BY <1>a, <1>3, <3>1
  <2>2. Power[2] = b
    <3>1. Power[1 + 1] = Base * Power[1]
      BY <1>4
    <3> QED BY <2>1, <3>1
  <2>3. Power[3] = c
    <3>1. Power[2 + 1] = Base * Power[2]
      BY <1>4
    <3> QED BY <2>2, <3>1
  <2>4. Power[4] = d
    <3>1. Power[3 + 1] = Base * Power[3]
      BY <1>4
    <3> QED BY <2>3, <3>1
  <2> HIDE DEF b, c, d
  <2> QED BY <1>a, <1>b, <1>3, <2>1, <2>2, <2>3, <2>4
<1> QED BY <1>3, <1>4, <1>5

\* Quotient and remainder are what they have to be.
LEMMA Quotient ==
    ASSUME NEW a \in Nat \ {0}, NEW q \in Int, NEW r \in 0..a - 1
    PROVE  (a * q + r) \div a = q /\ (a * q + r) % a = r
BY Z3

\* What is left by a division is smaller than the divisor.
LEMMA Remainder ==
    ASSUME NEW a \in Nat \ {0}, NEW v \in Nat
    PROVE  /\ v \div a \in Nat /\ v % a \in 0..a - 1
           /\ v = a * (v \div a) + (v % a)
BY Z3

\* Dividing twice is dividing once.
LEMMA DividedTwice ==
    ASSUME NEW a \in Nat \ {0}, NEW b \in Nat \ {0}, NEW v \in Nat
    PROVE  (v \div a) \div b = v \div (b * a)
<1> DEFINE q == v \div a
           r == v % a
           s == q \div b
           t == q % b
           rest == a * t + r
<1>1. q \in Nat /\ r \in 0..a - 1 /\ v = a * q + r
  BY Remainder
<1> HIDE DEF q, r
<1>2. s \in Nat /\ t \in 0..b - 1 /\ q = b * s + t
  BY <1>1, Remainder
<1> HIDE DEF s, t
<1>3. b * a \in Nat \ {0}
  BY Z3
<1>4. rest \in 0..b * a - 1
  <2>1. a * t \in Nat /\ a * t <= a * (b - 1)
    BY <1>2, Z3
  <2>2. a * (b - 1) = b * a - a
    BY Z3
  <2>3. b * a \in Int
    BY <1>3
  <2> DEFINE ba == b * a
             at == a * t
  <2>4. at \in Nat /\ at <= ba - a /\ ba \in Int
    BY <2>1, <2>2, <2>3
  <2> HIDE DEF ba, at
  <2>5. at + r \in 0..ba - 1
    BY <1>1, <2>4
  <2> QED BY <2>5 DEF ba, at
<1>5. v = (b * a) * s + rest
  <2>1. a * (b * s + t) = (b * a) * s + a * t
    BY <1>2, Z3
  <2> DEFINE big == (b * a) * s
             at  == a * t
  <2>2. big \in Int /\ at \in Int
    BY <1>2, <1>3, Z3
  <2>3. v = (big + at) + r
    BY <1>1, <1>2, <2>1
  <2> HIDE DEF big, at
  <2>4. v = big + (at + r)
    BY <1>1, <2>2, <2>3
  <2> QED BY <2>4 DEF big, at
<1> DEFINE ba == b * a
<1> HIDE DEF rest
<1>6. (ba * s + rest) \div ba = s
  <2>1. ba \in Nat \ {0} /\ rest \in 0..ba - 1 /\ s \in Int
    BY <1>2, <1>3, <1>4
  <2> HIDE DEF ba
  <2> QED BY <2>1, Quotient
<1> QED BY <1>5, <1>6 DEF s, q

\* Unsigned, one byte at a time.
LEMMA UnsignedOneByOne ==
    ASSUME NEW bytes, Len(bytes) \in Nat
    PROVE  \E f : /\ f[0] = 0
                  /\ \A i \in 1..Len(bytes) : f[i] = f[i - 1] * Base + bytes[i]
                  /\ Unsigned(bytes) = f[Len(bytes)]
<1> DEFINE n == Len(bytes)
           Body(f, k) == [i \in 0..k |-> IF i = 0 THEN 0
                                         ELSE f[i - 1] * Base + bytes[i]]
           K == {k \in 0..n : \E w : w = Body(w, k)}
           after == CHOOSE f : f = Body(f, n)
<1>0. Unsigned(bytes) = after[n]
  BY DEF Unsigned
<1> HIDE DEF n
<1>a. n \in Nat
  BY DEF n
<1>1. 0 \in K
  <2>1. [i \in 0..0 |-> 0] = Body([i \in 0..0 |-> 0], 0)
    OBVIOUS
  <2> HIDE DEF Body
  <2> QED BY <1>a, <2>1
<1>2. ASSUME NEW k \in 0..n - 1, k \in K PROVE k + 1 \in K
  <2>1. PICK w : w = Body(w, k)
    BY <1>2
  <2> DEFINE next == w[k] * Base + bytes[k + 1]
             v == [i \in 0..k + 1 |-> IF i <= k THEN w[i] ELSE next]
  <2>2. ASSUME NEW i \in 0..k + 1 PROVE v[i] = Body(v, k + 1)[i]
    <3>1. CASE i = 0
      BY <1>a, <2>1, <3>1
    <3>2. CASE i \in 1..k
      <4>1. v[i] = w[i] /\ v[i - 1] = w[i - 1] /\ i \in 0..k
        BY <1>a, <3>2
      <4>2. w[i] = Body(w, k)[i]
        BY <2>1
      <4> QED BY <3>2, <4>1, <4>2
    <3>3. CASE i = k + 1
      <4>1. v[i] = next /\ v[i - 1] = w[k]
        BY <1>a, <3>3
      <4> QED BY <1>a, <3>3, <4>1
    <3> QED BY <1>a, <3>1, <3>2, <3>3
  <2>3. v = Body(v, k + 1)
    BY <2>2
  <2>4. k + 1 \in 0..n
    BY <1>a
  <2> HIDE DEF Body, v
  <2> QED BY <2>3, <2>4
<1>3. n \in K
  <2> HIDE DEF K
  <2>1. 0..n \subseteq K
    BY <1>a, <1>1, <1>2, UpTo
  <2> QED BY <1>a, <2>1
<1>4. after = Body(after, n)
  <2> HIDE DEF Body
  <2> QED BY <1>3
<1> HIDE DEF after
<1>5. after[0] = 0 /\ \A i \in 1..n : after[i] = after[i - 1] * Base + bytes[i]
  <2>1. \A i \in 0..n : after[i] = Body(after, n)[i]
    BY <1>4
  <2> QED BY <1>a, <2>1
<1> QED BY <1>0, <1>5 DEF n

\* Horner's rule undoes one division.
LEMMA NextDigit ==
    ASSUME NEW v \in Nat, NEW k \in 0..3
    PROVE  (v \div Power[k + 1]) * Base + ((v \div Power[k]) % Base)
               = v \div Power[k]
<1> DEFINE a == Power[k]
           q == v \div a
<1>1. a \in Nat \ {0} /\ Base \in Nat \ {0} /\ Power[k + 1] = Base * a
  BY Powers, SerializationAssumption
<1> HIDE DEF a
<1>2. q \div Base = v \div (Base * a)
  BY <1>1, DividedTwice
<1>3. q \in Nat
  BY <1>1, Remainder
<1> HIDE DEF q
<1>4. q \div Base \in Nat /\ q % Base \in 0..Base - 1
      /\ q = Base * (q \div Base) + (q % Base)
  BY <1>1, <1>3, Remainder
<1>5. \A x \in Nat : Base * x = x * Base
  BY <1>1
<1>6. q = (q \div Base) * Base + (q % Base)
  BY <1>4, <1>5
<1>7. q = (v \div Power[k + 1]) * Base + (q % Base)
  BY <1>1, <1>2, <1>6
<1> QED BY <1>7 DEF q, a

\* Reading what htons and htonl have written gives the number back.
LEMMA UnsignedBigEndian ==
    ASSUME NEW n \in 1..4, NEW v \in 0..Power[n] - 1
    PROVE  Unsigned(BigEndian(v, n)) = v
<1> DEFINE bytes == BigEndian(v, n)
<1>1. bytes = [i \in 1..n |-> (v \div Power[n - i]) % Base]
  BY DEF BigEndian
<1>2. Len(bytes) = n /\ \A i \in 1..n : bytes[i] = (v \div Power[n - i]) % Base
  BY <1>1
<1> HIDE DEF bytes
<1>3. PICK f : /\ f[0] = 0
               /\ \A i \in 1..n : f[i] = f[i - 1] * Base + bytes[i]
               /\ Unsigned(bytes) = f[n]
  <2>1. Len(bytes) \in Nat
    BY <1>2
  <2>2. \E f : /\ f[0] = 0
               /\ \A i \in 1..Len(bytes) : f[i] = f[i - 1] * Base + bytes[i]
               /\ Unsigned(bytes) = f[Len(bytes)]
    BY <2>1, UnsignedOneByOne, Zenon
  <2> QED BY <1>2, <2>2, Zenon
<1> DEFINE S == {i \in 0..n : f[i] = v \div Power[n - i]}
<1>4. Power[n] \in Nat \ {0} /\ v \in Nat
  BY Powers
<1>5. 0 \in S
  <2>1. v \div Power[n] = 0
    BY <1>4, Z3
  <2> QED BY <1>3, <2>1
<1>6. ASSUME NEW k \in 0..n - 1, k \in S PROVE k + 1 \in S
  <2> DEFINE m == n - (k + 1)
  <2>1. m \in 0..3 /\ m + 1 = n - k /\ k + 1 \in 1..n /\ (k + 1) - 1 = k
    BY SMT
  <2>2. f[k + 1] = f[k] * Base + bytes[k + 1]
    BY <1>3, <2>1
  <2>3. bytes[k + 1] = (v \div Power[m]) % Base
    BY <1>2, <2>1
  <2>4. f[k] = v \div Power[m + 1]
    BY <1>6, <2>1
  <2> HIDE DEF m
  <2>5. (v \div Power[m + 1]) * Base + ((v \div Power[m]) % Base)
            = v \div Power[m]
    BY <1>4, <2>1, NextDigit
  <2>6. f[k + 1] = v \div Power[m]
    <3>1. f[k] * Base + bytes[k + 1] = v \div Power[m]
      BY <2>3, <2>4, <2>5, Zenon
    <3> QED BY <2>2, <3>1, Zenon
  <2> QED BY <2>1, <2>6 DEF m
<1>7. n \in S
  <2> HIDE DEF S
  <2>1. 0..n \subseteq S
    BY <1>5, <1>6, UpTo
  <2> QED BY <2>1
<1>8. f[n] = v \div Power[0]
  BY <1>7
<1>9. v \div 1 = v
  BY <1>4, Z3
<1> QED BY <1>3, <1>8, <1>9, Powers DEF bytes

\* The widths, and the numbers of each kind.
LEMMA Kinds ==
    ASSUME NEW kind \in DOMAIN Width
    PROVE  /\ Width[kind] \in {1, 2, 4} /\ Scalars[kind] \subseteq Int
           /\ kind = "i8" => Width[kind] = 1 /\ Scalars[kind] =
                   -(Base \div 2)..Base \div 2 - 1
           /\ kind # "i8" => Scalars[kind] = 0..Power[Width[kind]] - 1
<1>1. Width[kind] \in {1, 2, 4}
  BY DEF Width
<1>2. Base \div 2 \in Int
  BY SerializationAssumption
<1>3. Power[Width[kind]] \in Int
  BY <1>1, Powers
<1>4. kind = "i8" => Width[kind] = 1
  BY DEF Width
<1> HIDE DEF Width
<1> QED BY <1>1, <1>2, <1>3, <1>4 DEF Scalars

\* The same with the casts of an i8 to a byte and back.
LEMMA ValueBigEndian ==
    ASSUME NEW kind \in DOMAIN Width, NEW v \in Scalars[kind]
    PROVE  Value(kind, BigEndian(v, Width[kind])) = v
<1>1. Width[kind] \in 1..4
  BY Kinds
<1>2. CASE kind # "i8"
  BY <1>1, <1>2, Kinds, UnsignedBigEndian DEF Value
<1>3. CASE kind = "i8"
  <2> DEFINE half == Base \div 2
             u == IF v >= 0 THEN v ELSE v + Base
  <2>1. Base \in Nat \ {0} /\ half \in Nat /\ Base = 2 * half
    BY SerializationAssumption, Z3
  <2>2. v \in -half..half - 1 /\ Width[kind] = 1
    BY <1>3, Kinds
  <2> HIDE DEF half
  <2>3. u \in 0..Base - 1 /\ u = (IF u >= half THEN v + Base ELSE v)
    BY <2>1, <2>2
  <2>4. v % Base = u
    <3>1. CASE v >= 0
      <4>1. v = u /\ v \in 0..Base - 1
        BY <2>3, <3>1
      <4> QED BY <2>1, <4>1, Unwrapped
    <3>2. CASE v < 0
      <4>1. v = Base * (-1) + u
        BY <2>1, <2>2, <3>2
      <4> HIDE DEF u
      <4>2. (Base * (-1) + u) % Base = u
        BY <2>1, <2>3, Quotient
      <4> QED BY <4>1, <4>2
    <3> QED BY <2>2, <3>1, <3>2
  <2>5. BigEndian(v, 1) = [i \in 1..1 |-> u]
    <3>1. Power[0] = 1 /\ v \div 1 = v
      BY <2>1, <2>2, Powers, Z3
    <3> HIDE DEF u
    <3>2. \A i \in 1..1 : (v \div Power[1 - i]) % Base = u
      BY <2>4, <3>1
    <3> QED BY <3>2 DEF BigEndian
  <2>6. BigEndian(u, 1) = [i \in 1..1 |-> u]
    <3> HIDE DEF u
    <3>1. Power[0] = 1 /\ u \div 1 = u
      BY <2>3, Powers, Z3
    <3>2. u % Base = u
      BY <2>1, <2>3, Unwrapped
    <3>3. \A i \in 1..1 : (u \div Power[1 - i]) % Base = u
      BY <3>1, <3>2
    <3> QED BY <3>3 DEF BigEndian
  <2>7. Power[1] = Base
    BY <2>1, Powers
  <2> HIDE DEF u
  <2>8. Unsigned(BigEndian(v, 1)) = u
    BY <2>3, <2>5, <2>6, <2>7, UnsignedBigEndian
  <2>9. Value(kind, BigEndian(v, Width[kind])) =
            IF u >= half THEN u - Base ELSE u
    BY <1>3, <2>2, <2>8 DEF Value, half
  <2> QED BY <2>1, <2>2, <2>3, <2>9 DEF u
<1> QED BY <1>2, <1>3

-----------------------------------------------------------------------------
\* A writer that has not run over its buffer.
Writer(w) ==
    /\ w \in [data : Seq(Int), cap : Nat, ok : BOOLEAN]
    /\ w.ok => Len(w.data) <= w.cap

\* The bytes of a number of a kind, from a place on.
Holds(data, at, kind, v) ==
    /\ at + Width[kind] <= Len(data)
    /\ \A i \in 1..Width[kind] : data[at + i] = BigEndian(v, Width[kind])[i]

\* What has been written stays as it is.
Extended(old, data) ==
    /\ Len(old) <= Len(data)
    /\ \A i \in 1..Len(old) : data[i] = old[i]

\* So many bytes more have been written, if there was room for them.
Appended(w, u, size) ==
    /\ Writer(u)
    /\ u.cap = w.cap
    /\ u.ok <=> w.ok /\ Len(w.data) + size <= w.cap
    /\ u.ok => Len(u.data) = Len(w.data) + size /\ Extended(w.data, u.data)

\* A writer has appended nothing to itself.
LEMMA NothingAppended ==
    ASSUME NEW w, Writer(w)
    PROVE  Appended(w, w, 0)
<1>1. Len(w.data) \in Nat
  BY DEF Writer
<1>2. Extended(w.data, w.data)
  BY <1>1 DEF Extended
<1> QED BY <1>1, <1>2 DEF Appended, Writer

\* What is appended in two turns adds up, whether or not it fits: a writer that
\* has run over its buffer stays so.
LEMMA AppendedInTurn ==
    ASSUME NEW w, Writer(w), NEW u, NEW x, NEW size \in Nat, NEW more \in Nat,
           Appended(w, u, size), Appended(u, x, more)
    PROVE  Appended(w, x, size + more)
<1>1. /\ Len(w.data) \in Nat /\ Len(u.data) \in Nat /\ Len(x.data) \in Nat
      /\ w.ok \in BOOLEAN /\ u.ok \in BOOLEAN /\ x.ok \in BOOLEAN
      /\ w.cap \in Nat
  BY DEF Writer, Appended
<1>2. Writer(x) /\ x.cap = w.cap
  BY DEF Appended
<1> DEFINE n == Len(w.data)
           m == Len(u.data)
           l == Len(x.data)
           cap == w.cap
<1>3. /\ n \in Nat /\ m \in Nat /\ l \in Nat /\ cap \in Nat
      /\ u.ok <=> w.ok /\ n + size <= cap
      /\ u.ok => m = n + size /\ Extended(w.data, u.data)
      /\ x.ok <=> u.ok /\ m + more <= cap
      /\ x.ok => l = m + more /\ Extended(u.data, x.data)
  BY <1>1 DEF Appended
<1> HIDE DEF n, m, l, cap
<1>4. x.ok <=> w.ok /\ n + (size + more) <= cap
  BY <1>1, <1>3
<1>5. ASSUME x.ok
      PROVE  l = n + (size + more) /\ Extended(w.data, x.data)
  <2>1. l = n + (size + more) /\ n <= m /\ m <= l
    BY <1>1, <1>3, <1>5
  <2>2. \A i \in 1..n : i \in 1..m
    BY <1>3, <2>1
  <2>3. Extended(w.data, u.data) /\ Extended(u.data, x.data)
    BY <1>3, <1>5
  <2>4. \A i \in 1..n : x.data[i] = w.data[i]
    BY <2>2, <2>3 DEF Extended, n, m
  <2>5. n <= l
    BY <1>3, <2>1
  <2>6. Extended(w.data, x.data)
    BY <2>4, <2>5 DEF Extended, n, l
  <2> QED BY <2>1, <2>6
<1> QED BY <1>2, <1>4, <1>5 DEF Appended, n, l, cap

\* A number written stays where it is, whatever is written after it.
LEMMA HoldsWhenExtended ==
    ASSUME NEW old, NEW data, Len(old) \in Nat, Len(data) \in Nat,
           Extended(old, data), NEW at \in Nat, NEW kind \in DOMAIN Width,
           NEW v, Holds(old, at, kind, v)
    PROVE  Holds(data, at, kind, v)
<1>1. Width[kind] \in Nat
  BY Kinds
<1>2. \A i \in 1..Width[kind] : at + i \in 1..Len(old)
  BY <1>1 DEF Holds
<1> HIDE DEF Width
<1> QED BY <1>1, <1>2 DEF Holds, Extended

\* The bytes of a number, as a sequence.
LEMMA BigEndianBytes ==
    ASSUME NEW n \in 1..4, NEW v \in Int
    PROVE  BigEndian(v, n) \in Seq(Int) /\ Len(BigEndian(v, n)) = n
<1>1. ASSUME NEW i \in 1..n PROVE (v \div Power[n - i]) % Base \in Int
  <2> DEFINE a == Power[n - i]
  <2>1. a \in Nat \ {0}
    BY Powers
  <2> HIDE DEF a
  <2>2. v \div a \in Int
    BY <2>1, Z3
  <2> DEFINE q == v \div a
  <2> HIDE DEF q
  <2>3. q % Base \in Int
    BY <2>2, SerializationAssumption, Z3 DEF q
  <2> QED BY <2>3 DEF q, a
<1>2. BigEndian(v, n) \in [1..n -> Int]
  BY <1>1 DEF BigEndian
<1> QED BY <1>2

\* put writes the number if it fits, and nothing more from then on if not.
LEMMA PutWrites ==
    ASSUME NEW w, Writer(w), NEW kind \in DOMAIN Width, NEW v \in Int
    PROVE  /\ Appended(w, put(w, kind, v), Width[kind])
           /\ put(w, kind, v).ok =>
                  Holds(put(w, kind, v).data, Len(w.data), kind, v)
<1> DEFINE n == Len(w.data)
           k == Width[kind]
           bytes == BigEndian(v, k)
           u == put(w, kind, v)
<1>1. n \in Nat /\ k \in 1..4 /\ bytes \in Seq(Int) /\ Len(bytes) = k
  <2>1. n \in Nat
    BY DEF Writer
  <2>2. k \in 1..4
    BY Kinds
  <2> HIDE DEF k, n
  <2> QED BY <2>1, <2>2, BigEndianBytes
<1>2. CASE w.ok /\ n + k <= w.cap
  <2> DEFINE data == w.data \o bytes
  <2>1. u = [w EXCEPT !.data = data]
    BY <1>2 DEF put
  <2> HIDE DEF k, bytes
  <2>2. data \in Seq(Int) /\ Len(data) = n + k
    BY <1>1 DEF Writer
  <2>3. \A i \in 1..n : data[i] = w.data[i]
    BY <1>1 DEF Writer
  <2>4. \A i \in 1..k : data[n + i] = bytes[i]
    BY <1>1 DEF Writer
  <2> HIDE DEF data
  <2>5. u.data = data /\ u.ok /\ u.cap = w.cap /\ Writer(u)
    BY <1>2, <2>1, <2>2 DEF Writer
  <2>6. Extended(w.data, u.data)
    BY <1>1, <2>2, <2>3, <2>5 DEF Extended
  <2>7. Holds(u.data, n, kind, v)
    BY <1>1, <2>2, <2>4, <2>5 DEF Holds, k, bytes
  <2> QED BY <1>2, <2>2, <2>5, <2>6, <2>7 DEF k, Appended
<1>3. CASE ~(w.ok /\ n + k <= w.cap)
  <2>1. u = [w EXCEPT !.ok = FALSE]
    BY <1>3 DEF put
  <2> QED BY <1>3, <2>1 DEF Writer, Appended
<1> QED BY <1>2, <1>3

\* WriteAll, one field at a time.
FieldByField(f, w, layout, struct) ==
    /\ f[0] = w
    /\ \A i \in 1..Len(layout) :
           f[i] = put(f[i - 1], layout[i][2], struct[layout[i][1]])
    /\ WriteAll(w, layout, struct) = f[Len(layout)]

\* The recursive function in WriteAll is what its equations say.
LEMMA WriteAllOneByOne ==
    ASSUME NEW w, NEW layout, Len(layout) \in Nat, NEW struct
    PROVE  \E f : FieldByField(f, w, layout, struct)
<1> DEFINE n == Len(layout)
           After(i, x) == put(x, layout[i][2], struct[layout[i][1]])
           Body(f, k) == [i \in 0..k |-> IF i = 0 THEN w
                              ELSE put(f[i - 1], layout[i][2],
                                       struct[layout[i][1]])]
           K == {k \in 0..n : \E g : g = Body(g, k)}
           after == CHOOSE f : f = Body(f, n)
<1>0. WriteAll(w, layout, struct) = after[n]
  BY DEF WriteAll
<1> HIDE DEF n
<1>a. n \in Nat
  BY DEF n
<1>1. 0 \in K
  <2>1. [i \in 0..0 |-> w] = Body([i \in 0..0 |-> w], 0)
    OBVIOUS
  <2> HIDE DEF Body
  <2> QED BY <1>a, <2>1
<1>2. ASSUME NEW k \in 0..n - 1, k \in K PROVE k + 1 \in K
  <2>1. PICK g : g = Body(g, k)
    BY <1>2
  <2> DEFINE next == After(k + 1, g[k])
             v == [i \in 0..k + 1 |-> IF i <= k THEN g[i] ELSE next]
  <2>2. ASSUME NEW i \in 0..k + 1 PROVE v[i] = Body(v, k + 1)[i]
    <3>1. CASE i = 0
      BY <1>a, <2>1, <3>1
    <3>2. CASE i \in 1..k
      <4>1. v[i] = g[i] /\ v[i - 1] = g[i - 1] /\ i \in 0..k
        BY <1>a, <3>2
      <4>2. g[i] = Body(g, k)[i]
        BY <2>1
      <4> QED BY <3>2, <4>1, <4>2
    <3>3. CASE i = k + 1
      <4>1. v[i] = next /\ v[i - 1] = g[k]
        BY <1>a, <3>3
      <4> QED BY <1>a, <3>3, <4>1
    <3> QED BY <1>a, <3>1, <3>2, <3>3
  <2>3. v = Body(v, k + 1)
    BY <2>2
  <2>4. k + 1 \in 0..n
    BY <1>a
  <2> HIDE DEF Body, v
  <2> QED BY <2>3, <2>4
<1>3. n \in K
  <2> HIDE DEF K
  <2>1. 0..n \subseteq K
    BY <1>a, <1>1, <1>2, UpTo
  <2> QED BY <1>a, <2>1
<1>4. after = Body(after, n)
  <2> HIDE DEF Body
  <2> QED BY <1>3
<1> HIDE DEF after
<1>5. after[0] = w /\ \A i \in 1..n : after[i] = After(i, after[i - 1])
  <2>1. \A i \in 0..n : after[i] = Body(after, n)[i]
    BY <1>4
  <2> QED BY <1>a, <2>1
<1> QED BY <1>0, <1>5 DEF n, FieldByField

\* The place of each field of a layout, and of what follows the last one.
Places(at, layout) ==
    /\ Len(layout) \in Nat
    /\ at \in [1..Len(layout) + 1 -> Nat]
    /\ at[1] = 0
    /\ \A i \in 1..Len(layout) :
           /\ layout[i][2] \in DOMAIN Width
           /\ at[i + 1] = at[i] + Width[layout[i][2]]

\* The fields of a struct are in the data, from a place on.
Carries(data, from, layout, at, struct) ==
    \A i \in 1..Len(layout) :
        Holds(data, from + at[i], layout[i][2], struct[layout[i][1]])

\* Every field of a layout lies before its end.
LEMMA PlacesAscend ==
    ASSUME NEW at, NEW layout, Places(at, layout)
    PROVE  /\ Len(layout) \in Nat
           /\ \A i \in 1..Len(layout) + 1 : at[i] \in Nat
           /\ \A i \in 1..Len(layout) :
                  at[i + 1] <= at[Len(layout) + 1]
<1> DEFINE n == Len(layout)
           S == {k \in 0..n : \A i \in n + 1 - k..n + 1 : at[i] <= at[n + 1]}
<1>1. n \in Nat /\ \A i \in 1..n + 1 : at[i] \in Nat
  BY DEF Places
<1>2. ASSUME NEW i \in 1..n PROVE at[i] <= at[i + 1]
  <2>1. at[i + 1] = at[i] + Width[layout[i][2]] /\ layout[i][2] \in DOMAIN Width
    BY DEF Places
  <2>2. Width[layout[i][2]] \in Nat
    BY <2>1, Kinds
  <2> QED BY <1>1, <2>1, <2>2
<1> HIDE DEF n
<1>3. 0 \in S
  BY <1>1
<1>4. ASSUME NEW k \in 0..n - 1, k \in S PROVE k + 1 \in S
  <2>1. n - k \in 1..n
    BY <1>1
  <2>2. at[n - k] <= at[n - k + 1] /\ at[n - k + 1] <= at[n + 1]
    BY <1>1, <1>2, <1>4, <2>1
  <2>3. at[n - k] \in Nat /\ at[n - k + 1] \in Nat /\ at[n + 1] \in Nat
    BY <1>1, <2>1
  <2>4. at[n - k] <= at[n + 1]
    BY <2>2, <2>3
  <2>5. \A i \in n + 1 - (k + 1)..n + 1 : i = n - k \/ i \in n + 1 - k..n + 1
    BY <1>1
  <2> QED BY <1>1, <1>4, <2>4, <2>5
<1>5. n \in S
  <2> HIDE DEF S
  <2>1. 0..n \subseteq S
    BY <1>1, <1>3, <1>4, UpTo
  <2> QED BY <1>1, <2>1
<1>6. \A i \in 1..n : i + 1 \in n + 1 - n..n + 1
  BY <1>1
<1>7. \A i \in 1..n : at[i + 1] <= at[n + 1]
  BY <1>5, <1>6
<1> QED BY <1>1, <1>7 DEF n

\* WriteAll writes the fields in their places if there is room for all.
LEMMA AllWritten ==
    ASSUME NEW w, Writer(w), NEW layout, NEW at, Places(at, layout),
           NEW struct, \A i \in 1..Len(layout) : struct[layout[i][1]] \in Int
    PROVE  LET u == WriteAll(w, layout, struct)
           IN  /\ Appended(w, u, at[Len(layout) + 1])
               /\ u.ok => Carries(u.data, Len(w.data), layout, at, struct)
<1> DEFINE n == Len(layout)
           from == Len(w.data)
           value(i) == struct[layout[i][1]]
           kind(i) == layout[i][2]
<1>1. /\ n \in Nat /\ from \in Nat
      /\ \A i \in 1..n + 1 : at[i] \in Nat
      /\ at[1] = 0
      /\ \A i \in 1..n : kind(i) \in DOMAIN Width /\ value(i) \in Int
                         /\ at[i + 1] = at[i] + Width[kind(i)]
  <2>1. from \in Nat
    BY DEF Writer
  <2> HIDE DEF from
  <2> QED BY <2>1 DEF Places
<1>2. PICK f : /\ f[0] = w
               /\ \A i \in 1..n : f[i] = put(f[i - 1], kind(i), value(i))
               /\ WriteAll(w, layout, struct) = f[n]
  <2>1. PICK f : FieldByField(f, w, layout, struct)
    BY <1>1, WriteAllOneByOne
  <2> QED BY <2>1 DEF FieldByField
<1> DEFINE Good(k, u) ==
               /\ Appended(w, u, at[k + 1])
               /\ u.ok => \A i \in 1..k : Holds(u.data, from + at[i], kind(i),
                                                value(i))
           S == {k \in 0..n : Good(k, f[k])}
<1>3. 0 \in S
  BY <1>1, <1>2, NothingAppended
<1> HIDE DEF n, value, kind
<1>4. ASSUME NEW k \in 0..n - 1, k \in S PROVE k + 1 \in S
  <2> DEFINE x == f[k]
             u == f[k + 1]
             step == Width[kind(k + 1)]
  <2>1. /\ k + 1 \in 1..n /\ k + 1 \in 0..n /\ (k + 1) - 1 = k
        /\ k + 1 \in 1..n + 1 /\ k + 2 \in 1..n + 1 /\ (k + 1) + 1 = k + 2
    BY <1>1
  <2>2. u = put(x, kind(k + 1), value(k + 1))
    BY <1>2, <2>1
  <2>3. Good(k, x)
    BY <1>4
  <2>4. /\ at[k + 1] \in Nat /\ at[k + 2] \in Nat /\ step \in Nat
        /\ at[k + 2] = at[k + 1] + step
        /\ kind(k + 1) \in DOMAIN Width /\ value(k + 1) \in Int
    <3>1. kind(k + 1) \in DOMAIN Width
      BY <1>1, <2>1
    <3>2. step \in Nat
      BY <3>1, Kinds
    <3> QED BY <1>1, <2>1, <3>1, <3>2
  <2> HIDE DEF u, x
  <2>5. Appended(w, x, at[k + 1]) /\ Writer(x)
    BY <2>3 DEF Appended
  <2>6. /\ Appended(x, u, step)
        /\ u.ok => Holds(u.data, Len(x.data), kind(k + 1), value(k + 1))
    BY <2>2, <2>4, <2>5, PutWrites
  <2> HIDE DEF step
  <2>7. Appended(w, u, at[k + 2])
    BY <2>4, <2>5, <2>6, AppendedInTurn
  <2>8. ASSUME u.ok, NEW i \in 1..k + 1
        PROVE  Holds(u.data, from + at[i], kind(i), value(i))
    <3>1. /\ x.ok /\ Len(x.data) = from + at[k + 1] /\ Extended(x.data, u.data)
          /\ Len(x.data) \in Nat /\ Len(u.data) \in Nat
      BY <2>5, <2>6, <2>8 DEF Appended, Writer
    <3>2. CASE i \in 1..k
      <4>1. Holds(x.data, from + at[i], kind(i), value(i))
        BY <2>3, <3>1, <3>2
      <4>2. i \in 1..n /\ i \in 1..n + 1
        BY <1>1, <3>2
      <4>3. from + at[i] \in Nat /\ kind(i) \in DOMAIN Width
        BY <1>1, <4>2
      <4> QED BY <3>1, <4>1, <4>3, HoldsWhenExtended
    <3>3. CASE i = k + 1
      BY <2>6, <2>8, <3>1, <3>3
    <3> QED BY <3>2, <3>3
  <2> QED BY <2>1, <2>7, <2>8 DEF u
<1>5. n \in S
  <2> HIDE DEF S
  <2>1. 0..n \subseteq S
    BY <1>1, <1>3, <1>4, UpTo
  <2> QED BY <1>1, <2>1
<1> QED BY <1>2, <1>5 DEF Carries, n, value, kind

-----------------------------------------------------------------------------
\* Every field of a struct is a number of its kind.
Typed(layout, struct) ==
    \A i \in 1..Len(layout) : struct[layout[i][1]] \in Scalars[layout[i][2]]

StateAt == <<0, 2, 6, 10, 14, 18, 22>>

\* Where the fields of each packet are, from the byte after the type on.
FieldsAt ==
    [JOIN_REQUEST      |-> <<0, 2>>,
     JOIN_ACCEPT       |-> <<0, 2, 6, 10>>,
     INPUT_COMMAND     |-> <<0, 2, 6, 7, 8>>,
     WORLD_SNAPSHOT    |-> <<0, 4>>,
     DISCONNECT_NOTICE |-> <<0, 2>>]

\* Where the fields of a PlayerState are; what is read is what is written.
LEMMA StatePlaces ==
    /\ Len(StateWritten) = 6
    /\ Places(StateAt, StateWritten)
    /\ StateRead = StateWritten
<1>1. Len(StateWritten) = 6 /\ StateRead = StateWritten
  BY DEF StateWritten, StateRead
<1>2. StateAt \in [1..7 -> Nat] /\ StateAt[1] = 0
  BY DEF StateAt
<1>3. ASSUME NEW i \in 1..6
      PROVE  /\ StateWritten[i][2] \in DOMAIN Width
             /\ StateAt[i + 1] = StateAt[i] + Width[StateWritten[i][2]]
  <2>1. i = 1 \/ i = 2 \/ i = 3 \/ i = 4 \/ i = 5 \/ i = 6
    OBVIOUS
  <2> QED BY <2>1 DEF StateWritten, StateAt, Width
<1> QED BY <1>1, <1>2, <1>3 DEF Places

\* Where the fields of each packet are; each decoder reads what its encoder
\* writes.
LEMMA FieldPlaces ==
    ASSUME NEW t \in DOMAIN PacketType
    PROVE  /\ Places(FieldsAt[t], Written[t])
           /\ Read[t] = Written[t]
<1>1. CASE t = "JOIN_REQUEST"
  <2>1. Written[t] = << <<"client_version", "u16">> >> /\ Read[t] = Written[t]
    BY <1>1 DEF Written, Read
  <2>2. FieldsAt[t] = <<0, 2>>
    BY <1>1 DEF FieldsAt
  <2> QED BY <2>1, <2>2 DEF Places, Width
<1>2. CASE t = "JOIN_ACCEPT"
  <2>1. /\ Written[t] = << <<"player_id", "u16">>, <<"arena_w", "f32">>,
                           <<"arena_h", "f32">> >>
        /\ Read[t] = Written[t]
    BY <1>2 DEF Written, Read
  <2>2. FieldsAt[t] = <<0, 2, 6, 10>>
    BY <1>2 DEF FieldsAt
  <2>3. \A i \in 1..3 : i = 1 \/ i = 2 \/ i = 3
    OBVIOUS
  <2> QED BY <2>1, <2>2, <2>3 DEF Places, Width
<1>3. CASE t = "INPUT_COMMAND"
  <2>1. /\ Written[t] = << <<"player_id", "u16">>, <<"seq", "u32">>,
                           <<"mx", "i8">>, <<"my", "i8">> >>
        /\ Read[t] = Written[t]
    BY <1>3 DEF Written, Read
  <2>2. FieldsAt[t] = <<0, 2, 6, 7, 8>>
    BY <1>3 DEF FieldsAt
  <2>3. \A i \in 1..4 : i = 1 \/ i = 2 \/ i = 3 \/ i = 4
    OBVIOUS
  <2> QED BY <2>1, <2>2, <2>3 DEF Places, Width
<1>4. CASE t = "WORLD_SNAPSHOT"
  <2>1. Written[t] = << <<"server_tick", "u32">> >> /\ Read[t] = Written[t]
    BY <1>4 DEF Written, Read
  <2>2. FieldsAt[t] = <<0, 4>>
    BY <1>4 DEF FieldsAt
  <2> QED BY <2>1, <2>2 DEF Places, Width
<1>5. CASE t = "DISCONNECT_NOTICE"
  <2>1. Written[t] = << <<"player_id", "u16">> >> /\ Read[t] = Written[t]
    BY <1>5 DEF Written, Read
  <2>2. FieldsAt[t] = <<0, 2>>
    BY <1>5 DEF FieldsAt
  <2> QED BY <2>1, <2>2 DEF Places, Width
<1> QED BY <1>1, <1>2, <1>3, <1>4, <1>5 DEF PacketType

\* The fields of a struct that fits its layout are integers.
LEMMA TypedIsInt ==
    ASSUME NEW layout, NEW at, Places(at, layout), NEW struct,
           Typed(layout, struct)
    PROVE  \A i \in 1..Len(layout) : struct[layout[i][1]] \in Int
<1> TAKE i \in 1..Len(layout)
<1>1. layout[i][2] \in DOMAIN Width
  BY DEF Places
<1>2. Scalars[layout[i][2]] \subseteq Int
  BY <1>1, Kinds
<1> QED BY <1>2 DEF Typed

\* A PlayerState that is sent fits its layout.
LEMMA StatesTyped ==
    ASSUME NEW s \in States
    PROVE  Typed(StateWritten, s)
<1>1. s \in [id : Scalars["u16"], x : Scalars["f32"], y : Scalars["f32"],
            vx : Scalars["f32"], vy : Scalars["f32"],
            last_processed_input_seq : Scalars["u32"]]
  BY SerializationAssumption
<1>2. ASSUME NEW i \in 1..6
      PROVE  s[StateWritten[i][1]] \in Scalars[StateWritten[i][2]]
  <2>1. i = 1 \/ i = 2 \/ i = 3 \/ i = 4 \/ i = 5 \/ i = 6
    OBVIOUS
  <2> QED BY <1>1, <2>1 DEF StateWritten
<1> QED BY <1>2, StatePlaces DEF Typed

\* The fields of a struct stay where they are, whatever is written after them.
LEMMA CarriesWhenExtended ==
    ASSUME NEW old, NEW data, Len(old) \in Nat, Len(data) \in Nat,
           Extended(old, data), NEW from \in Nat, NEW layout, NEW at,
           Places(at, layout), NEW struct,
           Carries(old, from, layout, at, struct)
    PROVE  Carries(data, from, layout, at, struct)
<1>1. ASSUME NEW i \in 1..Len(layout)
      PROVE  Holds(data, from + at[i], layout[i][2], struct[layout[i][1]])
  <2>1. Holds(old, from + at[i], layout[i][2], struct[layout[i][1]])
    BY DEF Carries
  <2>2. from + at[i] \in Nat /\ layout[i][2] \in DOMAIN Width
    BY DEF Places
  <2> QED BY <2>1, <2>2, HoldsWhenExtended
<1> QED BY <1>1 DEF Carries

\* WriteStates, one player at a time.
PlayerByPlayer(f, w, players) ==
    /\ f[0] = w
    /\ \A i \in 1..Len(players) :
           f[i] = WriteAll(f[i - 1], StateWritten, players[i])
    /\ WriteStates(w, players) = f[Len(players)]

\* The recursive function in WriteStates is what its equations say.
LEMMA WriteStatesOneByOne ==
    ASSUME NEW w, NEW players, Len(players) \in Nat
    PROVE  \E f : PlayerByPlayer(f, w, players)
<1> DEFINE n == Len(players)
           After(i, x) == WriteAll(x, StateWritten, players[i])
           Body(f, k) == [i \in 0..k |-> IF i = 0 THEN w
                              ELSE WriteAll(f[i - 1], StateWritten, players[i])]
           K == {k \in 0..n : \E g : g = Body(g, k)}
           after == CHOOSE f : f = Body(f, n)
<1>0. WriteStates(w, players) = after[n]
  BY DEF WriteStates
<1> HIDE DEF n
<1>a. n \in Nat
  BY DEF n
<1>1. 0 \in K
  <2>1. [i \in 0..0 |-> w] = Body([i \in 0..0 |-> w], 0)
    OBVIOUS
  <2> HIDE DEF Body
  <2> QED BY <1>a, <2>1
<1>2. ASSUME NEW k \in 0..n - 1, k \in K PROVE k + 1 \in K
  <2>1. PICK g : g = Body(g, k)
    BY <1>2
  <2> DEFINE next == After(k + 1, g[k])
             v == [i \in 0..k + 1 |-> IF i <= k THEN g[i] ELSE next]
  <2>2. ASSUME NEW i \in 0..k + 1 PROVE v[i] = Body(v, k + 1)[i]
    <3>1. CASE i = 0
      BY <1>a, <2>1, <3>1
    <3>2. CASE i \in 1..k
      <4>1. v[i] = g[i] /\ v[i - 1] = g[i - 1] /\ i \in 0..k
        BY <1>a, <3>2
      <4>2. g[i] = Body(g, k)[i]
        BY <2>1
      <4> QED BY <3>2, <4>1, <4>2
    <3>3. CASE i = k + 1
      <4>1. v[i] = next /\ v[i - 1] = g[k]
        BY <1>a, <3>3
      <4> QED BY <1>a, <3>3, <4>1
    <3> QED BY <1>a, <3>1, <3>2, <3>3
  <2>3. v = Body(v, k + 1)
    BY <2>2
  <2>4. k + 1 \in 0..n
    BY <1>a
  <2> HIDE DEF Body, v
  <2> QED BY <2>3, <2>4
<1>3. n \in K
  <2> HIDE DEF K
  <2>1. 0..n \subseteq K
    BY <1>a, <1>1, <1>2, UpTo
  <2> QED BY <1>a, <2>1
<1>4. after = Body(after, n)
  <2> HIDE DEF Body
  <2> QED BY <1>3
<1> HIDE DEF after
<1>5. after[0] = w /\ \A i \in 1..n : after[i] = After(i, after[i - 1])
  <2>1. \A i \in 0..n : after[i] = Body(after, n)[i]
    BY <1>4
  <2> QED BY <1>a, <2>1
<1> QED BY <1>0, <1>5 DEF n, PlayerByPlayer

\* The states of the first n players are in the data, from a place on.
CarriesStates(data, from, players, n) ==
    \A j \in 1..n :
        Carries(data, from + 22 * (j - 1), StateWritten, StateAt, players[j])

\* WriteStates writes the states one behind the other, 22 bytes each, if there
\* is room for all.
LEMMA AllStatesWritten ==
    ASSUME NEW w, Writer(w), NEW n \in Nat, NEW players \in [1..n -> States]
    PROVE  LET u == WriteStates(w, players)
           IN  /\ Appended(w, u, 22 * n)
               /\ u.ok => CarriesStates(u.data, Len(w.data), players, n)
<1> DEFINE from == Len(w.data)
<1>1. Len(players) = n /\ from \in Nat
  BY DEF Writer
<1>2. PICK f : /\ f[0] = w
               /\ \A i \in 1..n : f[i] = WriteAll(f[i - 1], StateWritten, players[i])
               /\ WriteStates(w, players) = f[n]
  <2>1. PICK f : PlayerByPlayer(f, w, players)
    BY <1>1, WriteStatesOneByOne
  <2> QED BY <1>1, <2>1 DEF PlayerByPlayer
<1> DEFINE Good(k, u) == /\ Appended(w, u, 22 * k)
                         /\ u.ok => CarriesStates(u.data, from, players, k)
           S == {k \in 0..n : Good(k, f[k])}
<1>3. 0 \in S
  <2>1. Appended(w, w, 0) /\ 22 * 0 = 0
    BY NothingAppended
  <2>2. CarriesStates(w.data, from, players, 0)
    BY DEF CarriesStates
  <2> HIDE DEF from
  <2> QED BY <1>2, <2>1, <2>2
<1> HIDE DEF from
<1>4. ASSUME NEW k \in 0..n - 1, k \in S PROVE k + 1 \in S
  <2> DEFINE x == f[k]
             u == f[k + 1]
             s == players[k + 1]
  <2>1. k + 1 \in 1..n /\ k + 1 \in 0..n /\ (k + 1) - 1 = k
    OBVIOUS
  <2>2. u = WriteAll(x, StateWritten, s) /\ s \in States
    BY <1>2, <2>1
  <2>3. Appended(w, x, 22 * k) /\ Writer(x)
        /\ (x.ok => CarriesStates(x.data, from, players, k))
    BY <1>4 DEF Appended
  <2> HIDE DEF u, x, s
  <2>4. /\ Appended(x, u, 22)
        /\ u.ok => Carries(u.data, Len(x.data), StateWritten, StateAt, s)
    <3>1. Places(StateAt, StateWritten) /\ StateAt[Len(StateWritten) + 1] = 22
      BY StatePlaces DEF StateAt
    <3>2. \A i \in 1..Len(StateWritten) : s[StateWritten[i][1]] \in Int
      BY <2>2, <3>1, StatesTyped, TypedIsInt
    <3> QED BY <2>2, <2>3, <3>1, <3>2, AllWritten
  <2>5. Appended(w, u, 22 * k + 22) /\ 22 * k \in Nat
    BY <2>3, <2>4, AppendedInTurn
  <2>6. Appended(w, u, 22 * (k + 1))
    BY <2>5
  <2>7. ASSUME u.ok, NEW j \in 1..k + 1
        PROVE  Carries(u.data, from + 22 * (j - 1), StateWritten, StateAt,
                       players[j])
    <3>1. /\ x.ok /\ Len(x.data) = from + 22 * k /\ Extended(x.data, u.data)
          /\ Len(x.data) \in Nat /\ Len(u.data) \in Nat
      BY <2>3, <2>4, <2>7 DEF Appended, Writer, from
    <3>2. CASE j \in 1..k
      <4>1. Carries(x.data, from + 22 * (j - 1), StateWritten, StateAt, players[j])
        BY <2>3, <3>1, <3>2 DEF CarriesStates
      <4>2. from + 22 * (j - 1) \in Nat
        BY <1>1, <3>2
      <4> QED BY <3>1, <4>1, <4>2, StatePlaces, CarriesWhenExtended
    <3>3. CASE j = k + 1
      <4>1. j - 1 = k
        BY <3>3
      <4>2. Carries(u.data, from + 22 * k, StateWritten, StateAt, players[k + 1])
        BY <2>4, <2>7, <3>1 DEF s
      <4> QED BY <3>3, <4>1, <4>2
    <3> QED BY <3>2, <3>3
  <2> QED BY <2>1, <2>6, <2>7 DEF u, CarriesStates
<1>5. n \in S
  <2> HIDE DEF S
  <2>1. 0..n \subseteq S
    BY <1>3, <1>4, UpTo
  <2> QED BY <2>1
<1> QED BY <1>2, <1>5 DEF from

-----------------------------------------------------------------------------
IsSnapshot(p) == p.type = "WORLD_SNAPSHOT"

\* The names of a layout's fields.
Names(layout) == {layout[i][1] : i \in 1..Len(layout)}

\* The structs have the fields of their layout.
LEMMA PacketFields ==
    ASSUME NEW p \in Packets
    PROVE  /\ p.type \in DOMAIN PacketType
           /\ Typed(Written[p.type], p)
           /\ p = [name \in DOMAIN p |-> p[name]]
           /\ ~IsSnapshot(p) => DOMAIN p = {"type"} \cup Names(Written[p.type])
           /\ IsSnapshot(p) =>
                  /\ DOMAIN p = {"type", "players"} \cup Names(Written[p.type])
                  /\ Len(p.players) \in 0..MAX_PLAYERS + 1
                  /\ p.players \in [1..Len(p.players) -> States]
<1>1. CASE p \in [type : {"JOIN_REQUEST"}, client_version : Shorts]
  <2>1. Written[p.type] = << <<"client_version", "u16">> >>
    BY <1>1 DEF Written
  <2>2. Typed(Written[p.type], p)
    BY <1>1, <2>1, SerializationAssumption DEF Typed
  <2>3. Names(Written[p.type]) = {"client_version"}
    BY <2>1 DEF Names
  <2> QED BY <1>1, <2>2, <2>3 DEF IsSnapshot, PacketType
<1>2. CASE p \in [type : {"JOIN_ACCEPT"}, player_id : Shorts, arena_w : Longs,
                  arena_h : Longs]
  <2>1. Written[p.type] = << <<"player_id", "u16">>, <<"arena_w", "f32">>,
                             <<"arena_h", "f32">> >>
    BY <1>2 DEF Written
  <2>a. \A i \in 1..3 : i = 1 \/ i = 2 \/ i = 3
    OBVIOUS
  <2>b. Scalars["f32"] = Scalars["u32"]
    BY DEF Scalars, Width
  <2>2. Typed(Written[p.type], p)
    BY <1>2, <2>1, <2>a, <2>b, SerializationAssumption DEF Typed
  <2>3. Names(Written[p.type]) = {"player_id", "arena_w", "arena_h"}
    BY <2>1, <2>a DEF Names
  <2> QED BY <1>2, <2>2, <2>3 DEF IsSnapshot, PacketType
<1>3. CASE p \in [type : {"INPUT_COMMAND"}, player_id : Shorts, seq : Longs,
                  mx : Moves, my : Moves]
  <2>1. Written[p.type] = << <<"player_id", "u16">>, <<"seq", "u32">>,
                             <<"mx", "i8">>, <<"my", "i8">> >>
    BY <1>3 DEF Written
  <2>a. \A i \in 1..4 : i = 1 \/ i = 2 \/ i = 3 \/ i = 4
    OBVIOUS
  <2>2. Typed(Written[p.type], p)
    BY <1>3, <2>1, <2>a, SerializationAssumption DEF Typed
  <2>3. Names(Written[p.type]) = {"player_id", "seq", "mx", "my"}
    BY <2>1, <2>a DEF Names
  <2> QED BY <1>3, <2>2, <2>3 DEF IsSnapshot, PacketType
<1>4. CASE p \in [type : {"WORLD_SNAPSHOT"}, server_tick : Longs,
                  players : BoundedSeq(States, MAX_PLAYERS + 1)]
  <2>1. Written[p.type] = << <<"server_tick", "u32">> >>
    BY <1>4 DEF Written
  <2>2. Typed(Written[p.type], p)
    BY <1>4, <2>1, SerializationAssumption DEF Typed
  <2>3. Names(Written[p.type]) = {"server_tick"}
    BY <2>1 DEF Names
  <2>4. PICK m \in 0..MAX_PLAYERS + 1 : p.players \in [1..m -> States]
    <3>1. p.players \in BoundedSeq(States, MAX_PLAYERS + 1)
      BY <1>4
    <3>2. p.players \in UNION {[1..m -> States] : m \in 0..MAX_PLAYERS + 1}
      BY <3>1 DEF BoundedSeq, SeqOf
    <3> QED BY <3>2
  <2>5. Len(p.players) = m
    BY <2>4
  <2> QED BY <1>4, <2>2, <2>3, <2>4, <2>5 DEF IsSnapshot, PacketType
<1>5. CASE p \in [type : {"DISCONNECT_NOTICE"}, player_id : Shorts]
  <2>1. Written[p.type] = << <<"player_id", "u16">> >>
    BY <1>5 DEF Written
  <2>2. Typed(Written[p.type], p)
    BY <1>5, <2>1, SerializationAssumption DEF Typed
  <2>3. Names(Written[p.type]) = {"player_id"}
    BY <2>1 DEF Names
  <2> QED BY <1>5, <2>2, <2>3 DEF IsSnapshot, PacketType
<1> QED BY <1>1, <1>2, <1>3, <1>4, <1>5 DEF Packets

\* The bytes of the type and the fields, and of a whole packet.
HeadSize(t) == 1 + FieldsAt[t][Len(Written[t]) + 1]

Size(p) == IF IsSnapshot(p) THEN 7 + 22 * Len(p.players) ELSE HeadSize(p.type)

\* The data is what a packet is encoded to.
Encoded(data, p) ==
    /\ data \in Seq(Int)
    /\ Len(data) = Size(p)
    /\ Holds(data, 0, "u8", PacketType[p.type])
    /\ Carries(data, 1, Written[p.type], FieldsAt[p.type], p)
    /\ IsSnapshot(p) =>
           /\ Holds(data, 5, "u16", Len(p.players))
           /\ CarriesStates(data, 7, p.players, Len(p.players))

\* The number of players that the encoder has room for fits its u16.
LEMMA PlayersCounted ==
    /\ MAX_PLAYERS \in Nat \ {0}
    /\ MAX_PLAYERS \in Scalars["u16"]
    /\ MAX_SNAPSHOT_BYTES = 7 + 22 * MAX_PLAYERS
    /\ MAX_PACKET_BYTES \in Nat /\ MAX_SNAPSHOT_BYTES <= MAX_PACKET_BYTES
<1>1. Scalars["u16"] = 0..Power[2] - 1
  BY DEF Scalars, Width
<1>2. Power[2] \in Nat
  BY Powers
<1>3. MAX_PLAYERS \in Nat \ {0}
  BY <1>1, <1>2, SerializationAssumption
<1>4. MAX_SNAPSHOT_BYTES = 7 + 22 * MAX_PLAYERS
  BY <1>3 DEF MAX_SNAPSHOT_BYTES
<1> HIDE DEF MAX_SNAPSHOT_BYTES
<1> QED BY <1>3, <1>4, SerializationAssumption

\* How many bytes the type and the fields of each packet take.
LEMMA HeadSizes ==
    ASSUME NEW t \in DOMAIN PacketType
    PROVE  /\ HeadSize(t) = IF t = "JOIN_ACCEPT" THEN 11
                            ELSE IF t = "INPUT_COMMAND" THEN 9
                            ELSE IF t = "WORLD_SNAPSHOT" THEN 5 ELSE 3
           /\ PacketType[t] \in 1..5
<1>1. t \in {"JOIN_REQUEST", "JOIN_ACCEPT", "INPUT_COMMAND",
             "WORLD_SNAPSHOT", "DISCONNECT_NOTICE"}
  BY DEF PacketType
<1>2. CASE t = "JOIN_REQUEST"
  BY <1>2 DEF HeadSize, FieldsAt, Written, PacketType
<1>3. CASE t = "JOIN_ACCEPT"
  BY <1>3 DEF HeadSize, FieldsAt, Written, PacketType
<1>4. CASE t = "INPUT_COMMAND"
  BY <1>4 DEF HeadSize, FieldsAt, Written, PacketType
<1>5. CASE t = "WORLD_SNAPSHOT"
  BY <1>5 DEF HeadSize, FieldsAt, Written, PacketType
<1>6. CASE t = "DISCONNECT_NOTICE"
  BY <1>6 DEF HeadSize, FieldsAt, Written, PacketType
<1> QED BY <1>1, <1>2, <1>3, <1>4, <1>5, <1>6

\* encode gives the bytes if they fit, and none if they do not.
LEMMA Encodes ==
    ASSUME NEW p \in Packets, NEW cap \in Nat
    PROVE  /\ Size(p) <= cap => Encoded(encode(p, cap), p)
           /\ Size(p) > cap => encode(p, cap) = <<>>
<1> DEFINE t == p.type
           blank == [data |-> <<>>, cap |-> cap, ok |-> TRUE]
           tag == put(blank, "u8", PacketType[t])
           head == WriteAll(tag, Written[t], p)
           n == Len(p.players)
           counted == put(head, "u16", n)
           whole == WriteStates(counted, p.players)
           all == IF ~IsSnapshot(p) THEN head ELSE whole
<1>0. encode(p, cap) = IF all.ok THEN all.data ELSE <<>>
  BY DEF encode, IsSnapshot
<1>1. /\ t \in DOMAIN PacketType /\ Typed(Written[t], p)
      /\ Places(FieldsAt[t], Written[t]) /\ PacketType[t] \in 1..5
  BY PacketFields, FieldPlaces, HeadSizes
<1>2. Writer(blank) /\ Len(blank.data) = 0 /\ blank.cap = cap /\ blank.ok
  BY DEF Writer
<1> HIDE DEF blank, t
<1>3. /\ Appended(blank, tag, 1)
      /\ tag.ok => Holds(tag.data, 0, "u8", PacketType[t])
  <2>1. "u8" \in DOMAIN Width /\ Width["u8"] = 1
    BY DEF Width
  <2> QED BY <1>1, <1>2, <2>1, PutWrites
<1>4. Writer(tag) /\ (tag.ok => Len(tag.data) = 1)
  BY <1>2, <1>3 DEF Appended
<1> HIDE DEF tag
<1> DEFINE size == FieldsAt[t][Len(Written[t]) + 1]
<1>5. /\ Appended(tag, head, size)
      /\ head.ok => Carries(head.data, Len(tag.data), Written[t], FieldsAt[t], p)
  <2>1. \A i \in 1..Len(Written[t]) : p[Written[t][i][1]] \in Int
    BY <1>1, TypedIsInt
  <2> QED BY <1>1, <1>4, <2>1, AllWritten
<1> HIDE DEF head
<1>6. size \in Nat /\ HeadSize(t) = 1 + size
  BY <1>1, PlacesAscend DEF HeadSize
<1> HIDE DEF size
<1>7. Appended(blank, head, 1 + size)
  BY <1>2, <1>3, <1>5, <1>6, AppendedInTurn
<1>8. ASSUME head.ok
      PROVE  /\ Len(head.data) = 1 + size
             /\ Holds(head.data, 0, "u8", PacketType[t])
             /\ Carries(head.data, 1, Written[t], FieldsAt[t], p)
  <2>1. /\ tag.ok /\ Extended(tag.data, head.data)
        /\ Len(tag.data) \in Nat /\ Len(head.data) \in Nat
    BY <1>4, <1>5, <1>8 DEF Appended, Writer
  <2>2. Holds(tag.data, 0, "u8", PacketType[t]) /\ "u8" \in DOMAIN Width
    BY <1>3, <2>1 DEF Width
  <2>3. Holds(head.data, 0, "u8", PacketType[t])
    BY <2>1, <2>2, HoldsWhenExtended
  <2> QED BY <1>2, <1>4, <1>5, <1>7, <1>8, <2>1, <2>3 DEF Appended
<1>9. CASE ~IsSnapshot(p)
  <2>1. all = head /\ Size(p) = 1 + size
    BY <1>6, <1>9 DEF Size, t
  <2>2. head.ok <=> Size(p) <= cap
    BY <1>2, <1>6, <1>7, <2>1 DEF Appended
  <2>3. head.ok => head.data \in Seq(Int)
    BY <1>7 DEF Appended, Writer
  <2>4. Size(p) \in Nat
    BY <1>6, <2>1
  <2> QED BY <1>0, <1>8, <1>9, <2>1, <2>2, <2>3, <2>4 DEF Encoded, t
<1>10. CASE IsSnapshot(p)
  <2>1. all = whole /\ Size(p) = 7 + 22 * n /\ size = 4
    BY <1>1, <1>6, <1>10, HeadSizes DEF Size, IsSnapshot, t
  <2>2. n \in Nat /\ p.players \in [1..n -> States]
    <3>1. n \in 0..MAX_PLAYERS + 1 /\ p.players \in [1..n -> States]
      BY <1>10, PacketFields, Zenon
    <3> HIDE DEF n
    <3> QED BY <3>1, PlayersCounted
  <2> HIDE DEF n
  <2>3. Writer(head)
    BY <1>7 DEF Appended
  <2>4. /\ Appended(head, counted, 2)
        /\ counted.ok => Holds(counted.data, Len(head.data), "u16", n)
    <3>1. "u16" \in DOMAIN Width /\ Width["u16"] = 2
      BY DEF Width
    <3> QED BY <2>2, <2>3, <3>1, PutWrites
  <2> HIDE DEF counted
  <2>5. Writer(counted)
    BY <2>4 DEF Appended
  <2>6. /\ Appended(counted, whole, 22 * n)
        /\ whole.ok => CarriesStates(whole.data, Len(counted.data), p.players, n)
    BY <2>2, <2>5, AllStatesWritten
  <2> HIDE DEF whole
  <2>7. Appended(blank, counted, 7)
    BY <1>2, <1>7, <2>1, <2>4, AppendedInTurn
  <2>8. Appended(blank, whole, 7 + 22 * n)
    <3>1. 22 * n \in Nat
      BY <2>2
    <3> QED BY <1>2, <2>6, <2>7, <3>1, AppendedInTurn
  <2>9. whole.ok <=> Size(p) <= cap
    BY <1>2, <2>1, <2>2, <2>8 DEF Appended
  <2>10. ASSUME whole.ok PROVE Encoded(whole.data, p)
    <3>1. /\ counted.ok /\ head.ok
          /\ Extended(head.data, counted.data) /\ Extended(counted.data, whole.data)
      BY <2>4, <2>6, <2>10 DEF Appended
    <3>2. /\ Len(head.data) = 5 /\ Len(counted.data) = 7
          /\ Len(whole.data) = 7 + 22 * n /\ Len(whole.data) \in Nat
          /\ whole.data \in Seq(Int)
      <4>1. Len(counted.data) = 7 /\ Len(whole.data) = 7 + 22 * n
        BY <1>2, <2>2, <2>7, <2>8, <2>10, <3>1 DEF Appended
      <4>2. whole.data \in Seq(Int)
        BY <2>8 DEF Appended, Writer
      <4> QED BY <1>8, <2>1, <2>2, <3>1, <4>1, <4>2
    <3>3. "u8" \in DOMAIN Width /\ "u16" \in DOMAIN Width
      BY DEF Width
    <3>4. Holds(whole.data, 5, "u16", n)
      BY <2>4, <3>1, <3>2, <3>3, HoldsWhenExtended
    <3>5. Holds(whole.data, 0, "u8", PacketType[t])
      <4>1. Holds(counted.data, 0, "u8", PacketType[t])
        BY <1>8, <3>1, <3>2, <3>3, HoldsWhenExtended
      <4> QED BY <3>1, <3>2, <3>3, <4>1, HoldsWhenExtended
    <3>6. Carries(whole.data, 1, Written[t], FieldsAt[t], p)
      <4>1. Carries(counted.data, 1, Written[t], FieldsAt[t], p)
        <5>1. Len(head.data) \in Nat /\ Len(counted.data) \in Nat /\ 1 \in Nat
          BY <3>2
        <5>2. Carries(head.data, 1, Written[t], FieldsAt[t], p)
          BY <1>8, <3>1
        <5> QED BY <1>1, <3>1, <5>1, <5>2, CarriesWhenExtended
      <4> QED BY <1>1, <3>1, <3>2, <4>1, CarriesWhenExtended
    <3>7. CarriesStates(whole.data, 7, p.players, n)
      BY <2>6, <2>10, <3>2
    <3> QED BY <2>1, <3>2, <3>4, <3>5, <3>6, <3>7 DEF Encoded, t, n
  <2>11. Size(p) \in Nat
    BY <2>1, <2>2
  <2> QED BY <1>0, <2>1, <2>9, <2>10, <2>11
<1> QED BY <1>9, <1>10

-----------------------------------------------------------------------------
\* A reader that has not run over its data.
Reader(r) ==
    /\ r = [data |-> r.data, pos |-> r.pos, ok |-> r.ok, struct |-> r.struct]
    /\ r.data \in Seq(Int) /\ r.pos \in Nat /\ r.ok \in BOOLEAN
    /\ r.ok => r.pos <= Len(r.data)

\* A reader whose struct is replaced, field by field.
LEMMA StructReplaced ==
    ASSUME NEW r, Reader(r), NEW struct
    PROVE  [r EXCEPT !.struct = struct] =
               [data |-> r.data, pos |-> r.pos, ok |-> r.ok, struct |-> struct]
BY DEF Reader

\* So many bytes more have been read, if there were as many.
Consumed(r, u, size) ==
    /\ Reader(u)
    /\ u.data = r.data
    /\ u.ok <=> r.ok /\ r.pos + size <= Len(r.data)
    /\ u.ok => u.pos = r.pos + size

\* A reader has consumed nothing beyond itself.
LEMMA NothingConsumed ==
    ASSUME NEW r, Reader(r)
    PROVE  Consumed(r, r, 0)
BY DEF Reader, Consumed

\* What is consumed in two turns adds up, whether or not it is there: a reader
\* that has run over its data stays so.
LEMMA ConsumedInTurn ==
    ASSUME NEW r, Reader(r), NEW u, NEW x, NEW size \in Nat, NEW more \in Nat,
           Consumed(r, u, size), Consumed(u, x, more)
    PROVE  Consumed(r, x, size + more)
<1> DEFINE n == Len(r.data)
           from == r.pos
           to == u.pos
<1>1. /\ n \in Nat /\ from \in Nat /\ to \in Nat
      /\ r.ok \in BOOLEAN /\ u.ok \in BOOLEAN /\ x.ok \in BOOLEAN
  BY DEF Reader, Consumed
<1>2. /\ u.ok <=> r.ok /\ from + size <= n
      /\ u.ok => to = from + size
      /\ x.ok <=> u.ok /\ to + more <= n
      /\ x.ok => x.pos = to + more
      /\ Reader(x) /\ x.data = r.data
  BY DEF Consumed
<1> HIDE DEF n, from, to
<1>3. x.ok <=> r.ok /\ from + (size + more) <= n
  BY <1>1, <1>2
<1>4. x.ok => x.pos = from + (size + more)
  BY <1>1, <1>2
<1> QED BY <1>2, <1>3, <1>4 DEF Consumed, n, from

\* A part of a sequence of bytes.
LEMMA Slice ==
    ASSUME NEW s \in Seq(Int), NEW m \in Nat, NEW k \in Nat, m + k <= Len(s)
    PROVE  /\ SubSeq(s, m + 1, m + k) = [i \in 1..k |-> s[m + i]]
           /\ SubSeq(s, m + 1, m + k) \in Seq(Int)
           /\ Len(SubSeq(s, m + 1, m + k)) = k
<1> DEFINE part == SubSeq(s, m + 1, m + k)
<1>1. \A i \in m + 1..m + k : s[i] \in Int
  BY ElementOfSeq
<1>2. /\ part \in Seq(Int)
      /\ Len(part) = IF m + 1 <= m + k THEN (m + k) - (m + 1) + 1 ELSE 0
      /\ \A i \in 1..(m + k) - (m + 1) + 1 : part[i] = s[(m + 1) + i - 1]
  <2>1. ASSUME NEW from \in Int, NEW to \in Int,
               \A i \in from..to : s[i] \in Int
        PROVE  /\ SubSeq(s, from, to) \in Seq(Int)
               /\ Len(SubSeq(s, from, to)) = IF from <= to THEN to - from + 1 ELSE 0
               /\ \A i \in 1..to - from + 1 :
                      SubSeq(s, from, to)[i] = s[from + i - 1]
    BY <2>1, SubSeqProperties
  <2>2. m + 1 \in Int /\ m + k \in Int
    OBVIOUS
  <2> QED BY <1>1, <2>1, <2>2
<1> HIDE DEF part
<1>3. Len(part) = k /\ (m + k) - (m + 1) + 1 = k
  BY <1>2
<1>4. \A i \in 1..k : part[i] = s[m + i]
  <2> TAKE i \in 1..k
  <2>1. (m + 1) + i - 1 = m + i
    OBVIOUS
  <2> QED BY <1>2, <1>3, <2>1
<1>5. part = [i \in 1..k |-> part[i]]
  BY <1>2, <1>3
<1>6. part = [i \in 1..k |-> s[m + i]]
  BY <1>4, <1>5
<1> QED BY <1>2, <1>3, <1>6 DEF part

\* get reads the number that is there, if there are as many bytes.
LEMMA GetReads ==
    ASSUME NEW r, Reader(r), NEW kind \in DOMAIN Width, NEW name
    PROVE  /\ Consumed(r, get(r, name, kind), Width[kind])
           /\ \A v \in Scalars[kind] :
                  Holds(r.data, r.pos, kind, v) /\ get(r, name, kind).ok
                      => get(r, name, kind).struct = Put(r.struct, name, v)
<1> DEFINE k == Width[kind]
           end == r.pos + k
           bytes == SubSeq(r.data, r.pos + 1, end)
           u == get(r, name, kind)
<1>1. k \in 1..4
  BY Kinds
<1>2. r.pos \in Nat /\ r.data \in Seq(Int) /\ r.ok \in BOOLEAN
      /\ Len(r.data) \in Nat
  BY DEF Reader
<1>3. CASE r.ok /\ end <= Len(r.data)
  <2> DEFINE struct == Put(r.struct, name, Value(kind, bytes))
  <2>1. u = [r EXCEPT !.pos = end, !.struct = struct]
    BY <1>3 DEF get
  <2> HIDE DEF struct, k, bytes
  <2>2. u = [data |-> r.data, pos |-> end, ok |-> r.ok, struct |-> struct]
    BY <2>1 DEF Reader
  <2>3. Consumed(r, u, k)
    BY <1>1, <1>2, <1>3, <2>2 DEF Consumed, Reader
  <2>4. ASSUME NEW v \in Scalars[kind], Holds(r.data, r.pos, kind, v)
        PROVE  u.struct = Put(r.struct, name, v)
    <3>1. bytes = [i \in 1..k |-> r.data[r.pos + i]]
      <4>1. k \in Nat /\ r.pos + k <= Len(r.data)
        BY <1>1, <1>3
      <4>2. SubSeq(r.data, r.pos + 1, r.pos + k) =
                [i \in 1..k |-> r.data[r.pos + i]]
        BY <1>2, <4>1, Slice
      <4> QED BY <4>2 DEF bytes
    <3>2. BigEndian(v, k) = [i \in 1..k |-> BigEndian(v, k)[i]]
      BY DEF BigEndian
    <3>3. \A i \in 1..k : r.data[r.pos + i] = BigEndian(v, k)[i]
      BY <2>4 DEF Holds, k
    <3>4. bytes = BigEndian(v, k)
      BY <3>1, <3>2, <3>3
    <3>5. Value(kind, bytes) = v
      BY <3>4, ValueBigEndian DEF k
    <3> QED BY <2>2, <3>5 DEF struct
  <2> QED BY <2>3, <2>4 DEF k
<1>4. CASE ~(r.ok /\ end <= Len(r.data))
  <2>1. u = [r EXCEPT !.ok = FALSE]
    BY <1>4 DEF get
  <2>2. u = [data |-> r.data, pos |-> r.pos, ok |-> FALSE, struct |-> r.struct]
    BY <2>1 DEF Reader
  <2> HIDE DEF u
  <2>3. Consumed(r, u, k)
    BY <1>2, <1>4, <2>2 DEF Consumed, Reader
  <2> QED BY <2>2, <2>3 DEF u
<1> QED BY <1>3, <1>4

\* ReadAll, one field at a time.
FieldsRead(f, r, layout) ==
    /\ f[0] = r
    /\ \A i \in 1..Len(layout) : f[i] = get(f[i - 1], layout[i][1], layout[i][2])
    /\ ReadAll(r, layout) = f[Len(layout)]

\* The recursive function in ReadAll is what its equations say.
LEMMA ReadAllOneByOne ==
    ASSUME NEW r, NEW layout, Len(layout) \in Nat
    PROVE  \E f : FieldsRead(f, r, layout)
<1> DEFINE n == Len(layout)
           After(i, x) == get(x, layout[i][1], layout[i][2])
           Body(f, k) == [i \in 0..k |-> IF i = 0 THEN r
                              ELSE get(f[i - 1], layout[i][1], layout[i][2])]
           K == {k \in 0..n : \E g : g = Body(g, k)}
           after == CHOOSE f : f = Body(f, n)
<1>0. ReadAll(r, layout) = after[n]
  BY DEF ReadAll
<1> HIDE DEF n
<1>a. n \in Nat
  BY DEF n
<1>1. 0 \in K
  <2>1. [i \in 0..0 |-> r] = Body([i \in 0..0 |-> r], 0)
    OBVIOUS
  <2> HIDE DEF Body
  <2> QED BY <1>a, <2>1
<1>2. ASSUME NEW k \in 0..n - 1, k \in K PROVE k + 1 \in K
  <2>1. PICK g : g = Body(g, k)
    BY <1>2
  <2> DEFINE next == After(k + 1, g[k])
             v == [i \in 0..k + 1 |-> IF i <= k THEN g[i] ELSE next]
  <2>2. ASSUME NEW i \in 0..k + 1 PROVE v[i] = Body(v, k + 1)[i]
    <3>1. CASE i = 0
      BY <1>a, <2>1, <3>1
    <3>2. CASE i \in 1..k
      <4>1. v[i] = g[i] /\ v[i - 1] = g[i - 1] /\ i \in 0..k
        BY <1>a, <3>2
      <4>2. g[i] = Body(g, k)[i]
        BY <2>1
      <4> QED BY <3>2, <4>1, <4>2
    <3>3. CASE i = k + 1
      <4>1. v[i] = next /\ v[i - 1] = g[k]
        BY <1>a, <3>3
      <4> QED BY <1>a, <3>3, <4>1
    <3> QED BY <1>a, <3>1, <3>2, <3>3
  <2>3. v = Body(v, k + 1)
    BY <2>2
  <2>4. k + 1 \in 0..n
    BY <1>a
  <2> HIDE DEF Body, v
  <2> QED BY <2>3, <2>4
<1>3. n \in K
  <2> HIDE DEF K
  <2>1. 0..n \subseteq K
    BY <1>a, <1>1, <1>2, UpTo
  <2> QED BY <1>a, <2>1
<1>4. after = Body(after, n)
  <2> HIDE DEF Body
  <2> QED BY <1>3
<1> HIDE DEF after
<1>5. after[0] = r /\ \A i \in 1..n : after[i] = After(i, after[i - 1])
  <2>1. \A i \in 0..n : after[i] = Body(after, n)[i]
    BY <1>4
  <2> QED BY <1>a, <2>1
<1> QED BY <1>0, <1>5 DEF n, FieldsRead

\* A struct with the first k fields of a layout taken from another.
Filled(old, layout, k, struct) ==
    [name \in DOMAIN old \cup {layout[i][1] : i \in 1..k} |->
        IF name \in {layout[i][1] : i \in 1..k} THEN struct[name] ELSE old[name]]

\* A map on its keys, as a struct is.
IsMap(map) == map = [key \in DOMAIN map |-> map[key]]

\* A struct is filled one field at a time.
LEMMA FilledOneByOne ==
    ASSUME NEW old, IsMap(old), NEW layout, NEW struct
    PROVE  /\ Filled(old, layout, 0, struct) = old
           /\ \A k \in Nat :
                  Filled(old, layout, k + 1, struct) =
                      Put(Filled(old, layout, k, struct), layout[k + 1][1],
                          struct[layout[k + 1][1]])
<1>1. Filled(old, layout, 0, struct) = old
  <2>1. {layout[i][1] : i \in 1..0} = {}
    OBVIOUS
  <2> QED BY <2>1 DEF Filled, IsMap
<1>2. ASSUME NEW k \in Nat
      PROVE  Filled(old, layout, k + 1, struct) =
                 Put(Filled(old, layout, k, struct), layout[k + 1][1],
                     struct[layout[k + 1][1]])
  <2> DEFINE names == {layout[i][1] : i \in 1..k}
             more == {layout[i][1] : i \in 1..k + 1}
  <2>1. more = names \cup {layout[k + 1][1]}
    <3>1. \A i \in 1..k + 1 : i \in 1..k \/ i = k + 1
      OBVIOUS
    <3>2. \A i \in 1..k : i \in 1..k + 1
      OBVIOUS
    <3>3. k + 1 \in 1..k + 1
      OBVIOUS
    <3> QED BY <3>1, <3>2, <3>3
  <2>2. Filled(old, layout, k, struct) =
            [name \in DOMAIN old \cup names |->
                IF name \in names THEN struct[name] ELSE old[name]]
    BY DEF Filled
  <2>3. Filled(old, layout, k + 1, struct) =
            [name \in DOMAIN old \cup more |->
                IF name \in more THEN struct[name] ELSE old[name]]
    BY DEF Filled
  <2> HIDE DEF names, more
  <2> QED BY <2>1, <2>2, <2>3 DEF Put
<1> QED BY <1>1, <1>2

\* ReadAll reads the fields that are there, if the data is long enough.
LEMMA AllRead ==
    ASSUME NEW r, Reader(r), IsMap(r.struct),
           NEW layout, NEW at, Places(at, layout)
    PROVE  LET u == ReadAll(r, layout)
           IN  /\ Consumed(r, u, at[Len(layout) + 1])
               /\ \A struct :
                      /\ Typed(layout, struct)
                      /\ Carries(r.data, r.pos, layout, at, struct)
                      /\ u.ok
                      => u.struct = Filled(r.struct, layout, Len(layout), struct)
<1> DEFINE n == Len(layout)
           name(i) == layout[i][1]
           kind(i) == layout[i][2]
           Right(struct) == /\ Typed(layout, struct)
                            /\ Carries(r.data, r.pos, layout, at, struct)
           Good(k, u) ==
               /\ Consumed(r, u, at[k + 1])
               /\ \A struct : Right(struct) /\ u.ok
                      => u.struct = Filled(r.struct, layout, k, struct)
<1>1. /\ n \in Nat /\ \A i \in 1..n + 1 : at[i] \in Nat
      /\ at[1] = 0
      /\ \A i \in 1..n : kind(i) \in DOMAIN Width
                         /\ at[i + 1] = at[i] + Width[kind(i)]
  BY DEF Places
<1>2. PICK f : /\ f[0] = r
               /\ \A i \in 1..n : f[i] = get(f[i - 1], name(i), kind(i))
               /\ ReadAll(r, layout) = f[n]
  <2>1. PICK f : FieldsRead(f, r, layout)
    BY <1>1, ReadAllOneByOne
  <2> QED BY <2>1 DEF FieldsRead
<1> DEFINE S == {k \in 0..n : Good(k, f[k])}
<1>3. 0 \in S
  BY <1>1, <1>2, NothingConsumed, FilledOneByOne
<1>a. \A struct : \A i \in 1..n : Right(struct) =>
          /\ Holds(r.data, r.pos + at[i], kind(i), struct[name(i)])
          /\ struct[name(i)] \in Scalars[kind(i)]
  BY DEF Carries, Typed
<1> HIDE DEF n, Right
<1>4. ASSUME NEW k \in 0..n - 1, k \in S PROVE k + 1 \in S
  <2> DEFINE x == f[k]
             u == f[k + 1]
             step == Width[kind(k + 1)]
  <2>1. /\ k + 1 \in 1..n /\ k + 1 \in 0..n /\ (k + 1) - 1 = k /\ k \in Nat
        /\ k + 1 \in 1..n + 1 /\ k + 2 \in 1..n + 1 /\ (k + 1) + 1 = k + 2
    BY <1>1
  <2>2. u = get(x, name(k + 1), kind(k + 1))
    BY <1>2, <2>1
  <2>3. Good(k, x)
    BY <1>4
  <2>a. kind(k + 1) \in DOMAIN Width
    BY <1>1, <2>1
  <2>4. /\ at[k + 1] \in Nat /\ at[k + 2] \in Nat /\ step \in Nat
        /\ at[k + 2] = at[k + 1] + step
    <3>1. step \in Nat
      BY <2>a, Kinds
    <3> QED BY <1>1, <2>1, <3>1
  <2> HIDE DEF u, x
  <2>5. Consumed(r, x, at[k + 1]) /\ Reader(x)
    BY <2>3 DEF Consumed
  <2>6. /\ Consumed(x, u, step)
        /\ \A v \in Scalars[kind(k + 1)] :
               Holds(x.data, x.pos, kind(k + 1), v) /\ u.ok
                   => u.struct = Put(x.struct, name(k + 1), v)
    BY <2>2, <2>a, <2>5, GetReads
  <2> HIDE DEF step
  <2>7. Consumed(r, u, at[k + 2])
    BY <2>4, <2>5, <2>6, ConsumedInTurn
  <2>8. ASSUME NEW struct, Right(struct), u.ok
        PROVE  u.struct = Filled(r.struct, layout, k + 1, struct)
    <3>1. x.ok /\ x.pos = r.pos + at[k + 1] /\ x.data = r.data
      BY <2>5, <2>6, <2>8 DEF Consumed
    <3>2. x.struct = Filled(r.struct, layout, k, struct)
      BY <2>3, <2>8, <3>1
    <3>3. /\ Holds(x.data, x.pos, kind(k + 1), struct[name(k + 1)])
          /\ struct[name(k + 1)] \in Scalars[kind(k + 1)]
      <4>1. /\ Holds(r.data, r.pos + at[k + 1], kind(k + 1), struct[name(k + 1)])
            /\ struct[name(k + 1)] \in Scalars[kind(k + 1)]
        BY <1>a, <2>1, <2>8
      <4> QED BY <3>1, <4>1
    <3>4. u.struct = Put(x.struct, name(k + 1), struct[name(k + 1)])
      BY <2>6, <2>8, <3>3
    <3>5. Filled(r.struct, layout, k + 1, struct) =
              Put(Filled(r.struct, layout, k, struct), name(k + 1),
                  struct[name(k + 1)])
      <4>1. k \in Nat
        BY <2>1
      <4> QED BY <4>1, FilledOneByOne
    <3> QED BY <3>2, <3>4, <3>5
  <2> QED BY <2>1, <2>7, <2>8 DEF u
<1>5. n \in S
  <2> HIDE DEF S
  <2>1. 0..n \subseteq S
    BY <1>1, <1>3, <1>4, UpTo
  <2> QED BY <1>1, <2>1
<1> QED BY <1>2, <1>5 DEF n, Right

\* ReadStates, one player at a time.
PlayersRead(f, r, n) ==
    /\ f[0] = r
    /\ \A i \in 1..n :
           f[i] = ReadAll([f[i - 1] EXCEPT !.struct = NoEntries], StateRead)
    /\ ReadStates(r, n) =
           [f[n] EXCEPT !.struct =
               Put(r.struct, "players", [i \in 1..n |-> f[i].struct])]

\* The recursive function in ReadStates is what its equations say.
LEMMA ReadStatesOneByOne ==
    ASSUME NEW r, NEW n \in Nat
    PROVE  \E f : PlayersRead(f, r, n)
<1> DEFINE After(x) == ReadAll([x EXCEPT !.struct = NoEntries], StateRead)
           Body(f, k) == [i \in 0..k |-> IF i = 0 THEN r
                              ELSE ReadAll([f[i - 1] EXCEPT !.struct = NoEntries],
                                           StateRead)]
           K == {k \in 0..n : \E g : g = Body(g, k)}
           after == CHOOSE f : f = Body(f, n)
<1>0. ReadStates(r, n) =
          [after[n] EXCEPT !.struct =
              Put(r.struct, "players", [i \in 1..n |-> after[i].struct])]
  BY DEF ReadStates
<1>1. 0 \in K
  <2>1. [i \in 0..0 |-> r] = Body([i \in 0..0 |-> r], 0)
    OBVIOUS
  <2> HIDE DEF Body
  <2> QED BY <2>1
<1>2. ASSUME NEW k \in 0..n - 1, k \in K PROVE k + 1 \in K
  <2>1. PICK g : g = Body(g, k)
    BY <1>2
  <2> DEFINE next == After(g[k])
             v == [i \in 0..k + 1 |-> IF i <= k THEN g[i] ELSE next]
  <2>2. ASSUME NEW i \in 0..k + 1 PROVE v[i] = Body(v, k + 1)[i]
    <3>1. CASE i = 0
      BY <2>1, <3>1
    <3>2. CASE i \in 1..k
      <4>1. v[i] = g[i] /\ v[i - 1] = g[i - 1] /\ i \in 0..k
        BY <3>2
      <4>2. g[i] = Body(g, k)[i]
        BY <2>1
      <4> QED BY <3>2, <4>1, <4>2
    <3>3. CASE i = k + 1
      <4>1. v[i] = next /\ v[i - 1] = g[k] /\ i # 0 /\ i \in 0..k + 1
        BY <3>3
      <4>2. Body(v, k + 1)[i] = After(v[i - 1])
        BY <4>1
      <4>3. After(v[i - 1]) = After(g[k])
        BY <4>1, Zenon
      <4> QED BY <4>1, <4>2, <4>3, Zenon
    <3> QED BY <3>1, <3>2, <3>3
  <2>3. v = Body(v, k + 1)
    BY <2>2
  <2>4. k + 1 \in 0..n
    OBVIOUS
  <2> HIDE DEF Body, v
  <2> QED BY <2>3, <2>4
<1>3. n \in K
  <2> HIDE DEF K
  <2>1. 0..n \subseteq K
    BY <1>1, <1>2, UpTo
  <2> QED BY <2>1
<1>4. after = Body(after, n)
  <2> HIDE DEF Body
  <2> QED BY <1>3
<1> HIDE DEF after
<1>5. after[0] = r /\ \A i \in 1..n : after[i] = After(after[i - 1])
  <2>1. \A i \in 0..n : after[i] = Body(after, n)[i]
    BY <1>4
  <2>2. Body(after, n)[0] = r
    OBVIOUS
  <2>3. \A i \in 1..n : Body(after, n)[i] = After(after[i - 1])
    OBVIOUS
  <2>4. 0 \in 0..n /\ \A i \in 1..n : i \in 0..n
    OBVIOUS
  <2> HIDE DEF Body, After
  <2> QED BY <2>1, <2>2, <2>3, <2>4
<1> QED BY <1>0, <1>5 DEF PlayersRead

\* A state read into an empty struct is the state.
LEMMA StateFilled ==
    ASSUME NEW s \in States
    PROVE  Filled(NoEntries, StateWritten, 6, s) = s
<1>1. s \in [id : Scalars["u16"], x : Scalars["f32"], y : Scalars["f32"],
            vx : Scalars["f32"], vy : Scalars["f32"],
            last_processed_input_seq : Scalars["u32"]]
  BY SerializationAssumption
<1>2. {StateWritten[i][1] : i \in 1..6} =
          {"id", "x", "y", "vx", "vy", "last_processed_input_seq"}
  <2>1. \A i \in 1..6 : i = 1 \/ i = 2 \/ i = 3 \/ i = 4 \/ i = 5 \/ i = 6
    OBVIOUS
  <2> QED BY <2>1 DEF StateWritten
<1>3. DOMAIN s = {"id", "x", "y", "vx", "vy", "last_processed_input_seq"}
      /\ IsMap(s)
  BY <1>1 DEF IsMap
<1>4. DOMAIN NoEntries = {}
  BY DEF NoEntries
<1>5. Filled(NoEntries, StateWritten, 6, s) = [name \in DOMAIN s |-> s[name]]
  BY <1>2, <1>3, <1>4 DEF Filled
<1> QED BY <1>3, <1>5 DEF IsMap

\* ReadStates reads the states that are there, if the data is long enough for
\* all of them.
LEMMA AllStatesRead ==
    ASSUME NEW r, Reader(r), NEW n \in Nat
    PROVE  LET u == ReadStates(r, n)
           IN  /\ Consumed(r, u, 22 * n)
               /\ \A players \in [1..n -> States] :
                      CarriesStates(r.data, r.pos, players, n) /\ u.ok
                          => u.struct = Put(r.struct, "players", players)
<1>1. PICK f : PlayersRead(f, r, n)
  BY ReadStatesOneByOne
<1> DEFINE Right(players) == /\ players \in [1..n -> States]
                             /\ CarriesStates(r.data, r.pos, players, n)
           Good(k, x) ==
               /\ Consumed(r, x, 22 * k)
               /\ \A players : Right(players) /\ x.ok
                      => \A i \in 1..k : f[i].struct = players[i]
           S == {k \in 0..n : Good(k, f[k])}
<1>2. 0 \in S
  <2>1. 22 * 0 = 0 /\ f[0] = r /\ 0 \in 0..n
    BY <1>1 DEF PlayersRead
  <2>2. Consumed(r, r, 0)
    BY NothingConsumed
  <2> QED BY <2>1, <2>2
<1>3. ASSUME NEW k \in 0..n - 1, k \in S PROVE k + 1 \in S
  <2> DEFINE x == f[k]
             u == f[k + 1]
             empty == [x EXCEPT !.struct = NoEntries]
  <2>1. k + 1 \in 1..n /\ k + 1 \in 0..n /\ (k + 1) - 1 = k
    OBVIOUS
  <2>2. u = ReadAll(empty, StateRead)
    BY <1>1, <2>1 DEF PlayersRead
  <2>3. Good(k, x)
    BY <1>3
  <2> HIDE DEF u, x
  <2>4. Consumed(r, x, 22 * k) /\ Reader(x)
    BY <2>3 DEF Consumed
  <2>5. /\ empty = [data |-> x.data, pos |-> x.pos, ok |-> x.ok,
                    struct |-> NoEntries]
        /\ Reader(empty)
    BY <2>4 DEF Reader
  <2> HIDE DEF empty
  <2>6. IsMap(empty.struct)
    BY <2>5 DEF IsMap, NoEntries
  <2>7. /\ Consumed(empty, u, 22)
        /\ \A struct : /\ Typed(StateWritten, struct)
                       /\ Carries(empty.data, empty.pos, StateWritten, StateAt,
                                  struct)
                       /\ u.ok
               => u.struct = Filled(NoEntries, StateWritten, 6, struct)
    <3>1. /\ Places(StateAt, StateWritten) /\ StateRead = StateWritten
          /\ Len(StateWritten) = 6 /\ StateAt[6 + 1] = 22
      BY StatePlaces DEF StateAt
    <3>2. u = ReadAll(empty, StateWritten)
      BY <2>2, <3>1
    <3>3. /\ Consumed(empty, u, StateAt[Len(StateWritten) + 1])
          /\ \A struct : /\ Typed(StateWritten, struct)
                         /\ Carries(empty.data, empty.pos, StateWritten, StateAt,
                                    struct)
                         /\ u.ok
                 => u.struct = Filled(empty.struct, StateWritten,
                                      Len(StateWritten), struct)
      BY <2>5, <2>6, <3>1, <3>2, AllRead
    <3>4. empty.struct = NoEntries
      BY <2>5
    <3> QED BY <3>1, <3>3, <3>4
  <2>8. Consumed(x, u, 22)
    BY <2>5, <2>7 DEF Consumed
  <2>9. Consumed(r, u, 22 * (k + 1))
    <3>1. 22 * k \in Nat /\ 22 * k + 22 = 22 * (k + 1)
      OBVIOUS
    <3>2. Consumed(r, u, 22 * k + 22)
      BY <2>4, <2>8, <3>1, ConsumedInTurn
    <3> QED BY <3>1, <3>2
  <2>10. ASSUME NEW players, Right(players), u.ok, NEW i \in 1..k + 1
         PROVE  f[i].struct = players[i]
    <3>1. x.ok /\ x.pos = r.pos + 22 * k /\ x.data = r.data
      BY <2>4, <2>8, <2>10 DEF Consumed
    <3>2. CASE i \in 1..k
      BY <2>3, <2>10, <3>1, <3>2
    <3>3. CASE i = k + 1
      <4> DEFINE s == players[k + 1]
      <4>1. s \in States /\ Carries(r.data, r.pos + 22 * k, StateWritten, StateAt, s)
        BY <2>1, <2>10 DEF CarriesStates
      <4> HIDE DEF s
      <4>2. /\ Typed(StateWritten, s)
            /\ Carries(empty.data, empty.pos, StateWritten, StateAt, s)
        BY <2>5, <3>1, <4>1, StatesTyped
      <4>3. u.struct = s
        BY <2>7, <2>10, <4>1, <4>2, StateFilled
      <4> QED BY <3>3, <4>3 DEF u, s
    <3> QED BY <3>2, <3>3
  <2> QED BY <2>1, <2>9, <2>10 DEF u
<1>4. n \in S
  <2> HIDE DEF S
  <2>1. 0..n \subseteq S
    BY <1>2, <1>3, UpTo
  <2> QED BY <2>1
<1> DEFINE x == f[n]
           states == [i \in 1..n |-> f[i].struct]
           struct == Put(r.struct, "players", states)
           u == ReadStates(r, n)
<1>5. u = [x EXCEPT !.struct = struct]
  BY <1>1 DEF PlayersRead
<1>6. Consumed(r, x, 22 * n) /\ Reader(x)
  BY <1>4 DEF Consumed
<1>7. \A players : Right(players) /\ x.ok => states = players
  <2> SUFFICES ASSUME NEW players, Right(players), x.ok
               PROVE  states = players
    OBVIOUS
  <2>1. \A i \in 1..n : f[i].struct = players[i]
    BY <1>4
  <2>2. players = [i \in 1..n |-> players[i]]
    OBVIOUS
  <2> QED BY <2>1, <2>2
<1> HIDE DEF x, states, u
<1>8. u = [data |-> x.data, pos |-> x.pos, ok |-> x.ok, struct |-> struct]
  BY <1>5, <1>6 DEF Reader
<1>9. Consumed(r, u, 22 * n)
  BY <1>6, <1>8 DEF Consumed, Reader
<1>10. \A players : Right(players) /\ u.ok
           => u.struct = Put(r.struct, "players", players)
  BY <1>7, <1>8
<1> QED BY <1>9, <1>10 DEF u

-----------------------------------------------------------------------------
\* What a datagram is cut down to holds what it held before the cut.
LEMMA Cut ==
    ASSUME NEW data \in Seq(Int), NEW size \in 0..Len(data)
    PROVE  LET cut == SubSeq(data, 1, size)
           IN  /\ cut \in Seq(Int) /\ Len(cut) = size
               /\ size = Len(data) => cut = data
               /\ \A at \in Nat, kind \in DOMAIN Width : \A v :
                      Holds(data, at, kind, v) /\ at + Width[kind] <= size
                          => Holds(cut, at, kind, v)
<1> DEFINE cut == SubSeq(data, 1, size)
<1>1. size \in Nat /\ size <= Len(data) /\ 0 + size = size /\ Len(data) \in Nat
  OBVIOUS
<1>2. /\ SubSeq(data, 0 + 1, 0 + size) = [i \in 1..size |-> data[0 + i]]
      /\ SubSeq(data, 0 + 1, 0 + size) \in Seq(Int)
      /\ Len(SubSeq(data, 0 + 1, 0 + size)) = size
  BY <1>1, Slice
<1>3. cut = [i \in 1..size |-> data[i]] /\ cut \in Seq(Int) /\ Len(cut) = size
  BY <1>1, <1>2
<1> HIDE DEF cut
<1>4. size = Len(data) => cut = data
  BY <1>3
<1>5. ASSUME NEW at \in Nat, NEW kind \in DOMAIN Width, NEW v,
             Holds(data, at, kind, v), at + Width[kind] <= size
      PROVE  Holds(cut, at, kind, v)
  <2>1. Width[kind] \in Nat
    BY Kinds
  <2>2. \A i \in 1..Width[kind] : at + i \in 1..size
    BY <1>1, <1>5, <2>1
  <2> QED BY <1>3, <1>5, <2>1, <2>2 DEF Holds
<1> QED BY <1>3, <1>4, <1>5 DEF cut

\* A datagram, cut or not, claims the type of the packet, unless nothing of it
\* is left.
LEMMA TypePeeked ==
    ASSUME NEW p \in Packets, NEW data, Encoded(data, p),
           NEW size \in 0..Len(data), NEW t \in DOMAIN PacketType
    PROVE  t \in peek_type(SubSeq(data, 1, size)) <=> size # 0 /\ t = p.type
<1> DEFINE cut == SubSeq(data, 1, size)
           tag == PacketType[p.type]
<1>1. /\ data \in Seq(Int) /\ Holds(data, 0, "u8", tag)
      /\ p.type \in DOMAIN PacketType /\ tag \in 1..5
  BY PacketFields, HeadSizes DEF Encoded
<1>2. cut \in Seq(Int) /\ Len(cut) = size
  BY <1>1, Cut
<1>3. "u8" \in DOMAIN Width /\ Width["u8"] = 1
  BY DEF Width
<1>4. size # 0 => cut[1] = tag
  <2> SUFFICES ASSUME size # 0 PROVE cut[1] = tag
    OBVIOUS
  <2> HIDE DEF tag
  <2>1. Holds(cut, 0, "u8", tag)
    <3>1. 0 + Width["u8"] <= size /\ 0 \in Nat
      BY <1>1, <1>3
    <3> QED BY <1>1, <1>3, <3>1, Cut
  <2>2. cut[0 + 1] = BigEndian(tag, 1)[1]
    BY <1>3, <2>1 DEF Holds
  <2>3. BigEndian(tag, 1)[1] = (tag \div Power[0]) % Base
    BY DEF BigEndian
  <2>4. tag \div Power[0] = tag
    BY <1>1, Powers, Z3
  <2>5. tag % Base = tag
    <3>1. Base \in Nat \ {0} /\ tag \in 0..Base - 1
      BY <1>1, SerializationAssumption
    <3> QED BY <3>1, Unwrapped
  <2> QED BY <2>2, <2>3, <2>4, <2>5
<1>5. t = p.type <=> PacketType[t] = tag
  BY <1>1 DEF PacketType
<1>6. cut = <<>> <=> size = 0
  BY <1>2
<1> HIDE DEF cut, tag
<1>7. t \in peek_type(cut) <=> size # 0 /\ t = p.type
  BY <1>4, <1>5, <1>6 DEF peek_type
<1> QED BY <1>7 DEF cut

\* A packet in one piece is decoded to what was encoded, and nothing else is.
LEMMA Decodes ==
    ASSUME NEW p \in Packets, NEW data, Encoded(data, p),
           IsSnapshot(p) => Len(p.players) <= MAX_PLAYERS,
           NEW size \in 0..Len(data), NEW t \in DOMAIN PacketType
    PROVE  decode(t, SubSeq(data, 1, size)) =
               IF t = p.type /\ size = Len(data) THEN {p} ELSE {}
<1> DEFINE cut == SubSeq(data, 1, size)
           start == [data |-> cut, pos |-> 1, ok |-> TRUE,
                     struct |-> [type |-> t]]
           head == ReadAll(start, Read[t])
           asked == [head EXCEPT !.struct = NoEntries]
           count == get(asked, "n", "u16")
           counted == [count EXCEPT !.struct = head.struct]
           n == count.struct["n"]
           all == ReadStates(counted, n)
<1>1. /\ data \in Seq(Int) /\ Len(data) = Size(p) /\ Len(data) \in Nat
      /\ p.type \in DOMAIN PacketType
      /\ HeadSize(p.type) \in 3..11
      /\ IsSnapshot(p) => Len(p.players) \in Nat /\ HeadSize(p.type) = 5
  <2>1. IsSnapshot(p) => Len(p.players) \in Nat
    BY PacketFields, PlayersCounted
  <2>2. p.type \in DOMAIN PacketType
    BY PacketFields
  <2>3. HeadSize(p.type) \in 3..11 /\ (IsSnapshot(p) => HeadSize(p.type) = 5)
    BY <2>2, HeadSizes DEF IsSnapshot
  <2> QED BY <2>1, <2>2, <2>3 DEF Encoded
<1>2. cut \in Seq(Int) /\ Len(cut) = size /\ (size = Len(data) => cut = data)
  BY <1>1, Cut
<1>3. t \in peek_type(cut) <=> size # 0 /\ t = p.type
  BY TypePeeked
<1>4. decode(t, cut) =
          IF t \notin peek_type(cut) \/ ~head.ok THEN {}
          ELSE IF t # "WORLD_SNAPSHOT" THEN {head.struct}
          ELSE IF ~count.ok \/ n > MAX_PLAYERS THEN {}
          ELSE IF all.ok THEN {all.struct} ELSE {}
  BY DEF decode
<1>5. CASE ~(size # 0 /\ t = p.type)
  <2>1. Len(data) # 0
    <3>1. CASE IsSnapshot(p)
      BY <1>1, <3>1 DEF Size
    <3>2. CASE ~IsSnapshot(p)
      BY <1>1, <3>2 DEF Size
    <3> QED BY <3>1, <3>2
  <2>2. decode(t, cut) = {}
    BY <1>3, <1>4, <1>5
  <2> QED BY <1>5, <2>1, <2>2
<1>6. CASE size # 0 /\ t = p.type
  <2> HIDE DEF cut
  <2>1. Reader(start) /\ IsMap(start.struct) /\ start.data = cut /\ start.pos = 1
        /\ start.ok /\ start.struct = [type |-> t]
    BY <1>2, <1>6 DEF Reader, IsMap
  <2> HIDE DEF start
  <2>2. Places(FieldsAt[t], Written[t]) /\ Read[t] = Written[t]
    BY FieldPlaces
  <2> DEFINE rest == FieldsAt[t][Len(Written[t]) + 1]
  <2>3. rest \in Nat /\ HeadSize(t) = 1 + rest
    BY <2>2, PlacesAscend DEF HeadSize
  <2>4. /\ Consumed(start, head, rest)
        /\ \A struct : /\ Typed(Written[t], struct)
                       /\ Carries(cut, 1, Written[t], FieldsAt[t], struct)
                       /\ head.ok
               => head.struct = Filled([type |-> t], Written[t],
                                       Len(Written[t]), struct)
    BY <2>1, <2>2, AllRead
  <2> HIDE DEF head, rest
  <2>5. /\ Reader(head) /\ head.data = cut
        /\ head.ok <=> HeadSize(t) <= size
        /\ head.ok => head.pos = HeadSize(t)
    BY <1>2, <2>1, <2>3, <2>4 DEF Consumed
  <2>6. head.ok /\ size = Len(data) =>
            head.struct = [name \in DOMAIN p \ {"players"} |-> p[name]]
    <3> SUFFICES ASSUME head.ok, size = Len(data)
                 PROVE  head.struct = [name \in DOMAIN p \ {"players"} |-> p[name]]
      OBVIOUS
    <3>1. Typed(Written[t], p) /\ Carries(cut, 1, Written[t], FieldsAt[t], p)
      BY <1>2, <1>6, PacketFields DEF Encoded
    <3>2. head.struct = Filled([type |-> t], Written[t], Len(Written[t]), p)
      BY <2>4, <3>1
    <3>3. DOMAIN p \ {"players"} = {"type"} \cup Names(Written[t])
      <4>1. "players" \notin Names(Written[t])
        <5>1. t \in {"JOIN_REQUEST", "JOIN_ACCEPT", "INPUT_COMMAND",
                     "WORLD_SNAPSHOT", "DISCONNECT_NOTICE"}
          BY DEF PacketType
        <5> QED BY <5>1 DEF Names, Written
      <4> QED BY <1>6, <4>1, PacketFields
    <3>4. \A name \in {"type"} : p[name] = [type |-> t][name]
      BY <1>6
    <3> QED BY <3>2, <3>3, <3>4 DEF Filled, Names
  <2>7. CASE ~IsSnapshot(p)
    <3>1. t # "WORLD_SNAPSHOT" /\ Len(data) = HeadSize(t)
      BY <1>1, <1>6, <2>7 DEF IsSnapshot, Size
    <3>2. CASE size = Len(data)
      <4>1. head.ok /\ head.struct = [name \in DOMAIN p \ {"players"} |-> p[name]]
        BY <1>1, <2>5, <2>6, <3>1, <3>2
      <4>2. "players" \notin DOMAIN p /\ p = [name \in DOMAIN p |-> p[name]]
        <5>1. "players" \notin Names(Written[t])
          <6>1. t \in {"JOIN_REQUEST", "JOIN_ACCEPT", "INPUT_COMMAND",
                       "WORLD_SNAPSHOT", "DISCONNECT_NOTICE"}
            BY DEF PacketType
          <6>2. CASE t = "JOIN_REQUEST"
            BY <6>2 DEF Names, Written
          <6>3. CASE t = "JOIN_ACCEPT"
            BY <6>3 DEF Names, Written
          <6>4. CASE t = "INPUT_COMMAND"
            BY <6>4 DEF Names, Written
          <6>5. CASE t = "WORLD_SNAPSHOT"
            BY <6>5 DEF Names, Written
          <6>6. CASE t = "DISCONNECT_NOTICE"
            BY <6>6 DEF Names, Written
          <6> QED BY <6>1, <6>2, <6>3, <6>4, <6>5, <6>6
        <5> QED BY <1>6, <2>7, <5>1, PacketFields
      <4>3. DOMAIN p \ {"players"} = DOMAIN p
        BY <4>2
      <4>4. head.struct = p
        BY <4>1, <4>2, <4>3
      <4> QED BY <1>3, <1>4, <1>6, <3>1, <3>2, <4>1, <4>4 DEF cut
    <3>3. CASE size # Len(data)
      <4>1. ~head.ok
        BY <1>1, <2>5, <3>1, <3>3
      <4> QED BY <1>4, <3>3, <4>1 DEF cut
    <3> QED BY <3>2, <3>3
  <2>8. CASE IsSnapshot(p)
    <3> DEFINE m == Len(p.players)
    <3>1. /\ t = "WORLD_SNAPSHOT" /\ HeadSize(t) = 5 /\ m \in Nat
          /\ Len(data) = 7 + 22 * m /\ m <= MAX_PLAYERS
          /\ p.players \in [1..m -> States]
      BY <1>1, <1>6, <2>8, PacketFields DEF IsSnapshot, Size
    <3>2. m \in Scalars["u16"]
      <4>1. Scalars["u16"] = 0..Power[2] - 1
        BY DEF Scalars, Width
      <4>2. Power[2] \in Nat
        BY Powers
      <4> HIDE DEF m
      <4> QED BY <3>1, <4>1, <4>2, PlayersCounted
    <3> HIDE DEF m
    <3>3. /\ asked = [data |-> cut, pos |-> head.pos, ok |-> head.ok,
                      struct |-> NoEntries]
          /\ Reader(asked)
      BY <2>5 DEF Reader
    <3> HIDE DEF asked
    <3>4. /\ Consumed(asked, count, 2)
          /\ Holds(cut, asked.pos, "u16", m) /\ count.ok
                 => count.struct = Put(NoEntries, "n", m)
      <4>1. "u16" \in DOMAIN Width /\ Width["u16"] = 2
        BY DEF Width
      <4>2. asked.data = cut /\ asked.struct = NoEntries
        BY <3>3
      <4> QED BY <3>2, <3>3, <4>1, <4>2, GetReads
    <3> HIDE DEF count, n
    <3>5. /\ Reader(count) /\ count.data = cut
          /\ count.ok <=> 7 <= size
          /\ count.ok => count.pos = 7 /\ head.ok
      <4>1. /\ asked.data = cut /\ asked.pos = head.pos /\ asked.ok = head.ok
            /\ head.ok <=> 5 <= size
            /\ head.ok => head.pos = 5
        BY <2>5, <3>1, <3>3
      <4>2. /\ Reader(count) /\ count.data = cut
            /\ count.ok <=> head.ok /\ head.pos + 2 <= size
            /\ count.ok => count.pos = head.pos + 2
        BY <1>2, <3>4, <4>1 DEF Consumed
      <4>3. count.ok \in BOOLEAN /\ head.ok \in BOOLEAN
        BY <2>5, <4>2 DEF Reader
      <4> QED BY <4>1, <4>2, <4>3
    <3>6. count.ok => n = m
      <4> SUFFICES ASSUME count.ok PROVE n = m
        OBVIOUS
      <4>1. 7 <= size /\ asked.pos = 5
        BY <2>5, <3>1, <3>3, <3>5
      <4>2. Holds(data, 5, "u16", m)
        BY <2>8 DEF Encoded, m
      <4>3. Holds(cut, 5, "u16", m)
        <5>1. "u16" \in DOMAIN Width /\ 5 + Width["u16"] <= size /\ 5 \in Nat
          BY <4>1 DEF Width
        <5> QED BY <1>1, <4>2, <5>1, Cut DEF cut
      <4>4. count.struct = Put(NoEntries, "n", m)
        BY <3>4, <4>1, <4>3
      <4> QED BY <4>4 DEF Put, n
    <3>7. CASE count.ok
      <4>1. /\ counted = [data |-> cut, pos |-> 7, ok |-> TRUE,
                          struct |-> head.struct]
            /\ Reader(counted)
        <5>1. counted = [data |-> count.data, pos |-> count.pos,
                         ok |-> count.ok, struct |-> head.struct]
          BY <3>5, StructReplaced
        <5>a. count.ok = TRUE
          BY <3>5, <3>7 DEF Reader
        <5>2. counted = [data |-> cut, pos |-> 7, ok |-> TRUE,
                         struct |-> head.struct]
          BY <3>5, <3>7, <5>1, <5>a
        <5> HIDE DEF counted
        <5>3. 7 <= Len(cut)
          BY <1>2, <3>5, <3>7
        <5> QED BY <1>2, <5>2, <5>3 DEF Reader
      <4> HIDE DEF counted
      <4>2. /\ Consumed(counted, all, 22 * m)
            /\ \A players \in [1..m -> States] :
                   CarriesStates(cut, 7, players, m) /\ all.ok
                       => all.struct = Put(head.struct, "players", players)
        <5>1. /\ counted.data = cut /\ counted.pos = 7
              /\ counted.struct = head.struct
          BY <4>1
        <5>2. all = ReadStates(counted, m)
          BY <3>6, <3>7
        <5> HIDE DEF all
        <5>3. /\ Consumed(counted, all, 22 * m)
              /\ \A players \in [1..m -> States] :
                     CarriesStates(counted.data, counted.pos, players, m) /\ all.ok
                         => all.struct = Put(counted.struct, "players", players)
          BY <3>1, <4>1, <5>2, AllStatesRead
        <5> QED BY <5>1, <5>3
      <4>3. decode(t, cut) = IF all.ok THEN {all.struct} ELSE {}
        <5>1. ~(n > MAX_PLAYERS)
          BY <3>1, <3>6, <3>7, PlayersCounted
        <5>2. head.ok /\ t \in peek_type(cut)
          BY <1>3, <1>6, <3>5, <3>7
        <5> HIDE DEF all
        <5> QED BY <1>4, <3>1, <3>7, <5>1, <5>2
      <4> HIDE DEF all
      <4>4. all.ok <=> 7 + 22 * m <= size
        BY <1>2, <4>1, <4>2 DEF Consumed
      <4>5. CASE size = Len(data)
        <5>1. all.ok
          BY <3>1, <4>4, <4>5
        <5>2. CarriesStates(cut, 7, p.players, m)
          BY <1>2, <2>8, <4>5 DEF Encoded, m
        <5>3. all.struct = Put(head.struct, "players", p.players)
          BY <3>1, <4>2, <5>1, <5>2
        <5>4. head.struct = [name \in DOMAIN p \ {"players"} |-> p[name]]
          BY <2>6, <3>5, <3>7, <4>5
        <5>5. "players" \in DOMAIN p /\ p = [name \in DOMAIN p |-> p[name]]
          BY <2>8, PacketFields
        <5>6. all.struct = [name \in DOMAIN p |-> p[name]]
          <6>1. DOMAIN head.struct \cup {"players"} = DOMAIN p
            BY <5>4, <5>5
          <6>2. \A name \in DOMAIN p :
                    (IF name = "players" THEN p.players ELSE head.struct[name])
                        = p[name]
            BY <5>4
          <6> QED BY <5>3, <6>1, <6>2 DEF Put
        <5> QED BY <1>6, <4>3, <4>5, <5>1, <5>5, <5>6 DEF cut
      <4>6. CASE size # Len(data)
        <5>1. ~all.ok
          BY <1>1, <3>1, <4>4, <4>6
        <5> QED BY <4>3, <4>6, <5>1 DEF cut
      <4> QED BY <4>5, <4>6
    <3>8. CASE ~count.ok
      <4>1. size # Len(data)
        BY <1>1, <3>1, <3>5, <3>8
      <4>2. decode(t, cut) = {}
        BY <1>4, <3>1, <3>8
      <4> QED BY <4>1, <4>2 DEF cut
    <3> QED BY <3>7, <3>8
  <2> QED BY <2>7, <2>8
<1> QED BY <1>5, <1>6

-----------------------------------------------------------------------------
\* A packet that its sender can encode.
Sendable(p) == IsSnapshot(p) => Len(p.players) <= MAX_PLAYERS

\* The buffer of each sender has room for every packet but a snapshot of a player
\* too many, and every packet that is sent fits a receiver's MAX_PACKET_BYTES.
LEMMA SendBufferFits ==
    ASSUME NEW p \in Packets
    PROVE  /\ SendBuffer[p.type] \in Nat /\ Size(p) \in Nat \ {0}
           /\ Sendable(p) <=> Size(p) <= SendBuffer[p.type]
           /\ Sendable(p) => Size(p) <= MAX_PACKET_BYTES
<1> DEFINE n == Len(p.players)
<1>1. p.type \in DOMAIN PacketType
  BY PacketFields
<1>2. CASE IsSnapshot(p)
  <2>1. n \in Nat
    BY <1>2, PacketFields, PlayersCounted
  <2>2. Size(p) = 7 + 22 * n /\ SendBuffer[p.type] = 7 + 22 * MAX_PLAYERS
    <3>1. SendBuffer[p.type] = MAX_SNAPSHOT_BYTES
      BY <1>2 DEF SendBuffer, IsSnapshot
    <3> QED BY <1>2, <3>1, PlayersCounted DEF Size
  <2> HIDE DEF n
  <2>3. Sendable(p) <=> n <= MAX_PLAYERS
    BY <1>2 DEF Sendable, n
  <2> QED BY <2>1, <2>2, <2>3, PlayersCounted
<1>3. CASE ~IsSnapshot(p)
  <2>1. Sendable(p) /\ Size(p) = HeadSize(p.type)
    BY <1>3 DEF Sendable, Size
  <2>2. HeadSize(p.type) \in 3..11
        /\ (p.type \in {"JOIN_REQUEST", "DISCONNECT_NOTICE"}
                => HeadSize(p.type) = 3)
    BY <1>1, HeadSizes
  <2>3. p.type \in {"JOIN_REQUEST", "JOIN_ACCEPT", "INPUT_COMMAND",
                    "DISCONNECT_NOTICE"}
    BY <1>1, <1>3 DEF PacketType, IsSnapshot
  <2>4. SendBuffer[p.type] \in {8, 32}
        /\ (SendBuffer[p.type] = 8
                => p.type \in {"JOIN_REQUEST", "DISCONNECT_NOTICE"})
    <3>1. CASE p.type \in {"JOIN_REQUEST", "DISCONNECT_NOTICE"}
      BY <3>1 DEF SendBuffer
    <3>2. CASE p.type \in {"JOIN_ACCEPT", "INPUT_COMMAND"}
      BY <3>2 DEF SendBuffer
    <3> QED BY <2>3, <3>1, <3>2
  <2> QED BY <2>1, <2>2, <2>4, PlayersCounted
<1> QED BY <1>2, <1>3

\* The datagram on its way is the encoding of the struct encoded last.
WireInv ==
    datagram # <<>> =>
        \E p \in Packets : /\ packet = {p}
                           /\ Sendable(p)
                           /\ Encoded(datagram, p)

\* Send puts the packet on its way, encoded, or nothing if it cannot be sent.
LEMMA SendEncodes ==
    ASSUME NEW p \in Packets, Send(p)
    PROVE  /\ packet' = {p}
           /\ datagram' # <<>> => Encoded(datagram', p)
           /\ datagram' # <<>> <=> Sendable(p)
<1>1. datagram' = encode(p, SendBuffer[p.type]) /\ packet' = {p}
  BY DEF Send
<1> DEFINE cap == SendBuffer[p.type]
<1>2. cap \in Nat /\ Size(p) \in Nat \ {0} /\ (Sendable(p) <=> Size(p) <= cap)
  BY SendBufferFits
<1> HIDE DEF cap
<1>3. CASE Size(p) <= cap
  <2>1. Encoded(datagram', p)
    BY <1>1, <1>2, <1>3, Encodes DEF cap
  <2>2. Len(datagram') \in Nat \ {0}
    BY <1>2, <2>1 DEF Encoded
  <2>3. datagram' # <<>>
    BY <2>2
  <2> QED BY <1>1, <1>2, <1>3, <2>1, <2>3
<1>4. CASE ~(Size(p) <= cap)
  <2>1. datagram' = <<>>
    BY <1>1, <1>2, <1>4, Encodes DEF cap
  <2> QED BY <1>1, <1>2, <1>4, <2>1
<1> QED BY <1>3, <1>4

\* At all times, what is on its way is the encoding of the last struct.
LEMMA WireInvHolds == WireSpec => []WireInv
<1>1. WireInit => WireInv
  BY DEF WireInit, WireInv
<1>2. WireInv /\ [WireNext]_wireVars => WireInv'
  <2> SUFFICES ASSUME WireInv, [WireNext]_wireVars PROVE WireInv'
    OBVIOUS
  <2>1. ASSUME NEW p \in Packets, Send(p) PROVE WireInv'
    BY <2>1, SendEncodes DEF WireInv
  <2>2. ASSUME NEW by \in DOMAIN Handled, Receive(by) PROVE WireInv'
    BY <2>2 DEF Receive, WireInv
  <2>3. CASE UNCHANGED wireVars
    BY <2>3 DEF wireVars, WireInv
  <2> QED BY <2>1, <2>2, <2>3 DEF WireNext
<1> QED BY <1>1, <1>2, PTL DEF WireSpec

\* Wherever a datagram is cut, every decoder refuses what is left of it.
THEOREM CutIsRefused == WireSpec => []TruncatedFails
<1>1. WireInv => TruncatedFails
  <2> SUFFICES ASSUME WireInv, NEW size \in 0..Len(datagram) - 1,
                      NEW t \in DOMAIN PacketType
               PROVE  decode(t, SubSeq(datagram, 1, size)) = {}
    BY DEF TruncatedFails
  <2>1. datagram # <<>>
    OBVIOUS
  <2>2. PICK p \in Packets : Sendable(p) /\ Encoded(datagram, p)
    BY <2>1 DEF WireInv
  <2>3. Len(datagram) \in Nat
    BY <2>2 DEF Encoded
  <2>4. size \in 0..Len(datagram) /\ size # Len(datagram)
    BY <2>3
  <2> QED BY <2>2, <2>4, Decodes DEF Sendable
<1> QED BY <1>1, WireInvHolds, PTL

\* Every packet fits its sender's buffer, a snapshot up to the number of players
\* that its decoder accepts and no further.
THEOREM SentOrRefused == WireSpec => FitsOrRefused
<1> DEFINE A == datagram = <<>> =>
                    \A p \in packet' :
                        datagram' = <<>> <=>
                            p.type = "WORLD_SNAPSHOT" /\ Len(p.players) > MAX_PLAYERS
<1>1. WireInv /\ [WireNext]_wireVars => [A]_wireVars
  <2> SUFFICES ASSUME WireNext PROVE A
    OBVIOUS
  <2>1. ASSUME NEW p \in Packets, Send(p) PROVE A
    <3>1. datagram' = <<>> <=> IsSnapshot(p) /\ ~(Len(p.players) <= MAX_PLAYERS)
      BY <2>1, SendEncodes DEF Sendable
    <3>2. IsSnapshot(p) => Len(p.players) \in Nat
      BY PacketFields, PlayersCounted
    <3>3. packet' = {p}
      BY <2>1, SendEncodes
    <3> QED BY <3>1, <3>2, <3>3, PlayersCounted DEF IsSnapshot
  <2>2. ASSUME NEW by \in DOMAIN Handled, Receive(by) PROVE A
    BY <2>2 DEF Receive
  <2> QED BY <2>1, <2>2 DEF WireNext
<1>2. WireSpec => [][A]_wireVars
  BY <1>1, WireInvHolds, PTL DEF WireSpec
<1> QED BY <1>2 DEF FitsOrRefused

\* What a receiver makes of a datagram that recv_from has cut to its buffer: a
\* type too long for the buffer is none of those that the receiver handles.
LEMMA Received ==
    ASSUME NEW p \in Packets, Sendable(p), NEW data, Encoded(data, p),
           NEW by \in DOMAIN Handled, NEW size,
           size = IF Len(data) < ReceiveBuffer[by] THEN Len(data)
                  ELSE ReceiveBuffer[by]
    PROVE  UNION {decode(t, SubSeq(data, 1, size)) :
                      t \in peek_type(SubSeq(data, 1, size)) \cap Handled[by]}
               = {q \in {p} : q.type \in Handled[by]}
<1> DEFINE cut == SubSeq(data, 1, size)
           types == peek_type(cut) \cap Handled[by]
<1>1. /\ Len(data) = Size(p) /\ Len(data) \in Nat \ {0}
      /\ Len(data) <= MAX_PACKET_BYTES
  BY SendBufferFits DEF Encoded
<1>2. by \in {"server", "joining", "receiver"}
  BY DEF Handled
<1>3. ReceiveBuffer[by] \in Nat \ {0}
  BY <1>1, <1>2, PlayersCounted DEF ReceiveBuffer
<1>4. size \in 1..Len(data) /\ size \in 0..Len(data)
  BY <1>1, <1>3
<1>5. p.type \in Handled[by] => size = Len(data)
  <2>1. CASE by = "joining"
    <3>1. Handled[by] = {"JOIN_ACCEPT"} /\ ReceiveBuffer[by] = 64
      BY <2>1 DEF Handled, ReceiveBuffer
    <3>2. p.type = "JOIN_ACCEPT" => Size(p) = 11
      BY PacketFields, HeadSizes DEF Size, IsSnapshot
    <3> QED BY <1>1, <3>1, <3>2
  <2>2. CASE by # "joining"
    <3>1. ReceiveBuffer[by] = MAX_PACKET_BYTES
      BY <1>2, <2>2 DEF ReceiveBuffer
    <3> QED BY <1>1, <3>1, PlayersCounted
  <2> QED BY <2>1, <2>2
<1>6. \A t : t \in peek_type(cut) <=> t = p.type
  <2>1. \A t \in DOMAIN PacketType : t \in peek_type(cut) <=> t = p.type
    BY <1>4, TypePeeked
  <2>2. peek_type(cut) \subseteq DOMAIN PacketType
    BY DEF peek_type
  <2>3. p.type \in DOMAIN PacketType
    BY PacketFields
  <2> QED BY <2>1, <2>2, <2>3
<1>7. p.type \in Handled[by] => decode(p.type, cut) = {p}
  BY <1>4, <1>5, PacketFields, Decodes DEF Sendable
<1> HIDE DEF cut
<1>8. CASE p.type \in Handled[by]
  <2>1. types = {p.type}
    BY <1>6, <1>8
  <2>2. UNION {decode(t, cut) : t \in types} = {p}
    BY <1>7, <1>8, <2>1
  <2> QED BY <1>8, <2>2 DEF cut
<1>9. CASE p.type \notin Handled[by]
  <2>1. types = {}
    BY <1>6, <1>9
  <2>2. UNION {decode(t, cut) : t \in types} = {}
    BY <2>1
  <2> QED BY <1>9, <2>2 DEF cut
<1> QED BY <1>8, <1>9

\* What a receiver makes of a datagram is the struct that was sent, and it makes
\* nothing of one that is not for it.
THEOREM ReceivedAsSent == WireSpec => RoundTrip
<1> DEFINE A == \A by \in DOMAIN Handled :
                    Receive(by) =>
                        made' = {p \in packet : p.type \in Handled[by]}
<1>1. WireInv /\ [WireNext]_wireVars => [A]_wireVars
  <2> SUFFICES ASSUME WireInv, NEW by \in DOMAIN Handled, Receive(by)
               PROVE  made' = {p \in packet : p.type \in Handled[by]}
    OBVIOUS
  <2>1. PICK p \in Packets : packet = {p} /\ Sendable(p) /\ Encoded(datagram, p)
    BY DEF Receive, WireInv
  <2> DEFINE size == IF Len(datagram) < ReceiveBuffer[by]
                     THEN Len(datagram) ELSE ReceiveBuffer[by]
  <2>2. made' = UNION {decode(t, SubSeq(datagram, 1, size)) :
                           t \in peek_type(SubSeq(datagram, 1, size))
                                     \cap Handled[by]}
    BY DEF Receive
  <2> QED BY <2>1, <2>2, Received
<1>2. WireSpec => [][A]_wireVars
  BY <1>1, WireInvHolds, PTL DEF WireSpec
<1> QED BY <1>2, PTL DEF RoundTrip
=============================================================================
