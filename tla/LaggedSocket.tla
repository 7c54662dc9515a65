---------------------------- MODULE LaggedSocket ----------------------------
(***************************************************************************)
(* The network conditioner around a UDP socket (common/lagged_socket.cpp). *)
(* One priority queue, ordered by due time, holds the datagrams of both    *)
(* directions; a mutex guards it, since on a client the main thread sends  *)
(* while the receiver thread pumps and receives.  On the server one thread *)
(* does all of it, which gives fewer behaviours of the same kind.          *)
(*                                                                         *)
(* Datagrams of each direction are numbered: outbound ones in the order    *)
(* send_to is called, inbound ones in the order the kernel received them.  *)
(* Each critical section is an action.  recv_from is four of them: it      *)
(* takes what the kernel has, datagram by datagram, then flushes and       *)
(* extracts under one hold of the mutex, reading the clock twice.          *)
(***************************************************************************)
EXTENDS Integers, FiniteSetsExt

CONSTANTS
    add_latency_ms_send,    \* LaggedSocketConfig, in units of the clock
    add_latency_ms_recv,
    MaxJitter,              \* bound on jitter_ms
    Lossy,                  \* whether loss_prob > 0
    MaxSends,               \* bound on the calls of send_to
    MaxArrivals,            \* bound on the datagrams the kernel receives
    MaxTime                 \* bound on the clock

ASSUME SocketAssumption ==
    /\ add_latency_ms_send \in Nat
    /\ add_latency_ms_recv \in Nat
    /\ MaxJitter \in Nat
    /\ Lossy \in BOOLEAN
    /\ MaxSends \in Nat
    /\ MaxArrivals \in Nat
    /\ MaxTime \in Nat

VARIABLES
    jitter_ms,  \* as configured before any traffic
    now,        \* the steady clock
    queue,      \* queue_: the datagrams scheduled, both directions
    sent,       \* number of calls of send_to
    sending,    \* the datagram send_to has scheduled and not yet pushed
    wire,       \* the datagrams handed to ::sendto
    arrived,    \* number of datagrams the kernel has received
    taken,      \* number of those taken by ::recvfrom
    receiver,   \* where recv_from is: "idle", "drain", "scheduled", "locked"
    incoming,   \* the datagram recv_from has scheduled and not yet pushed
    delivered   \* the datagrams recv_from has returned

outVars == <<sent, sending, wire>>
inVars == <<taken, incoming, delivered>>
socketVars == <<jitter_ms, now, queue, sent, sending, wire, arrived, taken,
                receiver, incoming, delivered>>

Pending == [number : Nat, deliver_at_us : Int, outbound : BOOLEAN]

SocketInit ==
    /\ jitter_ms \in 0..MaxJitter
    /\ now = 0
    /\ queue = {}
    /\ sent = 0
    /\ sending = {}
    /\ wire = {}
    /\ arrived = 0
    /\ taken = 0
    /\ receiver = "idle"
    /\ incoming = {}
    /\ delivered = {}

-----------------------------------------------------------------------------
Jitters == -jitter_ms..jitter_ms

\* Mutant of total_ms: a delay of less than nothing.
total_ms_unclamped(latency, jitter) == latency + jitter

total_ms(latency, jitter) == Max({0, latency + jitter})

\* The heap pops p before q; entries due at the same time in either order.
PopsBefore(p, q) == p.deliver_at_us <= q.deliver_at_us

Matured(outbound) ==
    {p \in queue : p.outbound = outbound /\ p.deliver_at_us <= now}

\* What flush_outbound_locked may send: it pops entries while the top one
\* is outbound and due, and stops at an inbound one.
Flushes ==
    {some \in SUBSET Matured(TRUE) :
        LET rest == queue \ some
        IN  /\ \A p \in some, q \in rest : PopsBefore(p, q)
            /\ \/ rest = {}
               \/ \E top \in rest \ Matured(TRUE) :
                      \A q \in rest : PopsBefore(top, q)}

\* Mutant of Extracts: the first entry found, whatever its due time.
ExtractsAny == Matured(FALSE)

\* What recv_from may return: the first inbound entry due, in heap order.
Extracts ==
    {p \in Matured(FALSE) : \A q \in Matured(FALSE) : PopsBefore(p, q)}

Unlocked == receiver # "locked"

-----------------------------------------------------------------------------
\* send_to: lost, sent at once when the delay is zero, or scheduled.  The
\* push takes the mutex again, so it is an action of its own.
SendTo(jitter) ==
    /\ Unlocked
    /\ sending = {}
    /\ sent < MaxSends
    /\ sent' = sent + 1
    /\ LET delay == total_ms(add_latency_ms_send, jitter)
           p     == [number |-> sent', deliver_at_us |-> now + delay,
                     outbound |-> TRUE]
       IN  \/ Lossy /\ UNCHANGED <<sending, wire>>
           \/ delay = 0 /\ wire' = wire \cup {p} /\ UNCHANGED sending
           \/ delay # 0 /\ sending' = {p} /\ UNCHANGED wire
    /\ UNCHANGED <<jitter_ms, now, queue, arrived, receiver, inVars>>

SendPush ==
    /\ Unlocked
    /\ sending # {}
    /\ queue' = queue \cup sending
    /\ sending' = {}
    /\ UNCHANGED <<jitter_ms, now, sent, wire, arrived, receiver, inVars>>

\* Mutant of FlushOutbound: an entry sent is not popped.
FlushWithoutPop ==
    \E some \in Flushes :
        /\ wire' = wire \cup some
        /\ queue' = queue

\* flush_outbound_locked.
FlushOutbound ==
    \E some \in Flushes :
        /\ wire' = wire \cup some
        /\ queue' = queue \ some

\* pump, by either thread.
Pump ==
    /\ Unlocked
    /\ FlushOutbound
    /\ UNCHANGED <<jitter_ms, now, sent, sending, arrived, receiver, inVars>>

-----------------------------------------------------------------------------
\* recv_from is called.
RecvStart ==
    /\ receiver = "idle"
    /\ receiver' = "drain"
    /\ UNCHANGED <<jitter_ms, now, queue, outVars, arrived, inVars>>

\* recv_from, drain loop: ::recvfrom returns a datagram; it is lost or
\* scheduled.
RecvTake(jitter) ==
    /\ receiver = "drain"
    /\ taken < arrived
    /\ taken' = taken + 1
    /\ \/ /\ Lossy
          /\ UNCHANGED <<receiver, incoming>>
       \/ /\ incoming' =
                 {[number |-> taken',
                   deliver_at_us |-> now + total_ms(add_latency_ms_recv, jitter),
                   outbound |-> FALSE]}
          /\ receiver' = "scheduled"
    /\ UNCHANGED <<jitter_ms, now, queue, outVars, arrived, delivered>>

\* recv_from, drain loop: what was scheduled is pushed under the mutex.
RecvPush ==
    /\ receiver = "scheduled"
    /\ queue' = queue \cup incoming
    /\ incoming' = {}
    /\ receiver' = "drain"
    /\ UNCHANGED <<jitter_ms, now, outVars, arrived, taken, delivered>>

\* Mutant of RecvFlush: recv_from returns when the kernel has no more.
RecvReturnWhenDrained ==
    /\ receiver = "drain"
    /\ taken = arrived
    /\ receiver' = "idle"
    /\ UNCHANGED <<jitter_ms, now, queue, outVars, arrived, inVars>>

\* recv_from, the kernel has no more: the mutex is taken and what is due
\* outbound is sent.
RecvFlush ==
    /\ receiver = "drain"
    /\ taken = arrived
    /\ FlushOutbound
    /\ receiver' = "locked"
    /\ UNCHANGED <<jitter_ms, now, sent, sending, arrived, inVars>>

\* Mutant of RecvExtract: when nothing is found, the entries popped while
\* searching are not put back.
RecvExtractForgettingHeld ==
    /\ receiver = "locked"
    /\ IF Extracts = {}
       THEN queue' = {} /\ UNCHANGED delivered
       ELSE \E p \in Extracts :
                /\ delivered' = delivered \cup {p}
                /\ queue' = queue \ {p}
    /\ receiver' = "idle"
    /\ UNCHANGED <<jitter_ms, now, outVars, arrived, taken, incoming>>

\* recv_from, still under the mutex, at a later reading of the clock: the
\* first inbound entry due is returned, every other entry is put back.
RecvExtract ==
    /\ receiver = "locked"
    /\ IF Extracts = {}
       THEN UNCHANGED <<queue, delivered>>
       ELSE \E p \in Extracts :
                /\ delivered' = delivered \cup {p}
                /\ queue' = queue \ {p}
    /\ receiver' = "idle"
    /\ UNCHANGED <<jitter_ms, now, outVars, arrived, taken, incoming>>

-----------------------------------------------------------------------------
\* The kernel receives a datagram.
Arrive ==
    /\ arrived < MaxArrivals
    /\ arrived' = arrived + 1
    /\ UNCHANGED <<jitter_ms, now, queue, outVars, receiver, inVars>>

\* Time passes.
Advance ==
    /\ now < MaxTime
    /\ now' = now + 1
    /\ UNCHANGED <<jitter_ms, queue, outVars, arrived, receiver, inVars>>

\* The steps of recv_from once it has been called.
Receiving ==
    \/ \E jitter \in Jitters : RecvTake(jitter)
    \/ RecvPush
    \/ RecvFlush
    \/ RecvExtract

SocketNext ==
    \/ \E jitter \in Jitters : SendTo(jitter)
    \/ SendPush
    \/ Pump
    \/ RecvStart
    \/ Receiving
    \/ Arrive
    \/ Advance

SocketSpec == SocketInit /\ [][SocketNext]_socketVars

\* A send_to under way ends, the owner keeps calling recv_from (the loops of
\* NetworkReceiver::run and of Server::run do), and the clock runs.  Nothing
\* obliges anyone to send.
SocketFairSpec ==
    /\ SocketSpec
    /\ WF_socketVars(SendPush)
    /\ WF_socketVars(RecvStart)
    /\ WF_socketVars(Receiving)
    /\ WF_socketVars(Advance)

-----------------------------------------------------------------------------
\* Every variable keeps its type; nothing is scheduled before the clock's
\* origin.
SocketTypeOK ==
    /\ jitter_ms \in 0..MaxJitter
    /\ now \in 0..MaxTime
    /\ sent \in 0..MaxSends
    /\ arrived \in 0..MaxArrivals
    /\ taken \in 0..arrived
    /\ receiver \in {"idle", "drain", "scheduled", "locked"}
    /\ \A p \in queue \cup sending \cup incoming \cup wire \cup delivered :
           p \in Pending /\ p.deliver_at_us >= 0
    /\ \A p \in sending \cup wire : p.outbound
    /\ \A p \in incoming \cup delivered : ~p.outbound

Numbers(datagrams) == {p.number : p \in datagrams}

Outbound == INSTANCE Channel WITH
    submitted <- sent,
    carried   <- Numbers({p \in queue : p.outbound} \cup sending),
    out       <- Numbers(wire)

Inbound == INSTANCE Channel WITH
    submitted <- taken,
    carried   <- Numbers({p \in queue : ~p.outbound} \cup incoming),
    out       <- Numbers(delivered)

\* Outbound, the socket is a Channel: whatever the two threads do between
\* each other's critical sections, a datagram not lost by the sampled loss
\* reaches the wire at most once and stays queued until it does.
OutboundIsChannel == Outbound!Spec

\* The same inbound: recv_from takes the whole queue apart to find one
\* entry, and no other is lost or returned twice.
InboundIsChannel == Inbound!Spec

\* Nothing leaves the queue before it is due, in either direction, nor after
\* anything of its direction that is due later: delaying by jitter reorders,
\* the queue itself does not.
DueOrderKept ==
    [][\A p \in (wire' \ wire) \cup (delivered' \ delivered) :
           /\ p.deliver_at_us <= now
           /\ \A q \in queue' : p \in queue /\ p.outbound = q.outbound
                  => p.deliver_at_us <= q.deliver_at_us]_socketVars

\* A datagram scheduled to leave leaves: a due inbound datagram on top of
\* the queue, at which the flush stops, does not hold it back for ever.
OutboundLeaves ==
    \A n \in 1..MaxSends :
        (\E p \in queue : p.outbound /\ p.number = n
                          /\ p.deliver_at_us <= MaxTime)
            ~> n \in Numbers(wire)

\* A datagram scheduled inbound is returned by some call of recv_from.
InboundDelivered ==
    \A n \in 1..MaxArrivals :
        (\E p \in queue : ~p.outbound /\ p.number = n
                          /\ p.deliver_at_us <= MaxTime)
            ~> n \in Numbers(delivered)
=============================================================================
