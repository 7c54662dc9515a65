--------------------------- MODULE Serialization ---------------------------
(***************************************************************************)
(* The wire format of the UDP game (common/serialization.cpp): the structs *)
(* of common/protocol.hpp, the datagrams they are encoded to, and what the *)
(* three receivers make of a datagram.  Each packet has a layout that its  *)
(* encoder writes and, given apart, one that its decoder reads.            *)
(*                                                                         *)
(* A byte has Base values, 256 in the code, so that u32 stays within TLC's *)
(* integers.  A float is its bit pattern, which is all that is done to it. *)
(***************************************************************************)
EXTENDS SequencesExt, Integers, Maps

CONSTANTS
    Base,               \* values of a byte
    MAX_PLAYERS,        \* common/constants.hpp:24
    MAX_PACKET_BYTES,   \* common/constants.hpp:26
    Shorts, Longs, Moves,   \* the u16, the u32 and f32, the i8 sent
    States                  \* the PlayerStates sent

PacketType ==
    [JOIN_REQUEST |-> 1, JOIN_ACCEPT |-> 2, INPUT_COMMAND |-> 3,
     WORLD_SNAPSHOT |-> 4, DISCONNECT_NOTICE |-> 5]

Width == [u8 |-> 1, u16 |-> 2, u32 |-> 4, i8 |-> 1, f32 |-> 4]

\* The powers of Base.
Power[k \in 0..4] == IF k = 0 THEN 1 ELSE Base * Power[k - 1]

\* The numbers of each kind.
Scalars ==
    [kind \in DOMAIN Width |->
        IF kind = "i8" THEN -(Base \div 2)..Base \div 2 - 1
        ELSE 0..Power[Width[kind]] - 1]

MAX_SNAPSHOT_BYTES == 1 + 4 + 2 + MAX_PLAYERS * (2 + 4 + 4 + 4 + 4 + 4)

ASSUME SerializationAssumption ==
    /\ Base \in Nat /\ Base > 5 /\ Base % 2 = 0
    /\ MAX_PLAYERS \in Scalars["u16"] \ {0}
    /\ MAX_PACKET_BYTES \in Nat /\ MAX_PACKET_BYTES >= MAX_SNAPSHOT_BYTES
    /\ Shorts \subseteq Scalars["u16"]
    /\ Longs \subseteq Scalars["u32"]
    /\ Moves \subseteq Scalars["i8"]
    /\ States \subseteq
           [id : Scalars["u16"], x : Scalars["f32"], y : Scalars["f32"],
            vx : Scalars["f32"], vy : Scalars["f32"],
            last_processed_input_seq : Scalars["u32"]]

\* The structs that may be sent, and snapshots of a player too many.
Packets ==
    [type : {"JOIN_REQUEST"}, client_version : Shorts]
    \cup [type : {"JOIN_ACCEPT"}, player_id : Shorts,
          arena_w : Longs, arena_h : Longs]
    \cup [type : {"INPUT_COMMAND"}, player_id : Shorts, seq : Longs,
          mx : Moves, my : Moves]
    \cup [type : {"WORLD_SNAPSHOT"}, server_tick : Longs,
          players : BoundedSeq(States, MAX_PLAYERS + 1)]
    \cup [type : {"DISCONNECT_NOTICE"}, player_id : Shorts]

VARIABLES
    packet,     \* the struct encoded last, in a set, if there is one
    datagram,   \* its bytes, while they are on their way
    made        \* the struct the receiver made of them, if it made one

wireVars == <<packet, datagram, made>>

-----------------------------------------------------------------------------
\* htons, htonl, and the casts to unsigned of an i8 and of a size.
BigEndian(v, n) == [i \in 1..n |-> (v \div Power[n - i]) % Base]

\* Mutant of put: room for a byte less.
put_strictly(w, kind, v) ==
    IF w.ok /\ Len(w.data) + Width[kind] < w.cap
    THEN [w EXCEPT !.data = @ \o BigEndian(v, Width[kind])]
    ELSE [w EXCEPT !.ok = FALSE]

\* BufferWriter: nothing is written once something did not fit.
put(w, kind, v) ==
    IF w.ok /\ Len(w.data) + Width[kind] <= w.cap
    THEN [w EXCEPT !.data = @ \o BigEndian(v, Width[kind])]
    ELSE [w EXCEPT !.ok = FALSE]

WriteAll(w, layout, struct) ==
    LET after[i \in 0..Len(layout)] ==
            IF i = 0 THEN w
            ELSE put(after[i - 1], layout[i][2], struct[layout[i][1]])
    IN  after[Len(layout)]

\* encode_*: what is written after the type, in order.
Written ==
    [JOIN_REQUEST      |-> << <<"client_version", "u16">> >>,
     JOIN_ACCEPT       |-> << <<"player_id", "u16">>, <<"arena_w", "f32">>,
                              <<"arena_h", "f32">> >>,
     INPUT_COMMAND     |-> << <<"player_id", "u16">>, <<"seq", "u32">>,
                              <<"mx", "i8">>, <<"my", "i8">> >>,
     WORLD_SNAPSHOT    |-> << <<"server_tick", "u32">> >>,
     DISCONNECT_NOTICE |-> << <<"player_id", "u16">> >>]

StateWritten ==
    << <<"id", "u16">>, <<"x", "f32">>, <<"y", "f32">>, <<"vx", "f32">>,
       <<"vy", "f32">>, <<"last_processed_input_seq", "u32">> >>

WriteStates(w, players) ==
    LET after[i \in 0..Len(players)] ==
            IF i = 0 THEN w
            ELSE WriteAll(after[i - 1], StateWritten, players[i])
    IN  after[Len(players)]

\* The bytes, or none when they do not fit.
encode(p, cap) ==
    LET tag  == put([data |-> <<>>, cap |-> cap, ok |-> TRUE],
                    "u8", PacketType[p.type])
        head == WriteAll(tag, Written[p.type], p)
        all  == IF p.type # "WORLD_SNAPSHOT" THEN head
                ELSE WriteStates(put(head, "u16", Len(p.players)), p.players)
    IN  IF all.ok THEN all.data ELSE <<>>

-----------------------------------------------------------------------------
Unsigned(bytes) ==
    LET after[i \in 0..Len(bytes)] ==
            IF i = 0 THEN 0 ELSE after[i - 1] * Base + bytes[i]
    IN  after[Len(bytes)]

\* Mutant of Value: an i8 is taken for the u8 it was cast to.
ValueUnsigned(kind, bytes) == Unsigned(bytes)

\* ntohs, ntohl, and the cast back to an i8.
Value(kind, bytes) ==
    LET v == Unsigned(bytes)
    IN  IF kind = "i8" /\ v >= Base \div 2 THEN v - Base ELSE v

\* Mutant of get: what lies behind the end counts as zeros.
get_unchecked(r, name, kind) ==
    LET bytes == [i \in 1..Width[kind] |->
                     IF r.pos + i <= Len(r.data) THEN r.data[r.pos + i]
                     ELSE 0]
    IN  [r EXCEPT !.pos = @ + Width[kind],
                  !.struct = Put(@, name, Value(kind, bytes))]

\* BufferReader, filling the field of a struct.
get(r, name, kind) ==
    LET end == r.pos + Width[kind]
    IN  IF r.ok /\ end <= Len(r.data)
        THEN [r EXCEPT !.pos = end,
                       !.struct = Put(@, name, Value(kind,
                                      SubSeq(r.data, r.pos + 1, end)))]
        ELSE [r EXCEPT !.ok = FALSE]

ReadAll(r, layout) ==
    LET after[i \in 0..Len(layout)] ==
            IF i = 0 THEN r
            ELSE get(after[i - 1], layout[i][1], layout[i][2])
    IN  after[Len(layout)]

\* decode_*: what is read after the type, in order.
Read ==
    [JOIN_REQUEST      |-> << <<"client_version", "u16">> >>,
     JOIN_ACCEPT       |-> << <<"player_id", "u16">>, <<"arena_w", "f32">>,
                              <<"arena_h", "f32">> >>,
     INPUT_COMMAND     |-> << <<"player_id", "u16">>, <<"seq", "u32">>,
                              <<"mx", "i8">>, <<"my", "i8">> >>,
     WORLD_SNAPSHOT    |-> << <<"server_tick", "u32">> >>,
     DISCONNECT_NOTICE |-> << <<"player_id", "u16">> >>]

StateRead ==
    << <<"id", "u16">>, <<"x", "f32">>, <<"y", "f32">>, <<"vx", "f32">>,
       <<"vy", "f32">>, <<"last_processed_input_seq", "u32">> >>

\* The reader after n PlayerStates, which are collected.
ReadStates(r, n) ==
    LET after[i \in 0..n] ==
            IF i = 0 THEN r
            ELSE ReadAll([after[i - 1] EXCEPT !.struct = NoEntries], StateRead)
    IN  [after[n] EXCEPT !.struct =
             Put(r.struct, "players", [i \in 1..n |-> after[i].struct])]

\* peek_type: the type a datagram claims.
peek_type(data) ==
    {t \in DOMAIN PacketType : data # <<>> /\ data[1] = PacketType[t]}

\* The struct, or none.
decode(t, data) ==
    LET start == [data |-> data, pos |-> 1, ok |-> TRUE,
                  struct |-> [type |-> t]]
        head  == ReadAll(start, Read[t])
        count == get([head EXCEPT !.struct = NoEntries], "n", "u16")
    IN  IF t \notin peek_type(data) \/ ~head.ok THEN {}
        ELSE IF t # "WORLD_SNAPSHOT" THEN {head.struct}
        ELSE IF ~count.ok \/ count.struct["n"] > MAX_PLAYERS THEN {}
        ELSE LET all == ReadStates([count EXCEPT !.struct = head.struct],
                                   count.struct["n"])
             IN  IF all.ok THEN {all.struct} ELSE {}

-----------------------------------------------------------------------------
\* The buffer each sender encodes into.
SendBuffer ==
    [JOIN_REQUEST |-> 8, JOIN_ACCEPT |-> 32, INPUT_COMMAND |-> 32,
     WORLD_SNAPSHOT |-> MAX_SNAPSHOT_BYTES, DISCONNECT_NOTICE |-> 8]

\* The buffer each receiver has, and the types it decodes.
ReceiveBuffer ==
    [server |-> MAX_PACKET_BYTES, joining |-> 64, receiver |-> MAX_PACKET_BYTES]

Handled ==
    [server   |-> {"JOIN_REQUEST", "INPUT_COMMAND", "DISCONNECT_NOTICE"},
     joining  |-> {"JOIN_ACCEPT"},
     receiver |-> {"WORLD_SNAPSHOT"}]

WireInit == packet = {} /\ datagram = <<>> /\ made = {}

\* A packet is encoded and, unless that fails, sent.
Send(p) ==
    /\ datagram = <<>>
    /\ packet' = {p}
    /\ datagram' = encode(p, SendBuffer[p.type])
    /\ made' = {}

\* recv_from copies what the buffer has room for; what is not of a type the
\* receiver handles, or cannot be decoded, is dropped.
Receive(by) ==
    /\ datagram # <<>>
    /\ LET size == IF Len(datagram) < ReceiveBuffer[by]
                   THEN Len(datagram) ELSE ReceiveBuffer[by]
           data == SubSeq(datagram, 1, size)
       IN  made' = UNION {decode(t, data) :
                              t \in peek_type(data) \cap Handled[by]}
    /\ datagram' = <<>>
    /\ UNCHANGED packet

WireNext ==
    \/ \E p \in Packets : Send(p)
    \/ \E by \in DOMAIN Handled : Receive(by)

WireSpec == WireInit /\ [][WireNext]_wireVars

-----------------------------------------------------------------------------
\* What a receiver makes of a datagram is what was sent: negative directions,
\* the largest numbers and full snapshots included.  A receiver that the
\* datagram is not for makes nothing of it.
RoundTrip ==
    [][\A by \in DOMAIN Handled :
           Receive(by) => made' = {p \in packet : p.type \in Handled[by]}]_wireVars

\* A truncated datagram is refused by every decoder, wherever it was cut
\* (common/selftest.cpp:80): no receiver acts on part of a packet.
TruncatedFails ==
    \A size \in 0..Len(datagram) - 1, t \in DOMAIN PacketType :
        decode(t, SubSeq(datagram, 1, size)) = {}

\* A packet fits its sender's buffer, and a snapshot does so up to the number
\* of players that the decoder accepts and no further.
FitsOrRefused ==
    [][datagram = <<>> =>
           \A p \in packet' :
               datagram' = <<>> <=>
                   p.type = "WORLD_SNAPSHOT" /\ Len(p.players) > MAX_PLAYERS
      ]_wireVars
=============================================================================
