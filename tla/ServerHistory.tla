--------------------------- MODULE ServerHistory ---------------------------
(***************************************************************************)
(* Server with two history variables, which record who has said what to    *)
(* the server apart from what its handlers made of it.  An endpoint speaks *)
(* for itself when it sends a datagram that names its own id.  The         *)
(* variables are read by properties only.                                  *)
(***************************************************************************)
EXTENDS Server

\* In the code 2^32: a tick changes the tick number.
ASSUME HistoryAssumption == TickModulus > 1

VARIABLES
    resigned,   \* who has, in the last step, sent a notice for itself
    silence     \* seated endpoint -> time since it has spoken for itself

historyVars == <<serverVars, resigned, silence>>

HistoryInit ==
    /\ Init
    /\ resigned = {}
    /\ silence = NoEntries

\* Who speaks for itself in a datagram from e: e, when it is seated and the
\* id it names is its own; otherwise nobody.
Speaker(e, player_id) ==
    {x \in DOMAIN sessions : x = e /\ sessions[x].player_id = player_id}

\* The silence of those seated after a step in which `speakers` broke it.
Broken(speakers) ==
    [e \in DOMAIN sessions' |->
        IF e \in speakers \/ e \notin DOMAIN silence THEN 0 ELSE silence[e]]

-----------------------------------------------------------------------------
\* A JOIN_REQUEST names no id: whoever sends it speaks for itself.
HearsJoinRequest(e) ==
    /\ JoinRequest(e) \/ JoinRequestWhenFull(e)
    /\ resigned' = {}
    /\ silence' = Broken({e})

HearsInput(e, player_id, seq, mx, my) ==
    /\ InputCommand(e, player_id, seq, mx, my)
    /\ resigned' = {}
    /\ silence' = Broken(Speaker(e, player_id))

HearsNotice(e, player_id) ==
    /\ DisconnectNotice(e, player_id)
    /\ resigned' = Speaker(e, player_id)
    /\ silence' = Broken({})

HearsNothing ==
    /\ TickAndMaybeBroadcast
    /\ resigned' = {}
    /\ silence' = Broken({})

\* Silence, like idle time, is told apart up to one past the time-out only.
SilenceGrows ==
    /\ Elapse
    /\ resigned' = {}
    /\ silence' = [e \in DOMAIN silence |->
                      IF silence[e] > CLIENT_TIMEOUT THEN silence[e]
                      ELSE silence[e] + 1]

HistoryNext ==
    \/ \E e \in Endpoints :
           \/ HearsJoinRequest(e)
           \/ \E id \in PlayerIds, seq \in Seqs, m \in MoveInputs :
                  HearsInput(e, id, seq, m[1], m[2])
           \/ \E id \in PlayerIds : HearsNotice(e, id)
    \/ HearsNothing
    \/ SilenceGrows

HistorySpec == HistoryInit /\ [][HistoryNext]_historyVars

-----------------------------------------------------------------------------
\* An endpoint is unseated for one of two causes, and then always: it has
\* just sent a DISCONNECT_NOTICE with its own id (server.cpp:113), or a tick
\* finds that more than CLIENT_TIMEOUT has passed since the server handled
\* anything it said for itself (server.cpp:131).  Nobody else can unseat it,
\* not even with a notice that names its id, such as the late one of whoever
\* had the id before; and nobody else can keep it seated.
LeavesForCause ==
    [][\A e \in DOMAIN sessions :
           e \notin DOMAIN sessions' <=>
               \/ e \in resigned'
               \/ tick' # tick /\ silence[e] > CLIENT_TIMEOUT]_historyVars
=============================================================================
