---------------------------- MODULE ServerProofs ----------------------------
(***************************************************************************)
(* The server keeps its types and its three tables consistent, for any     *)
(* number of endpoints, seats, sequence numbers and arena size, whatever   *)
(* datagrams arrive.                                                       *)
(*                                                                         *)
(* Neither IndexesAgree nor WorldMatchesSessions is inductive alone: that  *)
(* the world follows the table at a disconnect needs the indexes to agree, *)
(* or the id of the session removed could be that of another player.       *)
(***************************************************************************)
EXTENDS ServerHistory, WorldProofs, FiniteSetTheorems

\* The session table: each operation keeps its type and keeps its two indexes
\* inverse to each other.
TableOK == SessionTypeOK /\ IndexesAgree

\* An empty table is consistent.
LEMMA SessionInitOK == SessionInit => TableOK
BY DEF SessionInit, NoEntries, TableOK, SessionTypeOK, IndexesAgree

\* In a consistent table, the ids of the sessions are the ids taken.
LEMMA SeatedIds ==
    ASSUME IndexesAgree
    PROVE  DOMAIN id_to_endpoint = {sessions[e].player_id : e \in DOMAIN sessions}
BY DEF IndexesAgree

\* Restarting the idle time of a session keeps the table consistent.
LEMMA RefreshOK ==
    ASSUME TableOK, NEW e \in DOMAIN sessions,
           sessions' = Refreshed(e), UNCHANGED id_to_endpoint
    PROVE  TableOK'
<1>1. Refreshed(e) \in [DOMAIN sessions -> Session]
  BY SessionAssumption DEF TableOK, SessionTypeOK, Refreshed, Session
<1>2. \A other \in DOMAIN sessions :
          Refreshed(e)[other].player_id = sessions[other].player_id
  BY DEF TableOK, SessionTypeOK, Refreshed, Session
<1>3. DOMAIN sessions' = DOMAIN sessions
  BY DEF Refreshed
<1>4. SessionTypeOK'
  BY <1>1, <1>3 DEF TableOK, SessionTypeOK
<1>5. IndexesAgree'
  BY <1>2, <1>3 DEF TableOK, IndexesAgree
<1> QED BY <1>4, <1>5 DEF TableOK

\* Seating an endpoint that has no seat at an id that is free keeps the
\* table consistent.
LEMMA RegisterOK ==
    ASSUME TableOK, NEW e \in Endpoints, NEW id, Register(e, id)
    PROVE  /\ TableOK'
           /\ DOMAIN id_to_endpoint' = DOMAIN id_to_endpoint \cup {id}
           /\ e \in DOMAIN sessions'
           /\ sessions'[e].player_id = id
<1> DEFINE new == [player_id |-> id, idle |-> 0]
<1>1. /\ id \in PlayerIds \ DOMAIN id_to_endpoint
      /\ e \notin DOMAIN sessions
  BY DEF Register, next_free_id
<1>2. new \in Session
  BY <1>1, SessionAssumption DEF Session
<1>3. /\ sessions' = Put(sessions, e, new)
      /\ id_to_endpoint' = Put(id_to_endpoint, id, e)
  BY DEF Register
<1> HIDE DEF new
<1>4. /\ sessions' \in [DOMAIN sessions \cup {e} -> Session]
      /\ sessions'[e] = new
      /\ \A other \in DOMAIN sessions : sessions'[other] = sessions[other]
  BY <1>1, <1>2, <1>3 DEF Put, TableOK, SessionTypeOK
<1>5. /\ id_to_endpoint' \in [DOMAIN id_to_endpoint \cup {id} -> Endpoints]
      /\ id_to_endpoint'[id] = e
      /\ \A i \in DOMAIN id_to_endpoint :
             id_to_endpoint'[i] = id_to_endpoint[i]
  BY <1>1, <1>3 DEF Put, TableOK, SessionTypeOK
<1>6. new.player_id = id
  BY DEF new
<1>7. SessionTypeOK'
  BY <1>1, <1>4, <1>5 DEF TableOK, SessionTypeOK
<1>8. IndexesAgree'
  BY <1>1, <1>4, <1>5, <1>6 DEF TableOK, IndexesAgree
<1> QED BY <1>4, <1>5, <1>6, <1>7, <1>8 DEF TableOK

\* Removing sessions together with the ids they hold keeps the table
\* consistent, whichever sessions they are.
LEMMA RemoveOK ==
    ASSUME TableOK, NEW gone \in SUBSET DOMAIN sessions,
           sessions' = Erase(sessions, gone),
           id_to_endpoint' =
               Erase(id_to_endpoint, {sessions[e].player_id : e \in gone})
    PROVE  TableOK'
<1>1. /\ DOMAIN sessions' = DOMAIN sessions \ gone
      /\ \A e \in DOMAIN sessions' : sessions'[e] = sessions[e]
      /\ sessions' \in [DOMAIN sessions' -> Session]
  BY DEF Erase, Restrict, TableOK, SessionTypeOK
<1>2. /\ DOMAIN id_to_endpoint' =
             DOMAIN id_to_endpoint \ {sessions[e].player_id : e \in gone}
      /\ \A id \in DOMAIN id_to_endpoint' :
             id_to_endpoint'[id] = id_to_endpoint[id]
      /\ id_to_endpoint' \in [DOMAIN id_to_endpoint' -> Endpoints]
  BY DEF Erase, Restrict, TableOK, SessionTypeOK
<1>3. SessionTypeOK'
  BY <1>1, <1>2 DEF TableOK, SessionTypeOK
<1>4. ASSUME NEW e \in DOMAIN sessions'
      PROVE  /\ sessions'[e].player_id \in DOMAIN id_to_endpoint'
             /\ id_to_endpoint'[sessions'[e].player_id] = e
  <2>1. \A other \in gone : sessions[other].player_id # sessions[e].player_id
    BY <1>1 DEF TableOK, IndexesAgree
  <2> QED BY <1>1, <1>2, <2>1 DEF TableOK, IndexesAgree
<1>5. ASSUME NEW id \in DOMAIN id_to_endpoint'
      PROVE  /\ id_to_endpoint'[id] \in DOMAIN sessions'
             /\ sessions'[id_to_endpoint'[id]].player_id = id
  <2>1. id_to_endpoint[id] \notin gone
    BY <1>2 DEF TableOK, IndexesAgree
  <2> QED BY <1>1, <1>2, <2>1 DEF TableOK, IndexesAgree
<1> QED BY <1>3, <1>4, <1>5 DEF TableOK, IndexesAgree

\* The reaper keeps the table consistent.
LEMMA ReapTimeoutsOK ==
    ASSUME TableOK, ReapTimeouts
    PROVE  /\ TableOK'
           /\ DOMAIN id_to_endpoint' = DOMAIN id_to_endpoint \ ReapedIds
<1>1. TableOK'
  BY RemoveOK, timed_out \in SUBSET DOMAIN sessions
     DEF ReapTimeouts, ReapedIds, timed_out
<1> QED BY <1>1 DEF ReapTimeouts, Erase, Restrict

\* An explicit disconnect keeps the table consistent.
LEMMA RemoveByEndpointOK ==
    ASSUME TableOK, NEW e, RemoveByEndpoint(e)
    PROVE  /\ TableOK'
           /\ DOMAIN id_to_endpoint' =
                  DOMAIN id_to_endpoint \ {sessions[e].player_id}
<1>1. {sessions[x].player_id : x \in {e}} = {sessions[e].player_id}
  OBVIOUS
<1>2. {e} \in SUBSET DOMAIN sessions
  BY DEF RemoveByEndpoint
<1>3. TableOK'
  BY <1>1, <1>2, RemoveOK DEF RemoveByEndpoint
<1> QED BY <1>3 DEF RemoveByEndpoint, Erase, Restrict

\* The passing of time keeps the table consistent.
LEMMA AgeOK ==
    ASSUME TableOK, Age
    PROVE  TableOK'
<1>1. /\ DOMAIN sessions' = DOMAIN sessions
      /\ \A e \in DOMAIN sessions :
             /\ sessions'[e] \in Session
             /\ sessions'[e].player_id = sessions[e].player_id
  BY SessionAssumption DEF Age, TableOK, SessionTypeOK, Session
<1>2. sessions' \in [DOMAIN sessions' -> Session]
  BY <1>1 DEF Age
<1>3. SessionTypeOK'
  BY <1>1, <1>2 DEF TableOK, SessionTypeOK, Age
<1>4. IndexesAgree'
  BY <1>1 DEF TableOK, IndexesAgree, Age
<1> QED BY <1>3, <1>4 DEF TableOK

-----------------------------------------------------------------------------
\* The players have their types and are exactly the ids taken: together
\* with IndexesAgree this is WorldMatchesSessions, without the sessions.
PlayersOK ==
    /\ players \in [DOMAIN players -> Player]
    /\ DOMAIN players = DOMAIN id_to_endpoint
    /\ tick \in Ticks

\* The last part of TypeOK.
SentTyped ==
    \A d \in sent :
        \/ \E e \in Endpoints, id \in PlayerIds : d = JoinAccept(e, id)
        \/ \E e \in Endpoints, t \in Ticks :
               /\ d = WorldSnapshot(e, t, d.players)
               /\ DOMAIN d.players \subseteq PlayerIds
               /\ d.players \in [DOMAIN d.players -> PlayerState]

\* The inductive invariant.
ServerInv == TableOK /\ PlayersOK /\ SentTyped

\* The inductive invariant holds initially.
LEMMA ServerInvInit == Init => ServerInv
<1> SUFFICES ASSUME Init PROVE ServerInv
  OBVIOUS
<1>1. TableOK
  BY SessionInitOK DEF Init
<1>2. PlayersOK
  BY ServerAssumption DEF Init, SessionInit, NoEntries, PlayersOK, Ticks
<1>3. SentTyped
  BY DEF Init, SentTyped
<1> QED BY <1>1, <1>2, <1>3 DEF ServerInv

\* A join keeps the invariant: the id answered is the one of the session.
LEMMA JoinRequestOK ==
    ASSUME ServerInv, NEW e \in Endpoints, JoinRequest(e)
    PROVE  ServerInv'
<1> DEFINE id == sessions'[e].player_id
<1>0. TableOK /\ PlayersOK
  BY DEF ServerInv
<1>1. /\ TableOK'
      /\ e \in DOMAIN sessions'
      /\ DOMAIN id_to_endpoint' = DOMAIN id_to_endpoint \cup {id}
  <2>1. CASE GetSession(e)
    <3>1. TableOK'
      BY <1>0, <2>1, RefreshOK DEF GetSession
    <3>2. e \in DOMAIN sessions'
      BY <2>1 DEF GetSession, Refreshed
    <3>3. id \in DOMAIN id_to_endpoint'
      BY <3>1, <3>2 DEF TableOK, IndexesAgree
    <3> QED BY <2>1, <3>1, <3>2, <3>3 DEF GetSession
  <2>2. CASE \E new \in next_free_id : Register(e, new)
    <3>1. PICK new \in next_free_id : Register(e, new)
      BY <2>2
    <3> QED BY <1>0, <3>1, RegisterOK
  <2> QED BY <2>1, <2>2 DEF JoinRequest
<1>2. id \in PlayerIds
  BY <1>1 DEF TableOK, SessionTypeOK, Session
<1>3. PlayersOK'
  <2>1. players' = add_player(players, id)
    BY DEF JoinRequest
  <2>2. players' \in [DOMAIN players \cup {id} -> Player]
    BY <1>0, <2>1, AddPlayer DEF PlayersOK
  <2> QED BY <1>0, <1>1, <2>2 DEF PlayersOK, JoinRequest
<1>4. SentTyped'
  BY <1>2 DEF JoinRequest, SentTyped
<1> QED BY <1>1, <1>3, <1>4 DEF ServerInv

\* An input keeps the invariant, whoever sent it and whatever it claims.
LEMMA InputCommandOK ==
    ASSUME ServerInv, NEW e, NEW id, NEW seq \in Seqs,
           NEW mx \in Int, NEW my \in Int, InputCommand(e, id, seq, mx, my)
    PROVE  ServerInv'
<1>0. TableOK /\ PlayersOK
  BY DEF ServerInv
<1>1. SentTyped'
  BY DEF InputCommand, SentTyped
<1>2. CASE verify_input(e, id)
  <2>1. TableOK' /\ UNCHANGED id_to_endpoint
    BY <1>0, <1>2, RefreshOK DEF InputCommand, Touch, verify_input
  <2>2. players' \in [DOMAIN players -> Player]
    BY <1>0, <1>2, ApplyInputType DEF InputCommand, PlayersOK
  <2>3. PlayersOK'
    BY <1>0, <2>1, <2>2 DEF PlayersOK, InputCommand
  <2> QED BY <1>1, <2>1, <2>3 DEF ServerInv
<1>3. CASE ~verify_input(e, id)
  BY <1>0, <1>1, <1>3
     DEF ServerInv, InputCommand, TableOK, SessionTypeOK, IndexesAgree, PlayersOK
<1> QED BY <1>2, <1>3

\* A disconnect keeps the invariant: table and world lose the same id.
LEMMA DisconnectNoticeOK ==
    ASSUME ServerInv, NEW e, NEW id, DisconnectNotice(e, id)
    PROVE  ServerInv'
<1>0. TableOK /\ PlayersOK
  BY DEF ServerInv
<1>1. SentTyped'
  BY DEF DisconnectNotice, SentTyped
<1>2. CASE e \in DOMAIN sessions /\ sessions[e].player_id = id
  <2>1. /\ TableOK'
        /\ DOMAIN id_to_endpoint' = DOMAIN id_to_endpoint \ {id}
    BY <1>0, <1>2, RemoveByEndpointOK DEF DisconnectNotice
  <2>2. remove_player(players, {id}) \in [DOMAIN players \ {id} -> Player]
    BY <1>0, RemovePlayer DEF PlayersOK
  <2>3. PlayersOK'
    BY <1>0, <1>2, <2>1, <2>2 DEF PlayersOK, DisconnectNotice
  <2> QED BY <1>1, <2>1, <2>3 DEF ServerInv
<1>3. CASE ~(e \in DOMAIN sessions /\ sessions[e].player_id = id)
  BY <1>0, <1>1, <1>3
     DEF ServerInv, DisconnectNotice, TableOK, SessionTypeOK, IndexesAgree, PlayersOK
<1> QED BY <1>2, <1>3

\* A tick keeps the invariant: the reaper takes from the world the players
\* whose sessions it takes from the table.
LEMMA TickOK ==
    ASSUME ServerInv, TickAndMaybeBroadcast
    PROVE  ServerInv'
<1>0. TableOK /\ PlayersOK
  BY DEF ServerInv
<1>1. /\ TableOK'
      /\ DOMAIN id_to_endpoint' = DOMAIN id_to_endpoint \ ReapedIds
  BY <1>0, ReapTimeoutsOK DEF TickAndMaybeBroadcast
<1>2. players' \in [DOMAIN players \ ReapedIds -> Player]
  <2>1. remove_player(players, ReapedIds)
            \in [DOMAIN players \ ReapedIds -> Player]
    BY <1>0, RemovePlayer DEF PlayersOK
  <2> QED BY <2>1, StepTick DEF TickAndMaybeBroadcast
<1>3. tick' \in Ticks
  BY <1>0, ServerAssumption DEF TickAndMaybeBroadcast, PlayersOK, Ticks
<1>4. PlayersOK'
  BY <1>0, <1>1, <1>2, <1>3 DEF PlayersOK
<1>5. SentTyped'
  <2> DEFINE states == collect_player_states(players')
  <2>1. states \in [DOMAIN players' -> PlayerState]
    BY <1>2, CollectStates
  <2>2. DOMAIN states \subseteq PlayerIds
    BY <1>1, <1>4, <2>1 DEF PlayersOK, TableOK, SessionTypeOK
  <2>3. DOMAIN sessions' \subseteq Endpoints
    BY <1>1 DEF TableOK, SessionTypeOK
  <2> HIDE DEF states
  <2>4. \A d \in Broadcast(tick', states) :
            \E to \in Endpoints : d = WorldSnapshot(to, tick', states)
    BY <2>3 DEF Broadcast
  <2>5. \A to : WorldSnapshot(to, tick', states).players = states
    BY DEF WorldSnapshot
  <2>6. sent' \subseteq Broadcast(tick', states)
    BY DEF TickAndMaybeBroadcast, states
  <2> QED BY <1>3, <2>1, <2>2, <2>4, <2>5, <2>6 DEF SentTyped
<1> QED BY <1>1, <1>4, <1>5 DEF ServerInv

\* Every step of the server keeps the inductive invariant.
LEMMA ServerInvNext == ServerInv /\ [Next]_serverVars => ServerInv'
<1> SUFFICES ASSUME ServerInv, [Next]_serverVars PROVE ServerInv'
  OBVIOUS
<1>0. TableOK /\ PlayersOK
  BY DEF ServerInv
<1>1. ASSUME NEW e \in Endpoints, JoinRequest(e)
      PROVE  ServerInv'
  BY <1>1, JoinRequestOK
<1>2. ASSUME NEW e \in Endpoints, JoinRequestWhenFull(e)
      PROVE  ServerInv'
  <2>1. SentTyped'
    BY <1>2 DEF JoinRequestWhenFull, SentTyped
  <2> QED BY <1>0, <1>2, <2>1
          DEF ServerInv, JoinRequestWhenFull, Refuse, sessionVars, TableOK, SessionTypeOK,
              IndexesAgree, PlayersOK
<1>3. ASSUME NEW e \in Endpoints, NEW id \in PlayerIds, NEW seq \in Seqs,
             NEW m \in MoveInputs, InputCommand(e, id, seq, m[1], m[2])
      PROVE  ServerInv'
  <2>1. m[1] \in Int /\ m[2] \in Int
    BY ServerAssumption
  <2> QED BY <1>3, <2>1, InputCommandOK
<1>4. ASSUME NEW e \in Endpoints, NEW id \in PlayerIds, DisconnectNotice(e, id)
      PROVE  ServerInv'
  BY <1>4, DisconnectNoticeOK
<1>5. CASE TickAndMaybeBroadcast
  BY <1>5, TickOK
<1>6. CASE Elapse
  <2>1. SentTyped'
    BY <1>6 DEF Elapse, SentTyped
  <2>2. TableOK'
    BY <1>0, <1>6, AgeOK DEF Elapse
  <2> QED BY <1>0, <1>6, <2>1, <2>2
          DEF ServerInv, Elapse, Age, PlayersOK
<1>7. CASE UNCHANGED serverVars
  BY <1>7 DEF serverVars, ServerInv, TableOK, SessionTypeOK, IndexesAgree,
              PlayersOK, SentTyped
<1> QED BY <1>1, <1>2, <1>3, <1>4, <1>5, <1>6, <1>7 DEF Next, Inbound

\* The server always satisfies its inductive invariant.
THEOREM ServerInvariant == Spec => []ServerInv
<1>1. Init => ServerInv
  BY ServerInvInit
<1>2. ServerInv /\ [Next]_serverVars => ServerInv'
  BY ServerInvNext
<1> QED BY <1>1, <1>2, PTL DEF Spec

\* Every variable keeps its type: positions never leave the arena, ids stay
\* among the seats, directions among {-1, 0, 1}.
THEOREM TypeCorrect == Spec => []TypeOK
<1>1. ServerInv => TypeOK
  BY DEF ServerInv, TableOK, PlayersOK, SentTyped, SessionTypeOK, TypeOK
<1> QED BY <1>1, ServerInvariant, PTL

\* The two indexes of the session table never come apart.
THEOREM TableConsistent == Spec => []IndexesAgree
<1>1. ServerInv => IndexesAgree
  BY DEF ServerInv, TableOK
<1> QED BY <1>1, ServerInvariant, PTL

\* The world simulates exactly the seated players.
THEOREM WorldConsistent == Spec => []WorldMatchesSessions
<1>1. ServerInv => WorldMatchesSessions
  BY SeatedIds DEF ServerInv, TableOK, PlayersOK, WorldMatchesSessions
<1> QED BY <1>1, ServerInvariant, PTL

-----------------------------------------------------------------------------
\* Each step does one of five things to the session table.
LEMMA SessionStep ==
    ASSUME [Next]_serverVars
    PROVE  \/ UNCHANGED sessionVars
           \/ Age
           \/ \E e \in DOMAIN sessions :
                  sessions' = Refreshed(e) /\ UNCHANGED id_to_endpoint
           \/ \E e \in Endpoints, id \in next_free_id : Register(e, id)
           \/ \E gone \in SUBSET DOMAIN sessions :
                  /\ sessions' = Erase(sessions, gone)
                  /\ id_to_endpoint' =
                         Erase(id_to_endpoint,
                               {sessions[e].player_id : e \in gone})
<1>1. ASSUME NEW e \in Endpoints, JoinRequest(e)
      PROVE  \/ \E x \in DOMAIN sessions :
                    sessions' = Refreshed(x) /\ UNCHANGED id_to_endpoint
             \/ \E x \in Endpoints, id \in next_free_id : Register(x, id)
  BY <1>1 DEF JoinRequest, GetSession
<1>2. ASSUME NEW e, JoinRequestWhenFull(e)
      PROVE  UNCHANGED sessionVars
  BY <1>2 DEF JoinRequestWhenFull, Refuse
<1>3. ASSUME NEW e, NEW id, NEW seq, NEW mx, NEW my,
             InputCommand(e, id, seq, mx, my)
      PROVE  \/ UNCHANGED sessionVars
             \/ \E x \in DOMAIN sessions :
                    sessions' = Refreshed(x) /\ UNCHANGED id_to_endpoint
  BY <1>3 DEF InputCommand, Touch, sessionVars
<1>4. ASSUME NEW e, NEW id, DisconnectNotice(e, id)
      PROVE  \/ UNCHANGED sessionVars
             \/ \E gone \in SUBSET DOMAIN sessions :
                    /\ sessions' = Erase(sessions, gone)
                    /\ id_to_endpoint' =
                           Erase(id_to_endpoint,
                                 {sessions[x].player_id : x \in gone})
  <2>1. CASE RemoveByEndpoint(e)
    <3>1. /\ {e} \in SUBSET DOMAIN sessions
          /\ {sessions[x].player_id : x \in {e}} = {sessions[e].player_id}
      BY <2>1 DEF RemoveByEndpoint
    <3> QED BY <2>1, <3>1 DEF RemoveByEndpoint
  <2> QED BY <1>4, <2>1 DEF DisconnectNotice, sessionVars
<1>5. ASSUME TickAndMaybeBroadcast
      PROVE  \E gone \in SUBSET DOMAIN sessions :
                 /\ sessions' = Erase(sessions, gone)
                 /\ id_to_endpoint' =
                        Erase(id_to_endpoint,
                              {sessions[e].player_id : e \in gone})
  <2>1. timed_out \in SUBSET DOMAIN sessions
    BY DEF timed_out
  <2> QED BY <1>5, <2>1 DEF TickAndMaybeBroadcast, ReapTimeouts, ReapedIds
<1>6. ASSUME Elapse PROVE Age
  BY <1>6 DEF Elapse
<1>7. ASSUME UNCHANGED serverVars PROVE UNCHANGED sessionVars
  BY <1>7 DEF serverVars, sessionVars
<1> QED BY <1>1, <1>2, <1>3, <1>4, <1>5, <1>6, <1>7 DEF Next, Inbound

\* An endpoint that stays seated keeps its id.
LEMMA SeatKeptNext ==
    ASSUME ServerInv, [Next]_serverVars,
           NEW e \in DOMAIN sessions \cap DOMAIN sessions'
    PROVE  sessions'[e].player_id = sessions[e].player_id
<1>0. sessions \in [DOMAIN sessions -> Session]
  BY DEF ServerInv, TableOK, SessionTypeOK
<1>1. CASE UNCHANGED sessionVars
  BY <1>1 DEF sessionVars
<1>2. CASE Age
  BY <1>0, <1>2 DEF Age, Session
<1>3. CASE \E x \in DOMAIN sessions :
               sessions' = Refreshed(x) /\ UNCHANGED id_to_endpoint
  BY <1>0, <1>3 DEF Refreshed, Session
<1>4. CASE \E x \in Endpoints, id \in next_free_id : Register(x, id)
  BY <1>4 DEF Register, Put
<1>5. CASE \E gone \in SUBSET DOMAIN sessions :
               sessions' = Erase(sessions, gone)
  BY <1>5 DEF Erase, Restrict
<1> QED BY <1>1, <1>2, <1>3, <1>4, <1>5, SessionStep

\* An endpoint keeps its id for as long as it is seated.
THEOREM SeatsKept == Spec => SeatKept
<1> DEFINE A == \A e \in DOMAIN sessions \cap DOMAIN sessions' :
                    sessions'[e].player_id = sessions[e].player_id
<1>1. ServerInv /\ [Next]_serverVars => [A]_serverVars
  BY SeatKeptNext
<1> HIDE DEF A
<1>2. Spec => [][A]_serverVars
  BY <1>1, ServerInvariant, PTL DEF Spec
<1> QED BY <1>2 DEF SeatKept, A

\* A table that seats the same endpoints at the same ids has the same
\* occupants.
LEMMA SameOccupants ==
    ASSUME DOMAIN sessions' = DOMAIN sessions,
           \A e \in DOMAIN sessions :
               sessions'[e].player_id = sessions[e].player_id
    PROVE  UNCHANGED Occupants
BY DEF Occupants

\* The occupied seats of the allocation are the ids taken.
LEMMA OccupiedSeats ==
    ASSUME TableOK, NEW id \in PlayerIds
    PROVE  id \in DOMAIN id_to_endpoint <=> Occupants[id] # {}
BY DEF TableOK, IndexesAgree, Occupants

\* Seating an endpoint is a Take of the abstract allocation.
LEMMA RegisterTakes ==
    ASSUME TableOK, NEW e \in Endpoints, NEW id \in next_free_id,
           Register(e, id)
    PROVE  Allocation!Take(e)
<1>1. /\ id \in PlayerIds /\ id \notin DOMAIN id_to_endpoint
      /\ \A lower \in 1..(id - 1) : lower \in DOMAIN id_to_endpoint
      /\ e \notin DOMAIN sessions
  BY DEF next_free_id, Register
<1>2. e \notin Allocation!Seated
  BY <1>1 DEF Allocation!Seated, Occupants, PlayerIds
<1>3. Occupants[id] = {}
  BY <1>1, OccupiedSeats
<1>4. \A lower \in 1..(id - 1) : Occupants[lower] # {}
  <2>1. \A lower \in 1..(id - 1) : lower \in PlayerIds
    BY <1>1, SessionAssumption DEF PlayerIds
  <2> QED BY <1>1, <2>1, OccupiedSeats
<1>5. Occupants' = [Occupants EXCEPT ![id] = {e}]
  <2>1. /\ DOMAIN sessions' = DOMAIN sessions \cup {e}
        /\ sessions'[e].player_id = id
        /\ \A x \in DOMAIN sessions : sessions'[x] = sessions[x]
    BY <1>1 DEF Register, Put
  <2>2. \A x \in DOMAIN sessions : sessions[x].player_id # id
    BY <1>1 DEF TableOK, IndexesAgree
  <2>3. ASSUME NEW i \in PlayerIds
        PROVE  Occupants'[i] = IF i = id THEN {e} ELSE Occupants[i]
    BY <2>1, <2>2, <1>1 DEF Occupants
  <2> QED BY <2>3 DEF Occupants
<1> QED BY <1>1, <1>2, <1>3, <1>4, <1>5 DEF Allocation!Take, PlayerIds

\* Removing sessions is a Leave of the abstract allocation.
LEMMA EraseLeaves ==
    ASSUME NEW gone \in SUBSET DOMAIN sessions,
           sessions' = Erase(sessions, gone)
    PROVE  Allocation!Leave(gone)
<1>1. /\ DOMAIN sessions' = DOMAIN sessions \ gone
      /\ \A x \in DOMAIN sessions' : sessions'[x] = sessions[x]
  BY DEF Erase, Restrict
<1>2. ASSUME NEW i \in PlayerIds
      PROVE  Occupants'[i] = Occupants[i] \ gone
  BY <1>1 DEF Occupants
<1> QED BY <1>2 DEF Allocation!Leave, Occupants, PlayerIds

\* The server implements the abstract allocation of seats: an operation of
\* the table is a Take, a Leave, or changes no seat.
THEOREM ServerAllocatesSeats == Spec => AllocatesSeats
<1>1. Init => Allocation!Init
  BY DEF Init, SessionInit, NoEntries, Allocation!Init, Occupants, PlayerIds
<1>2. ASSUME ServerInv, [Next]_serverVars
      PROVE  Allocation!Next \/ UNCHANGED Occupants
  <2>0. TableOK
    BY <1>2 DEF ServerInv
  <2>1. CASE UNCHANGED sessionVars
    BY <2>1 DEF sessionVars, Occupants
  <2>2. CASE Age
    BY <2>0, <2>2, SameOccupants DEF Age, TableOK, SessionTypeOK, Session
  <2>3. CASE \E e \in DOMAIN sessions :
                 sessions' = Refreshed(e) /\ UNCHANGED id_to_endpoint
    BY <2>0, <2>3, SameOccupants DEF Refreshed, TableOK, SessionTypeOK, Session
  <2>4. CASE \E e \in Endpoints, id \in next_free_id : Register(e, id)
    BY <2>0, <2>4, RegisterTakes DEF Allocation!Next
  <2>5. CASE \E gone \in SUBSET DOMAIN sessions :
                 sessions' = Erase(sessions, gone)
    <3>1. PICK gone \in SUBSET DOMAIN sessions :
                   sessions' = Erase(sessions, gone)
      BY <2>5
    <3>2. gone \in SUBSET Endpoints
      BY <2>0 DEF TableOK, SessionTypeOK
    <3> QED BY <3>1, <3>2, EraseLeaves DEF Allocation!Next
  <2> QED BY <1>2, <2>1, <2>2, <2>3, <2>4, <2>5, SessionStep
<1>3. ServerInv /\ [Next]_serverVars => [Allocation!Next]_Occupants
  BY <1>2
<1>4. Spec => Allocation!Init /\ [][Allocation!Next]_Occupants
  BY <1>1, <1>3, ServerInvariant, PTL DEF Spec
<1> QED BY <1>4 DEF AllocatesSeats, Allocation!Spec

-----------------------------------------------------------------------------
\* What any step but an input does to a player that stays in play: nothing,
\* or a move by one tick.
LEMMA PlayerUnsteered ==
    ASSUME ServerInv,
           NEW id \in DOMAIN players \cap DOMAIN players',
           \/ \E e \in Endpoints : JoinRequest(e) \/ JoinRequestWhenFull(e)
           \/ \E e, claimed : DisconnectNotice(e, claimed)
           \/ TickAndMaybeBroadcast
           \/ Elapse
           \/ UNCHANGED serverVars
    PROVE  \/ players'[id] = players[id]
           \/ /\ tick' = (tick + 1) % TickModulus
              /\ players'[id] =
                     [players[id] EXCEPT
                         !.pos = apply_move(players[id].pos,
                                            players[id].pending_mx,
                                            players[id].pending_my, 1)]
<1>0. /\ players \in [DOMAIN players -> Player]
      /\ id \in DOMAIN players
  BY DEF ServerInv, PlayersOK
<1>1. ASSUME NEW e \in Endpoints, JoinRequest(e)
      PROVE  players'[id] = players[id]
  BY <1>0, <1>1 DEF JoinRequest, add_player, Put
<1>2. ASSUME NEW e, NEW claimed, DisconnectNotice(e, claimed)
      PROVE  players'[id] = players[id]
  <2>1. CASE players' = remove_player(players, {claimed})
    BY <1>0, <2>1 DEF remove_player, Erase, Restrict
  <2> QED BY <1>2, <2>1 DEF DisconnectNotice
<1>3. CASE TickAndMaybeBroadcast
  <2> DEFINE kept == remove_player(players, ReapedIds)
  <2>1. kept \in [DOMAIN players \ ReapedIds -> Player]
    BY <1>0, RemovePlayer
  <2>2. players' = step_tick(kept)
    BY <1>3 DEF TickAndMaybeBroadcast
  <2> HIDE DEF kept
  <2>3. id \in DOMAIN players \ ReapedIds
    BY <2>1, <2>2 DEF step_tick
  <2>4. kept[id] = players[id]
    BY <2>3 DEF kept, remove_player, Erase, Restrict
  <2>5. players'[id] = [kept[id] EXCEPT
                           !.pos = apply_move(kept[id].pos, kept[id].pending_mx,
                                              kept[id].pending_my, 1)]
    BY <2>1, <2>2, <2>3 DEF step_tick
  <2> QED BY <1>3, <2>4, <2>5 DEF TickAndMaybeBroadcast
<1>4. ASSUME \/ \E e \in Endpoints : JoinRequestWhenFull(e)
             \/ Elapse
             \/ UNCHANGED serverVars
      PROVE  players'[id] = players[id]
  BY <1>4 DEF JoinRequestWhenFull, Elapse, serverVars
<1> QED BY <1>1, <1>2, <1>3, <1>4

\* An input that changes a player is one of that player's own endpoint.
LEMMA InputSteersOwn ==
    ASSUME ServerInv, NEW id \in DOMAIN players,
           NEW e, NEW claimed, NEW seq \in Seqs, NEW mx \in Int, NEW my \in Int,
           InputCommand(e, claimed, seq, mx, my),
           players'[id] # players[id]
    PROVE  /\ claimed = id
           /\ e \in DOMAIN sessions
           /\ sessions[e].player_id = id
           /\ sessions' = Refreshed(e)
           /\ players' = apply_input(players, id, seq, mx, my)
<1>0. players \in [DOMAIN players -> Player]
  BY DEF ServerInv, PlayersOK
<1>1. /\ verify_input(e, claimed)
      /\ Touch(e)
      /\ players' = apply_input(players, claimed, seq, mx, my)
  BY DEF InputCommand
<1>2. claimed = id
  BY <1>0, <1>1, ApplyInput
<1> QED BY <1>1, <1>2 DEF verify_input, Touch

\* What a step does to a player that stays in play: nothing, apply an input
\* its own endpoint sent, or move it by one tick.
LEMMA PlayerStep ==
    ASSUME ServerInv, [Next]_serverVars,
           NEW id \in DOMAIN players \cap DOMAIN players'
    PROVE  \/ players'[id] = players[id]
           \/ \E e \in DOMAIN sessions, seq \in Seqs, mx \in Int, my \in Int :
                  /\ sessions[e].player_id = id
                  /\ sessions' = Refreshed(e)
                  /\ players' = apply_input(players, id, seq, mx, my)
           \/ /\ tick' = (tick + 1) % TickModulus
              /\ players'[id] =
                     [players[id] EXCEPT
                         !.pos = apply_move(players[id].pos,
                                            players[id].pending_mx,
                                            players[id].pending_my, 1)]
<1>1. ASSUME NEW e \in Endpoints, NEW claimed \in PlayerIds,
             NEW seq \in Seqs, NEW m \in MoveInputs,
             InputCommand(e, claimed, seq, m[1], m[2]),
             players'[id] # players[id]
      PROVE  \E x \in DOMAIN sessions, q \in Seqs, mx \in Int, my \in Int :
                 /\ sessions[x].player_id = id
                 /\ sessions' = Refreshed(x)
                 /\ players' = apply_input(players, id, q, mx, my)
  <2>1. m[1] \in Int /\ m[2] \in Int
    BY ServerAssumption
  <2> QED BY <1>1, <2>1, InputSteersOwn
<1> QED BY <1>1, PlayerUnsteered DEF Next, Inbound

\* Only the endpoint in a player's seat ever steers it: an input that arrives
\* late, from an endpoint whose seat has been given away, has no effect.
THEOREM OwnerSteers == Spec => OnlyOwnerSteers
<1> DEFINE A == \A id \in DOMAIN players \cap DOMAIN players' :
                    \/ /\ players'[id].pending_mx = players[id].pending_mx
                       /\ players'[id].pending_my = players[id].pending_my
                       /\ players'[id].latest_seen_seq =
                              players[id].latest_seen_seq
                    \/ sessions'[id_to_endpoint[id]].idle = 0
<1>1. ASSUME ServerInv, [Next]_serverVars
      PROVE  A
  <2> SUFFICES ASSUME NEW id \in DOMAIN players \cap DOMAIN players'
               PROVE  \/ /\ players'[id].pending_mx = players[id].pending_mx
                         /\ players'[id].pending_my = players[id].pending_my
                         /\ players'[id].latest_seen_seq =
                                players[id].latest_seen_seq
                      \/ sessions'[id_to_endpoint[id]].idle = 0
    OBVIOUS
  <2>1. CASE players'[id] = players[id]
    BY <2>1
  <2>2. CASE \E e \in DOMAIN sessions, seq \in Seqs, mx \in Int, my \in Int :
                 /\ sessions[e].player_id = id
                 /\ sessions' = Refreshed(e)
                 /\ players' = apply_input(players, id, seq, mx, my)
    BY <1>1, <2>2 DEF Refreshed, ServerInv, TableOK, SessionTypeOK,
                      IndexesAgree, Session
  <2>3. CASE players'[id] =
                 [players[id] EXCEPT
                     !.pos = apply_move(players[id].pos,
                                        players[id].pending_mx,
                                        players[id].pending_my, 1)]
    BY <1>1, <2>3 DEF ServerInv, PlayersOK, Player
  <2> QED BY <1>1, <2>1, <2>2, <2>3, PlayerStep
<1>2. ServerInv /\ [Next]_serverVars => [A]_serverVars
  BY <1>1
<1> HIDE DEF A
<1>3. Spec => [][A]_serverVars
  BY <1>2, ServerInvariant, PTL DEF Spec
<1> QED BY <1>3 DEF OnlyOwnerSteers, A

\* However many inputs arrive, a player moves once per tick and no further
\* than one step.
THEOREM SpeedLimited == Spec => SpeedLimit
<1> DEFINE Near(id) ==
               /\ tick' = (tick + 1) % TickModulus
               /\ players'[id].pos.x - players[id].pos.x
                      \in -StraightStep..StraightStep
               /\ players'[id].pos.y - players[id].pos.y
                      \in -StraightStep..StraightStep
           A == \A id \in DOMAIN players \cap DOMAIN players' :
                    players'[id].pos = players[id].pos \/ Near(id)
<1>1. ASSUME ServerInv, [Next]_serverVars
      PROVE  A
  <2> SUFFICES ASSUME NEW id \in DOMAIN players \cap DOMAIN players'
               PROVE  players'[id].pos = players[id].pos \/ Near(id)
    OBVIOUS
  <2>0. /\ players \in [DOMAIN players -> Player]
        /\ players[id] \in Player
    BY <1>1 DEF ServerInv, PlayersOK
  <2>1. CASE players'[id] = players[id]
    BY <2>1
  <2>2. CASE \E seq \in Seqs, mx \in Int, my \in Int :
                 players' = apply_input(players, id, seq, mx, my)
    BY <2>0, <2>2, ApplyInput
  <2>3. CASE /\ tick' = (tick + 1) % TickModulus
             /\ players'[id] =
                    [players[id] EXCEPT
                        !.pos = apply_move(players[id].pos,
                                           players[id].pending_mx,
                                           players[id].pending_my, 1)]
    <3>1. players'[id].pos = apply_move(players[id].pos,
                                        players[id].pending_mx,
                                        players[id].pending_my, 1)
      BY <2>0, <2>3 DEF Player
    <3>2. /\ players[id].pos \in Arena
          /\ players[id].pending_mx \in Axis
          /\ players[id].pending_my \in Axis
      BY <2>0 DEF Player
    <3> QED BY <2>3, <3>1, <3>2, MoveInArena
  <2> HIDE DEF Near
  <2> QED BY <1>1, <2>1, <2>2, <2>3, PlayerStep
<1>2. ServerInv /\ [Next]_serverVars => [A]_serverVars
  BY <1>1
<1> HIDE DEF A
<1>3. Spec => [][A]_serverVars
  BY <1>2, ServerInvariant, PTL DEF Spec
<1> QED BY <1>3 DEF SpeedLimit, A

\* A newcomer starts from a new player: its id was not taken, so the world
\* had no player under it.
LEMMA SeatFreshNext ==
    ASSUME ServerInv, [Next]_serverVars,
           NEW e \in DOMAIN sessions' \ DOMAIN sessions
    PROVE  players'[sessions'[e].player_id] = NewPlayer
<1>1. CASE \E x \in Endpoints : JoinRequest(x)
  <2>1. PICK x \in Endpoints : JoinRequest(x)
    BY <1>1
  <2>2. PICK id \in next_free_id : Register(x, id)
    BY <2>1 DEF JoinRequest, GetSession, Refreshed
  <2>3. e = x /\ sessions'[e].player_id = id
    BY <2>2 DEF Register, Put
  <2>4. id \notin DOMAIN players
    BY <2>2 DEF ServerInv, PlayersOK, next_free_id
  <2> QED BY <2>1, <2>3, <2>4 DEF JoinRequest, add_player, Put
<1>2. CASE \/ \E x \in Endpoints : JoinRequestWhenFull(x)
           \/ Elapse
           \/ UNCHANGED serverVars
  BY <1>2 DEF JoinRequestWhenFull, Refuse, sessionVars, Elapse, Age,
              serverVars
<1>3. CASE \E x, id, seq, mx, my :
               InputCommand(x, id, seq, mx, my)
  BY <1>3 DEF InputCommand, Touch, Refreshed
<1>4. CASE \E x \in Endpoints, id \in PlayerIds : DisconnectNotice(x, id)
  BY <1>4 DEF DisconnectNotice, RemoveByEndpoint, Erase, Restrict
<1>5. CASE TickAndMaybeBroadcast
  BY <1>5 DEF TickAndMaybeBroadcast, ReapTimeouts, Erase, Restrict
<1> QED BY <1>1, <1>2, <1>3, <1>4, <1>5 DEF Next, Inbound

\* A newcomer inherits nothing of whoever had its id before.
THEOREM SeatsFresh == Spec => NewSeatIsFresh
<1> DEFINE A == \A e \in DOMAIN sessions' \ DOMAIN sessions :
                    players'[sessions'[e].player_id] = NewPlayer
<1>1. ServerInv /\ [Next]_serverVars => [A]_serverVars
  BY SeatFreshNext
<1> HIDE DEF A
<1>2. Spec => [][A]_serverVars
  BY <1>1, ServerInvariant, PTL DEF Spec
<1> QED BY <1>2 DEF NewSeatIsFresh, A

-----------------------------------------------------------------------------
\* The sequence number acknowledged is the newest one seen: apply_input sets
\* the two together.  AckMonotone rests on it, since the guard that drops
\* stale inputs looks at the other one.
AckIsNewest ==
    \A id \in DOMAIN players :
        players[id].last_processed_input_seq = players[id].latest_seen_seq

\* A player that comes into play is new.
LEMMA PlayersComeNew ==
    ASSUME ServerInv, [Next]_serverVars,
           NEW id \in DOMAIN players' \ DOMAIN players
    PROVE  players'[id] = NewPlayer
<1>0. players \in [DOMAIN players -> Player]
  BY DEF ServerInv, PlayersOK
<1>1. ASSUME NEW e \in Endpoints, JoinRequest(e)
      PROVE  players'[id] = NewPlayer
  BY <1>1 DEF JoinRequest, add_player, Put
<1>2. ASSUME \/ \E e \in Endpoints : JoinRequestWhenFull(e)
             \/ \E e, any : DisconnectNotice(e, any)
             \/ TickAndMaybeBroadcast
             \/ Elapse
             \/ UNCHANGED serverVars
      PROVE  FALSE
  BY <1>2 DEF JoinRequestWhenFull, DisconnectNotice, TickAndMaybeBroadcast,
              Elapse, serverVars, remove_player, Erase, Restrict, step_tick
<1>3. ASSUME NEW e, NEW any, NEW seq, NEW mx, NEW my,
             InputCommand(e, any, seq, mx, my)
      PROVE  FALSE
  BY <1>0, <1>3 DEF InputCommand, apply_input
<1> QED BY <1>1, <1>2, <1>3 DEF Next, Inbound

\* AckIsNewest is kept by every step.
LEMMA AckIsNewestNext ==
    ASSUME ServerInv, AckIsNewest, [Next]_serverVars
    PROVE  AckIsNewest'
<1> SUFFICES ASSUME NEW id \in DOMAIN players'
             PROVE  players'[id].last_processed_input_seq =
                        players'[id].latest_seen_seq
  BY DEF AckIsNewest
<1>0. players \in [DOMAIN players -> Player]
  BY DEF ServerInv, PlayersOK
<1>1. CASE id \notin DOMAIN players
  BY <1>1, PlayersComeNew DEF NewPlayer
<1>2. CASE id \in DOMAIN players
  <2>1. CASE players'[id] = players[id]
    BY <1>2, <2>1 DEF AckIsNewest
  <2>2. CASE \E seq \in Seqs, mx \in Int, my \in Int :
                 players' = apply_input(players, id, seq, mx, my)
    BY <1>0, <1>2, <2>2, ApplyInput DEF AckIsNewest
  <2>3. CASE players'[id] =
                 [players[id] EXCEPT
                     !.pos = apply_move(players[id].pos,
                                        players[id].pending_mx,
                                        players[id].pending_my, 1)]
    BY <1>0, <1>2, <2>3 DEF AckIsNewest, Player
  <2> QED BY <1>2, <2>1, <2>2, <2>3, PlayerStep
<1> QED BY <1>1, <1>2

\* The acknowledgement of a seat never goes back while it has one owner,
\* whatever the order in which the inputs arrive.
THEOREM AcksMonotone == Spec => AckMonotone
<1> DEFINE A == \A id \in DOMAIN players \cap DOMAIN players' :
                    players'[id].last_processed_input_seq >=
                        players[id].last_processed_input_seq
<1>1. ASSUME ServerInv, AckIsNewest, [Next]_serverVars
      PROVE  A
  <2> SUFFICES ASSUME NEW id \in DOMAIN players \cap DOMAIN players'
               PROVE  players'[id].last_processed_input_seq >=
                          players[id].last_processed_input_seq
    OBVIOUS
  <2>0. /\ players \in [DOMAIN players -> Player]
        /\ players[id].last_processed_input_seq \in Int
    BY <1>1, SeqAssumption DEF ServerInv, PlayersOK, Player, Seqs
  <2>1. CASE players'[id] = players[id]
    BY <2>0, <2>1
  <2>2. CASE \E seq \in Seqs, mx \in Int, my \in Int :
                 players' = apply_input(players, id, seq, mx, my)
    BY <1>1, <2>0, <2>2, ApplyInput DEF AckIsNewest
  <2>3. CASE players'[id] =
                 [players[id] EXCEPT
                     !.pos = apply_move(players[id].pos,
                                        players[id].pending_mx,
                                        players[id].pending_my, 1)]
    BY <2>0, <2>3 DEF Player
  <2> QED BY <1>1, <2>1, <2>2, <2>3, PlayerStep
<1> HIDE DEF A
<1>2. Init => AckIsNewest
  BY DEF Init, NoEntries, AckIsNewest
<1>3. ServerInv /\ AckIsNewest /\ [Next]_serverVars => AckIsNewest'
  BY AckIsNewestNext
<1>4. AckIsNewest /\ UNCHANGED serverVars => AckIsNewest'
  BY DEF AckIsNewest, serverVars
<1>5. ServerInv /\ AckIsNewest /\ [Next]_serverVars => [A]_serverVars
  BY <1>1
<1>6. Spec => [][A]_serverVars
  BY <1>2, <1>3, <1>4, <1>5, ServerInvariant, PTL DEF Spec
<1> QED BY <1>6 DEF AckMonotone, A

-----------------------------------------------------------------------------
\* There are never more players than a snapshot can hold.
LEMMA PlayersFit ==
    ASSUME NEW ids \in SUBSET PlayerIds
    PROVE  Cardinality(ids) <= MAX_PLAYERS
<1>1. IsFiniteSet(PlayerIds) /\ Cardinality(PlayerIds) = MAX_PLAYERS
  BY FS_Interval, SessionAssumption DEF PlayerIds
<1> QED BY <1>1, FS_Subset

\* On a snapshot tick, one snapshot of the new state goes to each endpoint
\* left in the table, and nothing else is sent; on another tick nothing is.
LEMMA TickSends ==
    ASSUME ServerInv, TickAndMaybeBroadcast
    PROVE  sent' = IF tick' % TICKS_PER_SNAPSHOT = 0
                   THEN {WorldSnapshot(e, tick', collect_player_states(players')) :
                             e \in DOMAIN sessions'}
                   ELSE {}
<1>1. TableOK' /\ PlayersOK'
  BY TickOK DEF ServerInv
<1>2. Cardinality(DOMAIN players') <= MAX_PLAYERS
  BY <1>1, PlayersFit DEF TableOK, SessionTypeOK, PlayersOK
<1>3. DOMAIN collect_player_states(players') = DOMAIN players'
  BY DEF collect_player_states
<1> QED BY <1>2, <1>3 DEF TickAndMaybeBroadcast, Broadcast

\* On every snapshot tick the new state is sent to every seated endpoint.
THEOREM SnapshotsReachAll == Spec => SnapshotReachesAll
<1> DEFINE A == (tick' # tick /\ tick' % TICKS_PER_SNAPSHOT = 0)
                    => {d.to : d \in sent'} = DOMAIN sessions'
<1>1. ASSUME ServerInv, [Next]_serverVars
      PROVE  A
  <2> SUFFICES ASSUME tick' # tick, tick' % TICKS_PER_SNAPSHOT = 0
               PROVE  {d.to : d \in sent'} = DOMAIN sessions'
    OBVIOUS
  <2>1. TickAndMaybeBroadcast
    BY <1>1 DEF Next, Inbound, JoinRequest, JoinRequestWhenFull, InputCommand,
                DisconnectNotice, Elapse, serverVars
  <2> DEFINE states == collect_player_states(players')
  <2>2. sent' = {WorldSnapshot(e, tick', states) : e \in DOMAIN sessions'}
    BY <1>1, <2>1, TickSends
  <2> HIDE DEF states
  <2>3. \A e : WorldSnapshot(e, tick', states).to = e
    BY DEF WorldSnapshot
  <2> QED BY <2>2, <2>3
<1>2. ServerInv /\ [Next]_serverVars => [A]_serverVars
  BY <1>1
<1> HIDE DEF A
<1>3. Spec => [][A]_serverVars
  BY <1>2, ServerInvariant, PTL DEF Spec
<1> QED BY <1>3, PTL DEF SnapshotReachesAll, A

\* What a step sends serves its recipients.
LEMMA SendsServeNext ==
    ASSUME ServerInv, SentServesRecipient, [Next]_serverVars
    PROVE  SentServesRecipient'
<1>1. CASE \E e \in Endpoints : JoinRequest(e)
  <2>1. PICK e \in Endpoints : JoinRequest(e)
    BY <1>1
  <2>2. e \in DOMAIN sessions'
    BY <2>1 DEF JoinRequest, GetSession, Refreshed, Register, Put
  <2> QED BY <2>1, <2>2 DEF JoinRequest, JoinAccept, SentServesRecipient
<1>2. CASE sent' = {}
  BY <1>2 DEF SentServesRecipient
<1>3. CASE UNCHANGED serverVars
  BY <1>3 DEF serverVars, SentServesRecipient
<1>4. CASE TickAndMaybeBroadcast
  <2> DEFINE states == collect_player_states(players')
  <2>1. ServerInv'
    BY <1>4, TickOK
  <2>2. \A e \in DOMAIN sessions' : sessions'[e].player_id \in DOMAIN players'
    BY <2>1 DEF ServerInv, TableOK, PlayersOK, IndexesAgree
  <2>3. /\ DOMAIN states = DOMAIN players'
        /\ \A id \in DOMAIN players' :
               /\ states[id].pos = players'[id].pos
               /\ states[id].last_processed_input_seq =
                      players'[id].last_processed_input_seq
    BY DEF collect_player_states
  <2> HIDE DEF states
  <2>4. \A d \in sent' : \E e \in DOMAIN sessions' :
            d = WorldSnapshot(e, tick', states)
    BY <1>4, TickSends DEF states
  <2>5. \A e : /\ WorldSnapshot(e, tick', states).to = e
               /\ WorldSnapshot(e, tick', states).type = "WORLD_SNAPSHOT"
               /\ WorldSnapshot(e, tick', states).players = states
    BY DEF WorldSnapshot
  <2> QED BY <2>2, <2>3, <2>4, <2>5 DEF SentServesRecipient
<1> QED BY <1>1, <1>2, <1>3, <1>4
        DEF Next, Inbound, JoinRequestWhenFull, InputCommand,
            DisconnectNotice, Elapse

\* What the server sends is for a seated endpoint and about its own seat.
THEOREM SendsServeRecipients == Spec => []SentServesRecipient
<1>1. Init => SentServesRecipient
  BY DEF Init, SentServesRecipient
<1>2. ServerInv /\ SentServesRecipient /\ [Next]_serverVars
          => SentServesRecipient'
  BY SendsServeNext
<1> QED BY <1>1, <1>2, ServerInvariant, PTL DEF Spec

\* The history only watches: what it is added to behaves as Server does.
LEMMA HistoryStep == [HistoryNext]_historyVars => [Next]_serverVars
<1> SUFFICES ASSUME [HistoryNext]_historyVars PROVE [Next]_serverVars
  OBVIOUS
<1>1. CASE \E e \in Endpoints : HearsJoinRequest(e)
  BY <1>1 DEF HearsJoinRequest, Next, Inbound
<1>2. CASE \E e \in Endpoints, id \in PlayerIds, seq \in Seqs, m \in MoveInputs :
               HearsInput(e, id, seq, m[1], m[2])
  BY <1>2 DEF HearsInput, Next, Inbound
<1>3. CASE \E e \in Endpoints, id \in PlayerIds : HearsNotice(e, id)
  BY <1>3 DEF HearsNotice, Next, Inbound
<1>4. CASE HearsNothing \/ SilenceGrows
  BY <1>4 DEF HearsNothing, SilenceGrows, Next
<1>5. CASE UNCHANGED historyVars
  BY <1>5 DEF historyVars
<1> QED BY <1>1, <1>2, <1>3, <1>4, <1>5 DEF HistoryNext

\* What holds of every behaviour of Server holds of those with a history.
LEMMA HistoryIsOfServer == HistorySpec => Spec
<1>1. HistoryInit => Init
  BY DEF HistoryInit
<1> QED BY <1>1, HistoryStep, PTL DEF HistorySpec, Spec

\* What the server counts as idle time is how long the endpoint has not
\* spoken for itself: nobody else's datagrams refresh a session, and none of
\* its own fails to.
IdleIsSilence ==
    /\ DOMAIN silence = DOMAIN sessions
    /\ \A e \in DOMAIN sessions : silence[e] = sessions[e].idle

\* The silence of everybody seated, after a step in which some spoke.
LEMMA BrokenFor ==
    ASSUME IdleIsSilence, NEW speakers, silence' = Broken(speakers)
    PROVE  /\ DOMAIN silence' = DOMAIN sessions'
           /\ \A e \in DOMAIN sessions' :
                  silence'[e] = IF e \in speakers \/ e \notin DOMAIN sessions
                                THEN 0 ELSE sessions[e].idle
BY DEF IdleIsSilence, Broken

\* A datagram from a seated endpoint for itself restarts its idle time alone.
LEMMA RefreshedAlone ==
    ASSUME TableOK, NEW e \in DOMAIN sessions, sessions' = Refreshed(e)
    PROVE  /\ DOMAIN sessions' = DOMAIN sessions
           /\ sessions'[e].idle = 0
           /\ \A x \in DOMAIN sessions \ {e} : sessions'[x] = sessions[x]
BY DEF TableOK, SessionTypeOK, Session, Refreshed

\* A JOIN_REQUEST breaks its sender's silence, if it is seated, and unseats
\* nobody.
LEMMA HeardJoinRequest ==
    ASSUME ServerInv, IdleIsSilence, NEW e \in Endpoints, HearsJoinRequest(e)
    PROVE  IdleIsSilence' /\ DOMAIN sessions \subseteq DOMAIN sessions'
<1>1. /\ DOMAIN silence' = DOMAIN sessions'
      /\ \A x \in DOMAIN sessions' :
             silence'[x] = IF x = e \/ x \notin DOMAIN sessions
                           THEN 0 ELSE sessions[x].idle
  <2>1. silence' = Broken({e})
    BY DEF HearsJoinRequest
  <2> QED BY <2>1, BrokenFor
<1>2. CASE JoinRequestWhenFull(e)
  <2>1. sessions' = sessions /\ e \notin DOMAIN sessions
    BY <1>2 DEF JoinRequestWhenFull, Refuse, sessionVars
  <2> QED BY <1>1, <2>1 DEF IdleIsSilence
<1>3. CASE GetSession(e)
  <2>1. e \in DOMAIN sessions /\ sessions' = Refreshed(e) /\ TableOK
    BY <1>3 DEF GetSession, ServerInv
  <2>2. /\ DOMAIN sessions' = DOMAIN sessions
        /\ sessions'[e].idle = 0
        /\ \A x \in DOMAIN sessions \ {e} : sessions'[x] = sessions[x]
    BY <2>1, RefreshedAlone
  <2> QED BY <1>1, <2>2 DEF IdleIsSilence
<1>4. CASE \E id \in next_free_id : Register(e, id)
  <2>1. PICK id : Register(e, id)
    BY <1>4
  <2>2. /\ DOMAIN sessions' = DOMAIN sessions \cup {e}
        /\ sessions'[e].idle = 0 /\ e \notin DOMAIN sessions
        /\ \A x \in DOMAIN sessions : sessions'[x] = sessions[x]
    BY <2>1 DEF Register, Put
  <2> QED BY <1>1, <2>2 DEF IdleIsSilence
<1> QED BY <1>2, <1>3, <1>4 DEF HearsJoinRequest, JoinRequest

\* An input breaks the silence of its sender exactly when it names its id,
\* and unseats nobody.
LEMMA HeardInput ==
    ASSUME ServerInv, IdleIsSilence, NEW e \in Endpoints,
           NEW id \in PlayerIds, NEW seq, NEW mx, NEW my,
           HearsInput(e, id, seq, mx, my)
    PROVE  IdleIsSilence' /\ DOMAIN sessions' = DOMAIN sessions
<1>1. silence' = Broken(Speaker(e, id))
  BY DEF HearsInput
<1>2. CASE verify_input(e, id)
  <2>1. sessions' = Refreshed(e) /\ e \in DOMAIN sessions
    BY <1>2 DEF HearsInput, InputCommand, Touch, verify_input
  <2>2. Speaker(e, id) = {e}
    BY <1>2 DEF Speaker, verify_input
  <2>3. /\ DOMAIN sessions' = DOMAIN sessions
        /\ sessions'[e].idle = 0
        /\ \A x \in DOMAIN sessions \ {e} : sessions'[x] = sessions[x]
    BY <2>1, RefreshedAlone DEF ServerInv
  <2>4. /\ DOMAIN silence' = DOMAIN sessions'
        /\ \A x \in DOMAIN sessions' :
               silence'[x] = IF x \in {e} \/ x \notin DOMAIN sessions
                             THEN 0 ELSE sessions[x].idle
    BY <1>1, <2>2, BrokenFor
  <2> QED BY <2>3, <2>4 DEF IdleIsSilence
<1>3. CASE ~verify_input(e, id)
  <2>1. sessions' = sessions /\ Speaker(e, id) = {}
    BY <1>3 DEF HearsInput, InputCommand, verify_input, Speaker
  <2> QED BY <1>1, <2>1, BrokenFor DEF IdleIsSilence
<1> QED BY <1>2, <1>3

\* A notice unseats its sender exactly when it names its id.
LEMMA HeardNotice ==
    ASSUME ServerInv, IdleIsSilence, NEW e \in Endpoints,
           NEW id \in PlayerIds, HearsNotice(e, id)
    PROVE  /\ IdleIsSilence'
           /\ DOMAIN sessions' = DOMAIN sessions \ Speaker(e, id)
<1>1. silence' = Broken({})
  BY DEF HearsNotice
<1>2. CASE e \in DOMAIN sessions /\ sessions[e].player_id = id
  <2>1. sessions' = Erase(sessions, {e})
    BY <1>2 DEF HearsNotice, DisconnectNotice, RemoveByEndpoint
  <2>2. Speaker(e, id) = {e}
    BY <1>2 DEF Speaker
  <2> QED BY <1>1, <2>1, <2>2, BrokenFor DEF Erase, Restrict, IdleIsSilence
<1>3. CASE ~(e \in DOMAIN sessions /\ sessions[e].player_id = id)
  <2>1. sessions' = sessions /\ Speaker(e, id) = {}
    BY <1>3 DEF HearsNotice, DisconnectNotice, Speaker
  <2> QED BY <1>1, <2>1, BrokenFor DEF IdleIsSilence
<1> QED BY <1>2, <1>3

\* A tick unseats exactly those who have been silent for too long.
LEMMA HeardNothing ==
    ASSUME ServerInv, IdleIsSilence, HearsNothing
    PROVE  /\ IdleIsSilence'
           /\ tick' # tick
           /\ DOMAIN sessions' =
                  {e \in DOMAIN sessions : ~(silence[e] > CLIENT_TIMEOUT)}
<1>1. silence' = Broken({}) /\ sessions' = Erase(sessions, timed_out)
  BY DEF HearsNothing, TickAndMaybeBroadcast, ReapTimeouts
<1>2. tick' # tick
  <2>1. tick \in 0..TickModulus - 1 /\ TickModulus \in Nat
    BY ServerAssumption DEF ServerInv, PlayersOK, Ticks
  <2>2. tick' = (tick + 1) % TickModulus
    BY DEF HearsNothing, TickAndMaybeBroadcast
  <2>3. CASE tick + 1 = TickModulus
    BY <2>1, <2>2, <2>3, HistoryAssumption
  <2>4. CASE tick + 1 < TickModulus
    BY <2>1, <2>2, <2>4
  <2> QED BY <2>1, <2>3, <2>4
<1>3. /\ DOMAIN sessions' =
             {e \in DOMAIN sessions : ~(sessions[e].idle > CLIENT_TIMEOUT)}
      /\ \A e \in DOMAIN sessions' : sessions'[e] = sessions[e]
  BY <1>1 DEF timed_out, Erase, Restrict
<1>4. /\ DOMAIN silence' = DOMAIN sessions'
      /\ \A e \in DOMAIN sessions' :
             silence'[e] = IF e \in {} \/ e \notin DOMAIN sessions
                           THEN 0 ELSE sessions[e].idle
  BY <1>1, BrokenFor
<1> QED BY <1>2, <1>3, <1>4 DEF IdleIsSilence

\* Silence and idle time grow together.
LEMMA SilenceHasGrown ==
    ASSUME IdleIsSilence, TableOK, SilenceGrows
    PROVE  IdleIsSilence' /\ DOMAIN sessions' = DOMAIN sessions
BY DEF TableOK, SessionTypeOK, Session, SilenceGrows, Elapse, Age, IdleIsSilence

\* Whatever is said or not said, idle time goes on being silence.
LEMMA IdleIsSilenceNext ==
    ServerInv /\ IdleIsSilence /\ [HistoryNext]_historyVars => IdleIsSilence'
<1>1. ASSUME ServerInv, IdleIsSilence, UNCHANGED historyVars
      PROVE  IdleIsSilence'
  BY <1>1 DEF historyVars, serverVars, IdleIsSilence
<1> QED BY <1>1, HeardJoinRequest, HeardInput, HeardNotice, HeardNothing,
           SilenceHasGrown
        DEF HistoryNext, ServerInv

\* The time-out is about silence: the idle time the server keeps for a seat is
\* the time since its owner has spoken for itself.
THEOREM IdleTimeIsSilence == HistorySpec => []IdleIsSilence
<1>1. HistoryInit => IdleIsSilence
  BY DEF HistoryInit, Init, SessionInit, NoEntries, IdleIsSilence
<1> QED BY <1>1, IdleIsSilenceNext, HistoryIsOfServer, ServerInvariant, PTL
        DEF HistorySpec

\* An endpoint is unseated exactly when it has sent a notice for itself, or a
\* tick finds that it has not spoken for itself for longer than the time-out.
THEOREM LeavingHasCause == HistorySpec => LeavesForCause
<1> DEFINE A == \A e \in DOMAIN sessions :
                    e \notin DOMAIN sessions' <=>
                        \/ e \in resigned'
                        \/ tick' # tick /\ silence[e] > CLIENT_TIMEOUT
<1>1. ASSUME ServerInv, IdleIsSilence, HistoryNext
      PROVE  A
  <2>1. CASE \E e \in Endpoints : HearsJoinRequest(e)
    <3>1. PICK e \in Endpoints : HearsJoinRequest(e)
      BY <2>1
    <3>2. resigned' = {} /\ tick' = tick
      BY <3>1 DEF HearsJoinRequest, JoinRequest, JoinRequestWhenFull
    <3> QED BY <1>1, <3>1, <3>2, HeardJoinRequest
  <2>2. CASE \E e \in Endpoints, id \in PlayerIds, seq \in Seqs,
                m \in MoveInputs : HearsInput(e, id, seq, m[1], m[2])
    <3>1. PICK e \in Endpoints, id \in PlayerIds, seq \in Seqs,
               m \in MoveInputs : HearsInput(e, id, seq, m[1], m[2])
      BY <2>2
    <3>2. resigned' = {} /\ tick' = tick
      BY <3>1 DEF HearsInput, InputCommand
    <3> QED BY <1>1, <3>1, <3>2, HeardInput
  <2>3. CASE \E e \in Endpoints, id \in PlayerIds : HearsNotice(e, id)
    <3>1. PICK e \in Endpoints, id \in PlayerIds : HearsNotice(e, id)
      BY <2>3
    <3>2. resigned' = Speaker(e, id) /\ tick' = tick
      BY <3>1 DEF HearsNotice, DisconnectNotice
    <3> QED BY <1>1, <3>1, <3>2, HeardNotice
  <2>4. CASE HearsNothing
    <3>1. resigned' = {}
      BY <2>4 DEF HearsNothing
    <3> QED BY <1>1, <2>4, <3>1, HeardNothing
  <2>5. CASE SilenceGrows
    <3>1. resigned' = {} /\ tick' = tick
      BY <2>5 DEF SilenceGrows, Elapse
    <3> QED BY <1>1, <2>5, <3>1, SilenceHasGrown DEF ServerInv
  <2> QED BY <1>1, <2>1, <2>2, <2>3, <2>4, <2>5 DEF HistoryNext
<1>2. ServerInv /\ IdleIsSilence /\ [HistoryNext]_historyVars => [A]_historyVars
  BY <1>1
<1> HIDE DEF A
<1>3. HistorySpec => [][A]_historyVars
  BY <1>2, IdleTimeIsSilence, HistoryIsOfServer, ServerInvariant, PTL
     DEF HistorySpec
<1> QED BY <1>3 DEF LeavesForCause, A
=============================================================================
