--------------------------- MODULE SessionManager ---------------------------
(***************************************************************************)
(* The UDP server's session table (server/session_manager.cpp): which      *)
(* endpoint (IP and port) sits in which of the MAX_PLAYERS seats.          *)
(*                                                                         *)
(* Time.  The code stores last_input_time and asks, at each tick, whether  *)
(* now - last_input_time exceeds the timeout.  The model stores that       *)
(* difference, `idle`, in units of which CLIENT_TIMEOUT make the timeout,  *)
(* and stops counting one past it: every larger value answers alike.       *)
(***************************************************************************)
EXTENDS Integers, FiniteSets, Maps

CONSTANTS
    Endpoints,      \* the network endpoints that may talk to the server
    MAX_PLAYERS,    \* number of seats, common/constants.hpp:24
    CLIENT_TIMEOUT  \* CLIENT_TIMEOUT_SEC in units of Elapse

ASSUME SessionAssumption ==
    /\ MAX_PLAYERS \in Nat
    /\ CLIENT_TIMEOUT \in Nat

VARIABLES
    sessions,       \* endpoint -> its session, for the endpoints seated
    id_to_endpoint  \* player id -> endpoint, for the ids taken

sessionVars == <<sessions, id_to_endpoint>>

PlayerIds == 1..MAX_PLAYERS

Session == [player_id : PlayerIds, idle : 0..CLIENT_TIMEOUT + 1]

SessionInit ==
    /\ sessions = NoEntries
    /\ id_to_endpoint = NoEntries

-----------------------------------------------------------------------------
\* The session of an endpoint restarts its idle time.
Refreshed(e) == [sessions EXCEPT ![e].idle = 0]

\* Mutant of next_free_id: the id after the number of ids taken.
next_free_id_by_count ==
    {id \in PlayerIds : id = Cardinality(DOMAIN id_to_endpoint) + 1}

\* The lowest free id, as a set that is empty when all seats are taken.
next_free_id ==
    {id \in PlayerIds \ DOMAIN id_to_endpoint :
        \A lower \in 1..(id - 1) : lower \in DOMAIN id_to_endpoint}

\* register_or_get, endpoint known: the session is refreshed and kept.
GetSession(e) ==
    /\ e \in DOMAIN sessions
    /\ sessions' = Refreshed(e)
    /\ UNCHANGED id_to_endpoint

\* register_or_get, endpoint unknown: it takes the seat `id`.
Register(e, id) ==
    /\ e \notin DOMAIN sessions
    /\ id \in next_free_id
    /\ sessions' = Put(sessions, e, [player_id |-> id, idle |-> 0])
    /\ id_to_endpoint' = Put(id_to_endpoint, id, e)

\* register_or_get, endpoint unknown and all seats taken.
Refuse(e) ==
    /\ e \notin DOMAIN sessions
    /\ next_free_id = {}
    /\ UNCHANGED sessionVars

-----------------------------------------------------------------------------
\* Mutant of verify_input: any seated endpoint may speak for any seat.
verify_input_seated_only(e, claimed_id) ==
    e \in DOMAIN sessions /\ claimed_id \in PlayerIds

verify_input(e, claimed_id) ==
    e \in DOMAIN sessions /\ sessions[e].player_id = claimed_id

\* touch: silently ignores an endpoint without a session.
Touch(e) ==
    /\ sessions' = IF e \in DOMAIN sessions THEN Refreshed(e) ELSE sessions
    /\ UNCHANGED id_to_endpoint

\* The endpoints whose sessions reap_timeouts removes, and their ids.
timed_out == {e \in DOMAIN sessions : sessions[e].idle > CLIENT_TIMEOUT}

ReapedIds == {sessions[e].player_id : e \in timed_out}

\* Mutant of reap_timeouts: the second index is left as it was.
ReapOneIndexOnly ==
    /\ sessions' = Erase(sessions, timed_out)
    /\ UNCHANGED id_to_endpoint

\* reap_timeouts.
ReapTimeouts ==
    /\ sessions' = Erase(sessions, timed_out)
    /\ id_to_endpoint' = Erase(id_to_endpoint, ReapedIds)

\* remove_by_endpoint, for an endpoint that has a session.
RemoveByEndpoint(e) ==
    /\ e \in DOMAIN sessions
    /\ sessions' = Erase(sessions, {e})
    /\ id_to_endpoint' = Erase(id_to_endpoint, {sessions[e].player_id})

\* The steady clock advances by one unit for every session.
Age ==
    /\ sessions' = [e \in DOMAIN sessions |->
                       [sessions[e] EXCEPT
                           !.idle = IF @ > CLIENT_TIMEOUT THEN @ ELSE @ + 1]]
    /\ UNCHANGED id_to_endpoint

-----------------------------------------------------------------------------
SessionTypeOK ==
    /\ DOMAIN sessions \subseteq Endpoints
    /\ sessions \in [DOMAIN sessions -> Session]
    /\ DOMAIN id_to_endpoint \subseteq PlayerIds
    /\ id_to_endpoint \in [DOMAIN id_to_endpoint -> Endpoints]

\* The two indexes of the session table are inverse to each other: an id is
\* taken exactly while one endpoint sits there.  If they came apart, two
\* endpoints could share a player or a seat could be lost for good, both
\* only after some order of joins, time-outs and disconnects.
IndexesAgree ==
    /\ \A e \in DOMAIN sessions :
           /\ sessions[e].player_id \in DOMAIN id_to_endpoint
           /\ id_to_endpoint[sessions[e].player_id] = e
    /\ \A id \in DOMAIN id_to_endpoint :
           /\ id_to_endpoint[id] \in DOMAIN sessions
           /\ sessions[id_to_endpoint[id]].player_id = id

\* Who sits in each seat, as the session table has it.
Occupants == [id \in PlayerIds |->
                 {e \in DOMAIN sessions : sessions[e].player_id = id}]

Allocation == INSTANCE SeatAllocation
                  WITH Seats <- MAX_PLAYERS, seats <- Occupants
=============================================================================
