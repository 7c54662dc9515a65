--------------------------- MODULE ClientShutdown ---------------------------
(***************************************************************************)
(* The end of run_optimized_client (client/client.cpp:395-409): the main   *)
(* thread leaves its loop, sends DISCONNECT_NOTICE, pumps once, stops and  *)
(* joins the receiver thread, and returns, which destroys the socket with  *)
(* whatever its queue still holds.  The receiver thread runs its loop      *)
(* (client/network_receiver.cpp): pump, recv_from, look whether to stop.   *)
(***************************************************************************)
EXTENDS LaggedSocket

VARIABLES
    main,       \* "looping", "notifying", "pumping", "stopping", "closed"
    running,    \* NetworkReceiver::running_
    pumped      \* whether the receiver has pumped in this round of its loop

shutdownVars == <<socketVars, main, running, pumped>>

Init ==
    /\ SocketInit
    /\ main = "looping"
    /\ running = TRUE
    /\ pumped = FALSE

-----------------------------------------------------------------------------
\* The main loop sends inputs; send_to is left room for the notice.
MainSends ==
    /\ main = "looping"
    /\ sent < MaxSends - 1
    /\ \E jitter \in Jitters : SendTo(jitter)
    /\ UNCHANGED <<main, running, pumped>>

\* Either send_to of the main thread completes.
MainPushes ==
    /\ main \in {"looping", "notifying"}
    /\ SendPush
    /\ UNCHANGED <<main, running, pumped>>

\* The loop is left: send_to(DISCONNECT_NOTICE).
MainNotifies ==
    /\ main = "looping"
    /\ \E jitter \in Jitters : SendTo(jitter)
    /\ main' = "notifying"
    /\ UNCHANGED <<running, pumped>>

\* sock.pump(), once.
MainPumps ==
    /\ main = "notifying"
    /\ sending = {}
    /\ Pump
    /\ main' = "pumping"
    /\ UNCHANGED <<running, pumped>>

\* Mutant of MainStops: the thread is joined and never told to end.
MainJoinsOnly ==
    /\ main = "pumping"
    /\ main' = "stopping"
    /\ UNCHANGED <<socketVars, running, pumped>>

\* receiver.stop(): running_ is cleared, then the thread is joined.
MainStops ==
    /\ main = "pumping"
    /\ main' = "stopping"
    /\ running' = FALSE
    /\ UNCHANGED <<socketVars, pumped>>

ReceiverBetweenRounds == receiver = "idle" /\ ~pumped

\* The thread has ended; the function returns and the socket is destroyed.
MainCloses ==
    /\ main = "stopping"
    /\ ReceiverBetweenRounds /\ ~running
    /\ main' = "closed"
    /\ UNCHANGED <<socketVars, running, pumped>>

-----------------------------------------------------------------------------
\* NetworkReceiver::run, a round: pump ...
ReceiverPumps ==
    /\ ReceiverBetweenRounds
    /\ running
    /\ Pump
    /\ pumped' = TRUE
    /\ UNCHANGED <<main, running>>

\* ... then recv_from.
ReceiverReceives ==
    /\ \/ pumped /\ RecvStart /\ pumped' = FALSE
       \/ Receiving /\ UNCHANGED pumped
    /\ UNCHANGED <<main, running>>

\* The environment; after the socket is closed it no longer matters.
World ==
    /\ main # "closed"
    /\ Arrive \/ Advance
    /\ UNCHANGED <<main, running, pumped>>

Next ==
    \/ MainSends \/ MainPushes \/ MainNotifies \/ MainPumps
    \/ MainStops \/ MainCloses
    \/ ReceiverPumps \/ ReceiverReceives
    \/ World

\* Both threads go on.  The main thread waits for a mutex the
\* receiver takes again and again, but not for ever: the receiver sleeps
\* between rounds that find nothing (network_receiver.cpp:32).
Spec ==
    /\ Init /\ [][Next]_shutdownVars
    /\ SF_shutdownVars(MainPushes)
    /\ SF_shutdownVars(MainPumps)
    /\ WF_shutdownVars(MainStops)
    /\ WF_shutdownVars(MainCloses)
    /\ WF_shutdownVars(ReceiverPumps)
    /\ WF_shutdownVars(ReceiverReceives)

-----------------------------------------------------------------------------
\* "Send clean DISCONNECT_NOTICE" (client/client.cpp:395): when the client
\* has gone, its notice is not left behind in the queue.
NoticeLeaves ==
    main = "closed" => \A p \in queue : ~(p.outbound /\ p.number = sent)

\* Leaving the loop always ends in the return of the function: the join
\* never waits for a receiver that waits for the main thread.
ExitEnds == main = "notifying" ~> main = "closed"
=============================================================================
