----------------------------- MODULE MCTcpConns -----------------------------
(***************************************************************************)
(* Connections and listeners.  A behaviour plays one scenario; the other   *)
(* component stays in its initial state.                                   *)
(***************************************************************************)
EXTENDS Integers

CONSTANTS None

VARIABLES scenario, ep, net, inc, born, wrote, lst, kid, uaf

\* Two bytes are sent to the passive side; orderly and timed closes.
Transfer == INSTANCE TcpConn WITH
    MaxData <- [a |-> 2, b |-> 0], Cwnd <- 2, Lingers <- {"off", "timed"}, SynRetries <- 1, DataRetries <- 1,
    MaxInc <- [a |-> 1, b |-> 1], Refusals <- FALSE
\* Two connections of one pair of addresses, refused, reset or closed.
Reopen == INSTANCE TcpConn WITH
    MaxData <- [a |-> 0, b |-> 0], Cwnd <- 1, Lingers <- {"off", "zero"}, SynRetries <- 0, DataRetries <- 0,
    MaxInc <- [a |-> 2, b |-> 2], Refusals <- TRUE
\* A close with data that the congestion window holds back.
Deferred == INSTANCE TcpConn WITH
    MaxData <- [a |-> 2, b |-> 0], Cwnd <- 1, Lingers <- {"off"}, SynRetries <- 1, DataRetries <- 1,
    MaxInc <- [a |-> 1, b |-> 1], Refusals <- FALSE

\* Two peers and three control blocks; the backlog may change while listening.
Listening == INSTANCE TcpListener WITH
    Listeners <- {"l"}, Kids <- {1, 2, 3}, Peers <- {"p", "q"}, Backlogs <- {0, 2}, Relisten <- TRUE,
    MaxRetries <- 1, MaxWaiters <- 2

connVars == <<ep, net, inc, born, wrote>>
listenVars == <<lst, kid, uaf>>
vars == <<scenario, connVars, listenVars>>

Init ==
    /\ scenario \in {"transfer", "reopen", "listening"}
    /\ IF scenario = "reopen" THEN Reopen!Init ELSE Transfer!Init
    /\ Listening!Init

Next ==
    \/ scenario = "transfer" /\ Transfer!Next /\ UNCHANGED <<scenario, listenVars>>
    \/ scenario = "reopen" /\ Reopen!Next /\ UNCHANGED <<scenario, listenVars>>
    \/ scenario = "listening" /\ Listening!Next /\ UNCHANGED <<scenario, connVars>>

Spec == Init /\ [][Next]_vars

DeferredSpec ==
    /\ scenario = "deferred" /\ Deferred!Init /\ Listening!Init
    /\ [][Deferred!Next /\ UNCHANGED <<scenario, listenVars>>]_vars

----------------------------------------------------------------------------
(* Properties *)

\* The two sides of a connection never disagree about what was delivered, end
\* of file means the whole stream, and no connection is made of segments of two
\* incarnations, over a network that loses, repeats and reorders
\* (tcp_state_syn_sent, tcp_state_syn_recv, tcp_receive_stream_range, tcp_apply_peer_eof).
StreamsAgree ==
    /\ scenario = "transfer" => Transfer!TypeOK /\ Transfer!Agreement /\ Transfer!EofComplete
    /\ scenario = "reopen" => Reopen!HandshakeSound

\* A connection ends for a reason: a side whose FIN was sent leaves its FIN states
\* in order only when the peer received everything (one whose FIN is still
\* deferred may leave too early, and is not covered), and a reset ends a
\* connection only when the peer has given it up (tcp_state_fin_wait_1, _closing,
\* _last_ack, tcp_rst_acceptable).
EndsJustified ==
    [][/\ scenario = "transfer" => Transfer!OrderlyClose
       /\ scenario = "reopen" => Reopen!ResetJustified]_vars

\* Backlog credit, accept queue and child list of a listener are exact on every
\* path that ends a handshake, so nothing leaks or outlives its listener
\* (tcp_state_listen, tcp_state_syn_recv, tcp_abort_stream, tcp_close_listener).
ListenerExact ==
    /\ Listening!TypeOK /\ Listening!PendingExact /\ Listening!QueueExact
    /\ Listening!NoOrphans /\ Listening!BacklogBounds

\* A parked ACCEPT never sits beside a connection it could take, and no control
\* block is used after it was freed, whichever of timer, reset, accept, close
\* and forced cleanup comes first (socket_owner_wake_accept, nsock_free).
AcceptSound == Listening!NoMissedAccept /\ Listening!NoUseAfterFree

\* Violated: "after the local FIN was ACKed" is when FIN_WAIT_2 is entered, so a
\* FIN still waiting behind unsent data is never left there (tcp_state_fin_wait_1).
FinAckedInFinWait2 == Deferred!FinAckedInFinWait2
=============================================================================
