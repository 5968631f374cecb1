------------------------------- MODULE MCLive -------------------------------
(***************************************************************************)
(* What must eventually happen, under the fairness the scheduling of the   *)
(* code justifies.  A behaviour plays one scenario; the other components   *)
(* stay in their initial states.                                           *)
(***************************************************************************)
EXTENDS Integers, Sequences, TLC

CONSTANTS nobody, Null, connect, write, s1, shard1, shard2, worker3

VARIABLES
    scenario,
    pc, refs, state, outcome, cancelError, claimed, expired, ring, burst, active, cancelList, controlList, batch,
    deferred, accepting, opc, budget, sock, waitq, resultSock,
    s, got, edge, wire,
    ep, net, inc, born, wrote,
    lst, kid, uaf,
    flow, free, map, idle, conn, sched, flowSock, ready, tally,
    biz, freeBiz, queue, flight, idleConns, count, results,
    shard, remaining, stop, main

\* A connect with a timeout and a writer on the same socket.
Requests == INSTANCE SocketOwner WITH
    Cmds <- {connect, write}, Socks <- {s1}, Opened <- {s1}, Kind <- connect :> "CONNECT" @@ write :> "SEND",
    Target <- connect :> s1 @@ write :> s1, NonBlock <- {}, Timed <- {connect}, RingSize <- 1, Burst <- 1

\* A peer whose window of two bytes shuts unless it opens it again.
Sender == INSTANCE TcpSend WITH
    Total <- 4, Mss <- 1, HiWat <- 4, FirstWnd <- 2, Cwnds <- {1, 3}, DupThresh <- 2, ScoreMax <- 3,
    MaxRetries <- 1, SackOn <- TRUE, Nodelay <- FALSE, Status <- "ESTABLISHED", SackCap <- 2, MaxWire <- 1

Connection == INSTANCE TcpConn WITH
    MaxData <- [a |-> 1, b |-> 0], Cwnd <- 1, Lingers <- {"off", "timed"}, SynRetries <- 1, DataRetries <- 1,
    MaxInc <- [a |-> 1, b |-> 1], Refusals <- FALSE, None <- nobody

Listening == INSTANCE TcpListener WITH
    Listeners <- {"l"}, Kids <- {1, 2}, Peers <- {"p", "q"}, Backlogs <- {0, 2}, Relisten <- FALSE,
    MaxRetries <- 1, MaxWaiters <- 1, None <- nobody

Transactions == INSTANCE Flow WITH
    Flows <- {"f"}, Ids <- {1}, Classes <- {"tcp"}, MaxConns <- 1, MaxRequests <- 0, MaxActive <- 1,
    MaxStarts <- 2, ReqLen <- 1, MaxRx <- 1, Pieces <- {"keep"}, sock <- flowSock, None <- nobody

Step(k, n, t) == [kind |-> k, next |-> n, yes |-> n, no |-> n, to |-> t]
Business == INSTANCE Workflow WITH
    Biz <- {"b"}, Conns <- {1, 2}, MaxConns <- 2, MaxAdmits <- 2,
    Plan <- << Step("think", 2, "r"), Step("http", 3, "s") >>,
    free <- freeBiz, idle <- idleConns, tally <- results, None <- nobody

Run == INSTANCE Drain WITH
    Workers <- {shard1, shard2, worker3}, Scheduling <- {shard1, shard2}, MaxStarts <- 1

requestVars == <<pc, refs, state, outcome, cancelError, claimed, expired, ring, burst, active, cancelList,
                 controlList, batch, deferred, accepting, opc, budget, sock, waitq, resultSock>>
sendVars == <<s, got, edge, wire>>
connVars == <<ep, net, inc, born, wrote>>
listenVars == <<lst, kid, uaf>>
flowVars == <<flow, free, map, idle, conn, sched, flowSock, ready, tally>>
workVars == <<biz, freeBiz, queue, flight, idleConns, count, results>>
drainVars == <<shard, remaining, stop, main>>
vars == <<scenario, requestVars, sendVars, connVars, listenVars, flowVars, workVars, drainVars>>

Init ==
    /\ scenario \in {"requests", "sender", "connection", "listening", "transactions", "business", "run"}
    /\ Requests!Init /\ Sender!Init /\ Connection!Init /\ Listening!Init /\ Transactions!Init
    /\ Business!Init /\ Run!Init
    /\ scenario # "sender" => s.cwnd = 1

Next ==
    \/ /\ scenario = "requests" /\ Requests!Next
       /\ UNCHANGED <<scenario, sendVars, connVars, listenVars, flowVars, workVars, drainVars>>
    \/ /\ scenario = "sender" /\ Sender!Next
       /\ UNCHANGED <<scenario, requestVars, connVars, listenVars, flowVars, workVars, drainVars>>
    \/ /\ scenario = "connection" /\ Connection!Next
       /\ UNCHANGED <<scenario, requestVars, sendVars, listenVars, flowVars, workVars, drainVars>>
    \/ /\ scenario = "listening" /\ Listening!Next
       /\ UNCHANGED <<scenario, requestVars, sendVars, connVars, flowVars, workVars, drainVars>>
    \/ /\ scenario = "transactions" /\ Transactions!Next
       /\ UNCHANGED <<scenario, requestVars, sendVars, connVars, listenVars, workVars, drainVars>>
    \/ /\ scenario = "business" /\ Business!Next
       /\ UNCHANGED <<scenario, requestVars, sendVars, connVars, listenVars, flowVars, drainVars>>
    \/ /\ scenario = "run" /\ Run!Next
       /\ UNCHANGED <<scenario, requestVars, sendVars, connVars, listenVars, flowVars, workVars>>

\* The owner core runs its loop for ever, a thread inside socket_owner_call or
\* publishing a result keeps running, and clocks advance. Nothing obliges a
\* thread to call, to be cancelled or to stop the owner; no packet need arrive.
RequestsFair ==
    /\ WF_requestVars(scenario = "requests" /\ Requests!OwnerTurn)
    /\ WF_requestVars(scenario = "requests" /\ (Requests!DrainStep \/ Requests!DrainNotification \/ Requests!ShutdownEnds))
    /\ \A c \in {connect, write} :
         /\ WF_requestVars(scenario = "requests" /\ Requests!DeadlinePasses(c))
         /\ WF_requestVars(scenario = "requests" /\ (\/ Requests!Submit(c) \/ Requests!WakeSubmitter(c)
                                              \/ Requests!WaitExpires(c) \/ Requests!NotifyCancel(c)))
         /\ WF_requestVars(scenario = "requests" /\ (Requests!Return(c) \/ Requests!Release(c) \/ Requests!ResultRelease(c)))

\* Flushes and timers of the worker's turn, and the writer; nothing of the
\* network or the peer.
SenderFair ==
    /\ WF_sendVars(scenario = "sender" /\ Sender!FlushRecovery) /\ WF_sendVars(scenario = "sender" /\ Sender!FlushNew)
    /\ WF_sendVars(scenario = "sender" /\ Sender!FlushIdle) /\ WF_sendVars(scenario = "sender" /\ Sender!Timeout)
    /\ WF_sendVars(scenario = "sender" /\ \E n \in 1..4 : Sender!Write(n))
ConnectionsFair ==
    /\ \A e \in {"a", "b"} : /\ WF_connVars(scenario = "connection" /\ Connection!FlushData(e))
                             /\ WF_connVars(scenario = "connection" /\ Connection!FlushFin(e))
                             /\ WF_connVars(scenario = "connection" /\ Connection!Timer(e))
    /\ \A k \in {1, 2} : WF_listenVars(scenario = "listening" /\ Listening!SynTimer(k))

\* Timers fire, ticks come, workers take turns and main waits for them; nothing
\* is assumed about servers.
GeneratorFair ==
    /\ WF_flowVars(scenario = "transactions" /\ Transactions!TimerFire("f"))
    /\ WF_flowVars(scenario = "transactions" /\ Transactions!Expire("f"))
    /\ WF_workVars(scenario = "business" /\ Business!Tick)
    /\ WF_workVars(scenario = "business" /\ Business!BizDue("b")) /\ WF_workVars(scenario = "business" /\ Business!TimeoutCb("b"))
    /\ \A w \in {shard1, shard2, worker3} :
         /\ WF_drainVars(scenario = "run" /\ Run!FlowEnds(w)) /\ WF_drainVars(scenario = "run" /\ Run!DrainTimer(w))
         /\ WF_drainVars(scenario = "run" /\ Run!Tick(w, FALSE)) /\ WF_drainVars(scenario = "run" /\ Run!Tick(w, TRUE))
         /\ WF_drainVars(scenario = "run" /\ Run!RequestStop(w)) /\ WF_drainVars(scenario = "run" /\ Run!WorkerExit(w))
    /\ WF_drainVars(scenario = "run" /\ Run!MainStops) /\ WF_drainVars(scenario = "run" /\ Run!MainJoins)

Spec ==
    /\ Init /\ [][Next]_vars
    /\ RequestsFair /\ SenderFair /\ ConnectionsFair /\ GeneratorFair

----------------------------------------------------------------------------
(* Properties *)

\* What an application or a peer waits for in the socket layer: room in the
\* ring, the answer to a request with a timeout, the memory of a request its
\* caller has left; bytes that are not acknowledged, unless the peer has shut its
\* window and has nothing left to acknowledge; a closed connection that is not
\* reclaimed; a half-open child (one of them: children are interchangeable).
SocketWaits ==
    \/ /\ scenario = "requests"
       /\ \/ \E c \in {connect, write} : \/ pc[c] \in {"submit", "sleep"}
                                         \/ pc[c] = "gone" /\ refs[c] # 0
          \/ pc[connect] \in {"wait", "expiring", "cancelling"}
    \/ scenario = "sender" /\ s.alive /\ s.una # 4 /\ ~(s.una = s.nxt /\ s.wnd = 0)
    \/ scenario = "connection" /\ \E e \in {"a", "b"} : ep[e].closed /\ ep[e].st # "NONE"
    \/ scenario = "listening" /\ kid[1].st = "SYN_RECV"

\* Nothing in the socket layer waits for ever, whatever is lost and whether or not
\* the peer answers: a submitter gets into the ring, a timed request returns,
\* data is acknowledged or the connection aborted, closed connections and
\* half-open children are reclaimed. The exception is a peer that shuts its
\* window and whose update is lost: there is no persist timer, and its sender
\* waits for as long as the peer is silent (command_release_caller,
\* tcp_data_timer_cb, the close deadlines of tcp.c, tcp_synack_timer_cb).
SocketsSettle == SocketWaits ~> ~SocketWaits

\* What a run waits for: a transaction or a business without a result, a flow out
\* of its pool after the schedule, workers and main.
RunWaits ==
    \/ /\ scenario = "transactions"
       /\ flow["f"].st \in Transactions!InTransaction \/ (sched.stopped /\ free = <<>>)
    \/ scenario = "business" /\ biz["b"].active
    \/ scenario = "run" /\ main # "done"

\* No run lasts for ever: every transaction and every business ends, flows go
\* back to their pool after the schedule, and the last shard to drain stops
\* the workers, whatever servers do (flow.c, workflow.c, main_tg.c).
RunsEnd == RunWaits ~> ~RunWaits
=============================================================================
