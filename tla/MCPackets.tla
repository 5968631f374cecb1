----------------------------- MODULE MCPackets ------------------------------
(***************************************************************************)
(* The packet path: transmit scheduling and neighbours, UDP, and the rings *)
(* between workers.  A behaviour plays one scenario; the other components  *)
(* stay in their initial states.                                           *)
(***************************************************************************)
EXTENDS Integers

CONSTANTS Null

VARIABLES
    scenario,
    slot, dirty, parked, pend, posted, phase, budget, ahead, announced, gap, hasty,
    open, rxq, cur, off, sendq, outgoing, pool, nodes, unread, accepted, emitted, dropped, ousted, woken,
    free, pkt, in, out, held, owner, stop, running, released, heard, lostTo, arps, produced, sent

\* A datagram and a stream socket send to two neighbours through a cache of one.
Evicting == INSTANCE ArpTx WITH
    Ips <- {"a", "b"}, Macs <- {"m"}, Datagram <- {"u"}, Stream <- {"t"}, Local <- {}, Capacity <- 1, ReachableTtl <- 1,
    ProbeInterval <- 1, MaxRetries <- 1, FailedTtl <- 1, HashMayFail <- TRUE, MaxPending <- 2, DirtyBudget <- 1,
    heard <- announced
\* Two neighbours that change their addresses, two retries and room for both.
Probing == INSTANCE ArpTx WITH
    Ips <- {"a", "b"}, Macs <- {"m", "n"}, Datagram <- {"u"}, Stream <- {}, Local <- {}, Capacity <- 2, ReachableTtl <- 2,
    ProbeInterval <- 1, MaxRetries <- 2, FailedTtl <- 2, HashMayFail <- FALSE, MaxPending <- 1, DirtyBudget <- 1,
    heard <- announced
\* Two owner-local sockets whose users retry, through a cache of one.
Retried == INSTANCE ArpTx WITH
    Ips <- {"a", "b"}, Macs <- {"m"}, Datagram <- {}, Stream <- {}, Local <- {"k", "l"}, Capacity <- 1, ReachableTtl <- 2,
    ProbeInterval <- 1, MaxRetries <- 1, FailedTtl <- 1, HashMayFail <- TRUE, MaxPending <- 1, DirtyBudget <- 1,
    heard <- announced

\* A ring socket and an owner-local one; datagrams of three bytes are split at two.
Datagrams == INSTANCE Udp WITH
    Ring <- {"r"}, Local <- {"l"}, Mbufs <- 3, Nodes <- 1, RxLimit <- 2, TxLimit <- 2, OutLimit <- 1,
    PayloadLimit <- 2, MaxDatagrams <- 2, Lengths <- {0, 1, 3}, MaxSends <- 3, out <- outgoing, free <- pool

\* Two workers, one flow, and rings for two of three buffers; rings for one of
\* two buffers, which are used again for a second ARP frame.
Handoff == INSTANCE Runtime WITH
    Workers <- {0, 1}, Flows <- {"f"}, Mbufs <- {1, 2, 3}, RingSize <- 2, Burst <- 2, MaxArps <- 1, NumMod <- 3, None <- Null
Reused == INSTANCE Runtime WITH
    Workers <- {0, 1}, Flows <- {"f"}, Mbufs <- {1, 2}, RingSize <- 1, Burst <- 2, MaxArps <- 2, NumMod <- 3, None <- Null

arpVars == <<slot, dirty, parked, pend, posted, phase, budget, ahead, announced, gap, hasty>>
udpVars == <<open, rxq, cur, off, sendq, outgoing, pool, nodes, unread, accepted, emitted, dropped, ousted, woken>>
workerVars == <<free, pkt, in, out, held, owner, stop, running, released, heard, lostTo, arps, produced, sent>>

Init ==
    /\ scenario \in {"evicting", "probing", "retried", "datagrams", "workers", "reused"}
    /\ CASE scenario = "probing" -> Probing!Init
         [] scenario = "retried" -> Retried!Init
         [] OTHER -> Evicting!Init
    /\ Datagrams!Init
    /\ IF scenario = "reused" THEN Reused!Init ELSE Handoff!Init
    /\ scenario \notin {"workers", "reused"} => owner["f"] = 0

Next ==
    \/ scenario = "evicting" /\ Evicting!Next /\ UNCHANGED <<scenario, udpVars, workerVars>>
    \/ scenario = "probing" /\ Probing!Next /\ UNCHANGED <<scenario, udpVars, workerVars>>
    \/ scenario = "retried" /\ Retried!Next /\ UNCHANGED <<scenario, udpVars, workerVars>>
    \/ scenario = "datagrams" /\ Datagrams!Next /\ UNCHANGED <<scenario, arpVars, workerVars>>
    \/ scenario = "workers" /\ Handoff!Next /\ UNCHANGED <<scenario, arpVars, udpVars>>
    \/ scenario = "reused" /\ Reused!Next /\ UNCHANGED <<scenario, arpVars, udpVars>>

Spec == Init /\ [][Next]_<<scenario, arpVars, udpVars, workerVars>>

----------------------------------------------------------------------------
(* Properties *)

\* A socket with something to send is on the dirty FIFO or parked behind a
\* neighbour, and on one list only, also when its own flush marks it dirty before
\* it is parked; the user of an owner-local socket is told when to try again: no
\* flush, answer, retry or close drops or doubles it (nsock_tx_dirty_drain,
\* nsock_tx_arp_resolved, nsock_tx_arp_wait).
WorkScheduled ==
    /\ scenario = "evicting" => Evicting!TypeOK /\ Evicting!OneList /\ Evicting!WorkScheduled
    /\ scenario = "retried" => Retried!TypeOK /\ Retried!OneList /\ Retried!WorkScheduled

\* The cache hands out only the last address a neighbour announced, within its
\* lifetime, and no path asks faster than the probe interval for a neighbour that
\* has not answered, also through a cache that is too small.  (One that answered
\* and was evicted is asked again at once.)  arp_learn, arp_resolve, arp_maintain.
NeighboursRight ==
    /\ scenario = "evicting" => Evicting!CacheCurrent /\ Evicting!ProbeSpacing
    /\ scenario = "retried" => Retried!ProbeSpacing
    /\ scenario = "probing" => Probing!CacheCurrent /\ Probing!ProbeSpacing

\* Buffers and nodes are conserved, a short read loses no byte, and each byte of
\* an accepted send is queued, emitted or counted as dropped, with pools and
\* rings that run out half-way (udp_recvfrom, udp_sendto, udp_tx_flush), unless a
\* waiting sender took its place while it was being flushed.
DatagramsAccounted ==
    scenario = "datagrams" => /\ Datagrams!TypeOK /\ Datagrams!BuffersConserved /\ Datagrams!NodesConserved
                              /\ Datagrams!NoByteLost /\ Datagrams!TxAccounted

\* A packet buffer is in exactly one place through every hand-off, clone,
\* reassembly, drop and shutdown; ARP frames are answered once and learnt by every
\* worker or counted as lost; and a worker's output leaves in order and without
\* gaps, however few packets of a burst the NIC takes (stack_runtime_rx,
\* stack_runtime_tx_drain, ipv4_reassembly.c).
PacketsAccounted ==
    /\ scenario = "workers" => Handoff!TypeOK /\ Handoff!OnePlace /\ Handoff!ArpAccounted /\ Handoff!TxInOrder
    /\ scenario = "reused" => Reused!OnePlace /\ Reused!ArpAccounted
=============================================================================
