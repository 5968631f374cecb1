------------------------------ MODULE MCTables ------------------------------
(***************************************************************************)
(* The tables of a worker: socket slots, dispatch entries, bindings and    *)
(* timers.  A behaviour plays one scenario; the other components stay in   *)
(* their initial states.                                                   *)
(***************************************************************************)
EXTENDS Integers

CONSTANTS Null, AnyIp, o1, o2, m1, m2, f1, f2, e1, e2, s1, s2, s3, t1, t2, t3

VARIABLES
    scenario,
    slots, generations, freeIds, slotSk, readyRing, overflow, scan, burst, room, scanned, events, lives, handles,
    flowValue, flowAddress, endValue, writer, held, bound, reader, steady, seen,
    sk, bindings, shared, endpoints, flows, registry, op, packet,
    now, due, tick, place, cursor, nextTick, phase, at, target

\* Two slots, each reused until its generation wraps.
SlotTable == INSTANCE SocketSlots WITH
    Objs <- {m1, m2}, Capacity <- 2, GenCount <- 3, Bits <- {"read"}, Budgets <- {1, 2}, MaxLives <- 3,
    sk <- slotSk, phase <- burst, held <- handles

\* Two colliding connections with equal ports and no endpoints, or two
\* colliding endpoints and a connection.
FlowTable == INSTANCE RxDispatch WITH
    Flows <- {f1, f2}, Endpoints <- {e1, e2}, Owners <- {o1, o2}, Readers <- {"r"}, FlowSize <- 2, EndpointSize <- 1,
    Ports <- [f \in {f1, f2} |-> "p"], FlowStart <- [f \in {f1, f2} |-> 1], EndpointStart <- [e \in {e1, e2} |-> 0],
    Exact <- [f \in {f1, f2} |-> e1], Wildcard <- [f \in {f1, f2} |-> e2]
EndpointTable == INSTANCE RxDispatch WITH
    Flows <- {f1}, Endpoints <- {e1, e2}, Owners <- {o1, o2}, Readers <- {"r"}, FlowSize <- 1, EndpointSize <- 2,
    Ports <- [f \in {f1} |-> "p"], FlowStart <- [f \in {f1} |-> 0], EndpointStart <- [e \in {e1, e2} |-> 1],
    Exact <- [f \in {f1} |-> e1], Wildcard <- [f \in {f1} |-> e2]

\* Three sockets of one protocol on two owners.
Datagrams == INSTANCE SocketBind WITH
    Sockets <- {s1, s2, s3}, Owners <- {o1, o2}, Protocols <- {"udp"}, Ips <- {AnyIp, "ip"}, LocalIp <- "ip",
    Ports <- {1}, Ephemeral <- {}, Peers <- {}, MaxBinds <- 4
Streams == INSTANCE SocketBind WITH
    Sockets <- {s1, s2, s3}, Owners <- {o1, o2}, Protocols <- {"tcp"}, Ips <- {AnyIp, "ip"}, LocalIp <- "ip",
    Ports <- {1}, Ephemeral <- {1}, Peers <- {"p"}, MaxBinds <- 2

\* Three timers for an engine of two, three levels of two slots.
Wheel == INSTANCE TimerWheel WITH
    Timers <- {t1, t2, t3}, Limit <- 2, MaxCycle <- 5, Hz <- 3, PerSecond <- 2, Levels <- 3, Slots <- 2,
    Delays <- {0, 3, 12}, Unarmed <- Null

slotVars == <<slots, generations, freeIds, slotSk, readyRing, overflow, scan, burst, room, scanned, events, lives, handles>>
rxVars == <<flowValue, flowAddress, endValue, writer, held, bound, reader, steady, seen>>
bindVars == <<sk, bindings, shared, endpoints, flows, registry, op, packet>>
wheelVars == <<now, due, tick, place, cursor, nextTick, phase, at, target>>

Init ==
    /\ scenario \in {"slots", "flow table", "endpoint table", "datagrams", "streams", "timers"}
    /\ SlotTable!Init /\ Streams!Init /\ Wheel!Init /\ (scenario # "timers" => now = 0)
    /\ IF scenario = "flow table" THEN FlowTable!Init ELSE EndpointTable!Init

Next ==
    \/ /\ scenario = "slots" /\ SlotTable!Next
       /\ UNCHANGED <<scenario, rxVars, bindVars, wheelVars>>
    \/ /\ scenario = "flow table" /\ FlowTable!Next /\ UNCHANGED bound
       /\ UNCHANGED <<scenario, slotVars, bindVars, wheelVars>>
    \/ /\ scenario = "endpoint table" /\ EndpointTable!Next
       /\ UNCHANGED <<scenario, slotVars, bindVars, wheelVars>>
    \/ /\ scenario = "datagrams" /\ Datagrams!Next
       /\ UNCHANGED <<scenario, slotVars, rxVars, wheelVars>>
    \/ /\ scenario = "streams" /\ Streams!Next
       /\ UNCHANGED <<scenario, slotVars, rxVars, wheelVars>>
    \/ /\ scenario = "timers" /\ Wheel!Next
       /\ UNCHANGED <<scenario, slotVars, rxVars, bindVars>>

vars == <<scenario, slotVars, rxVars, bindVars, wheelVars>>
Spec == Init /\ [][Next]_vars

----------------------------------------------------------------------------
(* Properties *)

\* Slot numbers are given out and taken back exactly, and a handle kept by the
\* application never resolves to a later socket of its slot until the
\* generation comes round (socket_owner_adopt, owner_lookup, nsock retirement).
HandlesSafe ==
    scenario = "slots" => SlotTable!TypeOK /\ SlotTable!SlotsExact /\ SlotTable!StaleNeverResolves

\* A posted event is never lost to stale entries, a full ready ring, a partial
\* scan or a reused slot (socket_owner_ready_post, socket_owner_ready_burst).
\* An armed timer is in the bucket that the cursor reaches in time, the cached
\* boundary is never later than the first bucket in use, and milliseconds become
\* cycles without wrapping (wheel_link, wheel_next_tick, owner_timer_ms_to_cycles).
NothingLost ==
    /\ scenario = "slots" => SlotTable!NoLostEvent
    /\ scenario = "timers" => Wheel!TypeOK /\ Wheel!PlacedForCursor /\ Wheel!NextIsBound /\ Wheel!ConversionExact

\* What a lock-free lookup finds was registered while it ran, tables and
\* registrations agree, and an endpoint that stays registered is never missed
\* (rx_dispatch_register_*, rx_dispatch_unregister_*, rx_dispatch_classify).
LookupRight ==
    /\ scenario = "flow table" => /\ FlowTable!TypeOK /\ FlowTable!OneOwner
                                /\ FlowTable!TableMatches /\ FlowTable!HitWasRegistered
    /\ scenario = "endpoint table" => EndpointTable!TableMatches /\ EndpointTable!EndpointNeverMissed

\* Addresses are shared only by consent, and the reservations, the hashes of the
\* owners and the dispatch table agree on every error path of bind, listen,
\* connect and close (socket_bind.c, nsock_bind_local, tcp_connect, nsock_free).
BindingsAgree ==
    /\ scenario = "datagrams" => /\ Datagrams!NoConflict /\ Datagrams!ReservationsExact
                                 /\ Datagrams!EndpointsBacked /\ Datagrams!SelectsLatest
    /\ scenario = "streams" => /\ Streams!TypeOK /\ Streams!NoConflict /\ Streams!ReservationsExact /\ Streams!EndpointsBacked
                               /\ Streams!FlowUnique

\* A datagram reaches at most one socket: the latest one bound to exactly its
\* address, or one that still matches when binds and closes intervene
\* (nsock_udp_lookup, socket_bind_select_udp).
DatagramDelivered == Datagrams!DeliveredRight

\* The wheel is a timer service: nothing fires early, twice or after a cancel,
\* and a poll leaves no timer behind that was due (owner_timer.c).
WheelIsService == Wheel!ServiceSpec
===========================================================================
