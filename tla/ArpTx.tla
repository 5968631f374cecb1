------------------------------- MODULE ArpTx -------------------------------
(***************************************************************************)
(* TX scheduling and neighbour resolution of one owner core: the FIFO of   *)
(* sockets with runnable output (socket.c), the lists of sockets parked    *)
(* behind an unresolved neighbour, the ARP cache with its fixed capacity   *)
(* (arp.c), and the turn of the worker that drives them.                   *)
(*                                                                         *)
(* Time is kept as the age of each stamp.  The cache compares a stamp with *)
(* a time its caller read earlier in the turn; an entry stamped after that *)
(* reading (the set ahead) has an elapsed time of UINT64_MAX for it.       *)
(*                                                                         *)
(* A datagram or stream socket keeps what it sends on its own queue; an    *)
(* owner-local one keeps nothing, its user retries on a WRITE event.       *)
(***************************************************************************)
EXTENDS Integers, Sequences, FiniteSets, SequencesExt

CONSTANTS Ips, Macs, Datagram, Stream, Local, Null, Capacity, ReachableTtl,
          ProbeInterval, MaxRetries, FailedTtl, HashMayFail,
          MaxPending, DirtyBudget

\* What a configuration satisfies:
\*   /\ {Capacity, ReachableTtl, ProbeInterval, MaxRetries, FailedTtl, MaxPending, DirtyBudget}
\*        \subseteq Nat \ {0}
\*   /\ ProbeInterval <= FailedTtl /\ FailedTtl <= ReachableTtl
\*   /\ HashMayFail \in BOOLEAN

VARIABLES
    slot,    \* the entries of the cache, by index
    dirty,   \* the dirty FIFO
    parked,  \* sockets waiting for a neighbour, most recent first
    pend,    \* destinations of the segments queued on each open socket, or
             \* of the request an owner-local socket's user has still to send
    posted,  \* owner-local sockets with a WRITE event on the ready ring
    phase, budget, ahead,  \* the worker's turn
    heard, gap, hasty      \* history: last announcement, time since a request
                           \* not yet answered, neighbours asked too early

vars == <<slot, dirty, parked, pend, posted, phase, budget, ahead, heard, gap, hasty>>
turn == <<phase, budget>>

Sockets == Datagram \cup Stream \cup Local
\* The destination of a datagram whose address is already filled in.
Addressed == Null
Slots == 1..Capacity
Free == [ip |-> Null, st |-> "FREE", mac |-> Null, probes |-> 0, age |-> 0, idle |-> 0]
Older(a) == IF a < ReachableTtl THEN a + 1 ELSE a

Init ==
    /\ slot = [i \in Slots |-> Free]
    /\ dirty = <<>>
    /\ parked = [ip \in Ips |-> <<>>]
    /\ pend = [s \in Sockets |-> <<>>] /\ posted = {}
    /\ phase = "open" /\ budget = 0 /\ ahead = {}
    /\ heard = [ip \in Ips |-> [mac |-> Null, age |-> ReachableTtl]]
    /\ gap = [ip \in Ips |-> ReachableTtl]
    /\ hasty = {}

----------------------------------------------------------------------------
\* The two lists of a socket.

Waiting(p, s) == \E ip \in Ips : s \in ToSet(p[ip])
Queued(dq, s) == s \in ToSet(dq)

\* dirty_fifo_append: no effect on a socket that is on either list.
Append1(dq, p, s) == IF Queued(dq, s) \/ Waiting(p, s) THEN dq ELSE Append(dq, s)

Unlink(q, s) == SelectSeq(q, LAMBDA t : t # s)
UnparkAll(p, s) == [ip \in Ips |-> Unlink(p[ip], s)]

\* nsock_tx_arp_wait, the FIFO being dq: the socket leaves whichever list it is on.
\* Seeded fault: it is left on the FIFO.
ParkQueued(dq, s, ip) ==
    /\ parked' = [UnparkAll(parked, s) EXCEPT ![ip] = <<s>> \o @]
    /\ dirty' = dq
Park(dq, s, ip) ==
    /\ parked' = [UnparkAll(parked, s) EXCEPT ![ip] = <<s>> \o @]
    /\ dirty' = Unlink(dq, s)

\* nsock_tx_arp_resolved: the waiters of ip go to the FIFO in list order.
Woken(dq, p, ip) == FoldLeft(LAMBDA q, s : Append(q, s), dq, p[ip])
Unparked(p, ip) == [p EXCEPT ![ip] = <<>>]

----------------------------------------------------------------------------
\* The cache.

Entry(sl, ip) == {i \in Slots : sl[i].st # "FREE" /\ sl[i].ip = ip}
\* Elapsed time of entry i as the caller whose reading precedes the set a sees it.
Passed(sl, a, i, ttl) == i \in a \/ sl[i].age >= ttl
Claimable(sl, i) ==
    \/ sl[i].st = "FREE"
    \/ sl[i].st = "REACHABLE" /\ Passed(sl, {}, i, ReachableTtl)
    \/ sl[i].st = "FAILED" /\ Passed(sl, {}, i, FailedTtl)

\* The entry arp_allocate returns: the first free or expired one, else the
\* reachable one unused for longest, else none.
Allocate(sl) ==
    LET first == {i \in Slots : Claimable(sl, i) /\ \A j \in 1..(i - 1) : ~Claimable(sl, j)}
        reach == {i \in Slots : sl[i].st = "REACHABLE"}
        lru == {i \in reach : /\ \A j \in reach : sl[j].idle <= sl[i].idle
                              /\ \A j \in reach : j < i => sl[j].idle < sl[i].idle}
    IN IF first # {} THEN first ELSE lru

Fresh(ip) == [Free EXCEPT !.ip = ip, !.st = "INCOMPLETE"]

\* arp_probe on entry i; the request is built and queued or not.
Probe(e, sent) == [e EXCEPT !.age = 0, !.probes = IF sent THEN @ + 1 ELSE @]
MayProbe(e) == e.probes < MaxRetries

Asked(ip, sent) ==
    /\ gap' = IF sent THEN [gap EXCEPT ![ip] = 0] ELSE gap
    /\ hasty' = IF sent /\ gap[ip] < ProbeInterval THEN hasty \cup {ip} ELSE hasty
NotAsked == UNCHANGED <<gap, hasty>>

\* arp_create followed by arp_probe, in table sl.
CreateAndProbe(sl, ip) ==
    \/ /\ Allocate(sl) # {}
       /\ \E i \in Allocate(sl), sent \in BOOLEAN :
            /\ slot' = [sl EXCEPT ![i] = Probe(Fresh(ip), sent)]
            /\ ahead' = IF phase = "timers" THEN ahead \cup {i} ELSE ahead
            /\ Asked(ip, sent)
    \/ /\ Allocate(sl) = {}
       /\ slot' = sl /\ NotAsked /\ UNCHANGED ahead
    \/ /\ HashMayFail /\ Allocate(sl) # {}
       /\ \E i \in Allocate(sl) : slot' = [sl EXCEPT ![i] = Free]
       /\ NotAsked /\ UNCHANGED ahead

Stamp(i, e) ==
    /\ slot' = [slot EXCEPT ![i] = e]
    /\ ahead' = IF phase = "timers" THEN ahead \cup {i} ELSE ahead

\* Whether arp_resolve returns an address.
Resolved(ip) == \E i \in Entry(slot, ip) : slot[i].st = "REACHABLE" /\ ~Passed(slot, {}, i, ReachableTtl)

\* arp_resolve and what it does to the cache.
Resolve(ip) ==
    \/ Entry(slot, ip) = {} /\ CreateAndProbe(slot, ip)
    \/ \E i \in Entry(slot, ip) :
        LET e == slot[i] IN
        \/ /\ Resolved(ip)
           /\ slot' = [slot EXCEPT ![i].idle = 0]
           /\ NotAsked /\ UNCHANGED ahead
        \/ /\ e.st = "REACHABLE" /\ ~Resolved(ip)
           /\ CreateAndProbe([slot EXCEPT ![i] = Free], ip)
        \/ /\ e.st = "INCOMPLETE" /\ Passed(slot, {}, i, ProbeInterval)
           /\ IF MayProbe(e)
              THEN \E sent \in BOOLEAN : Stamp(i, Probe(e, sent)) /\ Asked(ip, sent)
              ELSE Stamp(i, [e EXCEPT !.st = "FAILED", !.age = 0]) /\ NotAsked
        \/ /\ e.st = "FAILED" /\ Passed(slot, {}, i, FailedTtl)
           /\ \E sent \in BOOLEAN :
                /\ Stamp(i, Probe([e EXCEPT !.st = "INCOMPLETE", !.probes = 0], sent))
                /\ Asked(ip, sent)
        \/ /\ \/ e.st = "INCOMPLETE" /\ ~Passed(slot, {}, i, ProbeInterval)
              \/ e.st = "FAILED" /\ ~Passed(slot, {}, i, FailedTtl)
           /\ NotAsked /\ UNCHANGED <<slot, ahead>>

----------------------------------------------------------------------------
\* Operations of the sockets and of the peer.

\* udp_sendto / tcp_enqueue_fragment: queue a segment, mark the socket dirty.
\* A stream has one peer.
Send(s, ip) ==
    /\ s \notin Local /\ phase \in {"open", "timers", "reactor"}
    /\ Len(pend[s]) < MaxPending
    /\ s \in Stream => \A k \in DOMAIN pend[s] : pend[s][k] = ip
    /\ pend' = [pend EXCEPT ![s] = Append(@, ip)]
    /\ dirty' = Append1(dirty, parked, s)
    /\ UNCHANGED <<slot, parked, posted, turn, ahead, heard, gap, hasty>>

\* udp_sendto_local: a neighbour without an address parks the socket and the
\* caller keeps the request.
Submit(s, ip) ==
    /\ Resolve(ip)
    /\ IF Resolved(ip)
       THEN pend' = [pend EXCEPT ![s] = <<>>] /\ UNCHANGED <<dirty, parked>>
       ELSE pend' = [pend EXCEPT ![s] = <<ip>>] /\ Park(dirty, s, ip)

\* tg_flow_start_udp: the first attempt, from a timer or from the reactor.
SendLocal(s, ip) ==
    /\ s \in Local /\ phase \in {"timers", "reactor"} /\ pend[s] = <<>>
    /\ Submit(s, ip)
    /\ UNCHANGED <<posted, turn, heard>>

\* The reactor takes the WRITE event and sends again (tg_flow_send_udp).
RetryLocal(s) ==
    /\ phase = "reactor" /\ s \in posted /\ posted' = posted \ {s}
    /\ pend[s] # <<>> /\ Submit(s, Head(pend[s]))
    /\ UNCHANGED <<turn, heard>>

\* nsock_free of a socket, which is then used for a new one.
Close(s) ==
    /\ phase \in {"open", "reactor"}
    /\ pend' = [pend EXCEPT ![s] = <<>>]
    /\ dirty' = Unlink(dirty, s)
    /\ parked' = UnparkAll(parked, s)
    /\ posted' = posted \ {s}
    /\ UNCHANGED <<slot, turn, ahead, heard, gap, hasty>>

\* Seeded fault: an entry that is filled in keeps its old stamp.
LearntAged(ip, mac) ==
    [Free EXCEPT !.ip = ip, !.st = "REACHABLE", !.mac = mac,
                 !.age = IF Entry(slot, ip) = {} THEN 0 ELSE slot[CHOOSE i \in Entry(slot, ip) : TRUE].age]
Learnt(ip, mac) == [Free EXCEPT !.ip = ip, !.st = "REACHABLE", !.mac = mac]

\* Whether arp_table_learn_at only refreshes the entry.
Refreshes(ip, mac) == \E i \in Entry(slot, ip) : slot[i].st = "REACHABLE" /\ slot[i].mac = mac

\* arp_table_learn_at, from an ARP packet or the source of an IPv4 packet.
Learn(ip, mac) ==
    /\ phase = "open"
    /\ LET known == Entry(slot, ip)
           at == IF known # {} THEN known ELSE Allocate(slot)
       IN \/ /\ at # {}
             /\ \E i \in at : slot' = [slot EXCEPT ![i] = Learnt(ip, mac)]
             /\ IF Refreshes(ip, mac)
                THEN UNCHANGED <<dirty, parked>>
                ELSE dirty' = Woken(dirty, parked, ip) /\ parked' = Unparked(parked, ip)
             /\ heard' = [heard EXCEPT ![ip] = [mac |-> mac, age |-> 0]]
             /\ gap' = [gap EXCEPT ![ip] = ReachableTtl]
          \/ /\ known = {} /\ (at = {} \/ HashMayFail)
             /\ slot' = IF at = {} THEN slot ELSE [i \in Slots |-> IF i \in at THEN Free ELSE slot[i]]
             /\ UNCHANGED <<dirty, parked, heard, gap>>
    /\ UNCHANGED <<pend, posted, turn, ahead, hasty>>

\* arp_debug_sweep and the reset of an aborted stream (tcp_try_send_abort_reset)
\* resolve without a socket that waits.
ResolveOnly(ip) ==
    /\ phase \in {"open", "timers", "reactor"}
    /\ Resolve(ip)
    /\ UNCHANGED <<dirty, parked, pend, posted, turn, heard>>

----------------------------------------------------------------------------
\* The worker's turn: commands and packets, then timers, cache maintenance,
\* the reactor, and the drain of the dirty FIFO.

\* The reading of the clock that maintenance will use.
BeginTimers ==
    /\ phase = "open" /\ phase' = "timers" /\ ahead' = {}
    /\ UNCHANGED <<slot, dirty, parked, pend, posted, budget, heard, gap, hasty>>

Overdue(i) ==
    \/ slot[i].st = "REACHABLE" /\ Passed(slot, ahead, i, ReachableTtl)
    \/ slot[i].st = "FAILED" /\ Passed(slot, ahead, i, FailedTtl)
\* Entries whose waiters arp_maintain releases.
Released(i) ==
    \/ slot[i].st = "INCOMPLETE" /\ Passed(slot, ahead, i, ProbeInterval)
    \/ slot[i].st = "FAILED" /\ Passed(slot, ahead, i, FailedTtl)

\* Their neighbours in index order.
ReleasedIps == [k \in 1..Cardinality({i \in Slots : Released(i)}) |->
                  slot[CHOOSE i \in Slots : /\ Released(i)
                                            /\ Cardinality({j \in 1..i : Released(j)}) = k].ip]

\* arp_maintain.
Maintain ==
    /\ phase = "timers" /\ phase' = "reactor"
    /\ slot' = [i \in Slots |-> IF Overdue(i) THEN Free ELSE slot[i]]
    /\ dirty' = FoldLeft(LAMBDA q, ip : Woken(q, parked, ip), dirty, ReleasedIps)
    /\ parked' = [ip \in Ips |-> IF ip \in ToSet(ReleasedIps) THEN <<>> ELSE parked[ip]]
    /\ ahead' = {}
    /\ UNCHANGED <<pend, posted, budget, heard, gap, hasty>>

\* A turn within the maintenance interval of the last one.
SkipMaintain ==
    /\ phase = "timers" /\ phase' = "reactor" /\ ahead' = {}
    /\ UNCHANGED <<slot, dirty, parked, pend, posted, budget, heard, gap, hasty>>

BeginDrain ==
    /\ phase = "reactor" /\ phase' = "drain" /\ budget' = DirtyBudget
    /\ UNCHANGED <<slot, dirty, parked, pend, posted, ahead, heard, gap, hasty>>

\* The drain's part after a flush that left work.
Requeue(dq, s, left) == IF left = <<>> THEN dq ELSE Append1(dq, parked, s)

\* What the parked SENDTO at the head of the wait queue adds when a datagram
\* leaves a full queue (socket_owner_wake_send): nothing when there is none.
Wakes(s) == {<<>>} \cup IF Len(pend[s]) = MaxPending THEN {<<ip>> : ip \in Ips} ELSE {}

\* udp_tx_flush of the first datagram d, the socket being off the FIFO dq.  The
\* freed place is offered to a parked sender, who marks the socket dirty again,
\* before the datagram is known to leave; it goes back to the tail if there is
\* room and is freed if not.
FlushDatagram(s, dq) ==
    LET d == Head(pend[s])
        known == d = Addressed \/ Resolved(d)
    IN /\ IF d = Addressed THEN NotAsked /\ UNCHANGED <<slot, ahead>> ELSE Resolve(d)
       /\ \E more \in Wakes(s) :
            LET rest == Tail(pend[s]) \o more
                marked == IF more = <<>> THEN dq ELSE Append1(dq, parked, s)
                room == Len(rest) < MaxPending
            IN \/ /\ ~known /\ room
                  /\ pend' = [pend EXCEPT ![s] = Append(rest, d)]
                  /\ Park(marked, s, d)
               \/ /\ known /\ room
                  /\ pend' = [pend EXCEPT ![s] = Append(rest, Addressed)]
                  /\ dirty' = Requeue(marked, s, Append(rest, Addressed))
                  /\ UNCHANGED parked
               \/ /\ ~room
                  /\ pend' = [pend EXCEPT ![s] = rest]
                  /\ dirty' = marked /\ UNCHANGED parked
               \/ /\ known
                  /\ pend' = [pend EXCEPT ![s] = rest]
                  /\ dirty' = Requeue(marked, s, rest) /\ UNCHANGED parked
       /\ UNCHANGED posted

\* tcp_tx_flush: all segments, in order; one that cannot leave goes back to the
\* head.  The last may be an ACK or a FIN that the flush itself queues, which
\* marks the socket dirty; the stream may also end here (tcp_abort_stream).
FlushStream(s, dq) ==
    /\ Resolve(Head(pend[s]))
    /\ \E last \in BOOLEAN :
         LET marked == IF last THEN Append1(dq, parked, s) ELSE dq
             refused == {SubSeq(pend[s], k, Len(pend[s])) :
                           k \in IF last THEN {Len(pend[s])} ELSE DOMAIN pend[s]}
         IN \/ /\ ~Resolved(Head(pend[s])) /\ (last => Len(pend[s]) = 1)
               /\ Park(marked, s, Head(pend[s]))
               /\ UNCHANGED pend
            \/ /\ Resolved(Head(pend[s]))
               /\ \E left \in refused \cup {<<>>} :
                    /\ pend' = [pend EXCEPT ![s] = left]
                    /\ dirty' = Requeue(marked, s, left)
               /\ UNCHANGED parked
            \/ /\ Resolved(Head(pend[s]))
               /\ pend' = [pend EXCEPT ![s] = <<>>]
               /\ dirty' = Unlink(marked, s) /\ UNCHANGED parked
    /\ UNCHANGED posted

\* udp_tx_flush of an owner-local socket: its user is told to try again.
FlushLocal(s, dq) ==
    /\ posted' = posted \cup {s} /\ dirty' = dq
    /\ NotAsked /\ UNCHANGED <<slot, parked, pend, ahead>>

\* One iteration of nsock_tx_dirty_drain.
Drain ==
    /\ phase = "drain" /\ budget > 0 /\ dirty # <<>>
    /\ budget' = budget - 1
    /\ LET s == Head(dirty) IN
       \/ /\ s \notin Local /\ pend[s] = <<>>
          /\ dirty' = Tail(dirty)
          /\ NotAsked /\ UNCHANGED <<slot, parked, pend, posted, ahead>>
       \/ s \in Datagram /\ pend[s] # <<>> /\ FlushDatagram(s, Tail(dirty))
       \/ s \in Stream /\ pend[s] # <<>> /\ FlushStream(s, Tail(dirty))
       \/ s \in Local /\ FlushLocal(s, Tail(dirty))
    /\ UNCHANGED <<phase, heard>>

\* The turn ends; the clock moves on.
EndTurn ==
    /\ phase = "drain" /\ (budget = 0 \/ dirty = <<>>)
    /\ phase' = "open" /\ budget' = 0
    /\ slot' = [i \in Slots |-> IF slot[i].st = "FREE" THEN Free
                  ELSE [slot[i] EXCEPT !.age = Older(@), !.idle = Older(@)]]
    /\ heard' = [ip \in Ips |-> [heard[ip] EXCEPT !.age = Older(@)]]
    /\ gap' = [ip \in Ips |-> Older(gap[ip])]
    /\ UNCHANGED <<dirty, parked, pend, posted, ahead, hasty>>

Next ==
    \/ \E s \in Sockets, ip \in Ips : Send(s, ip)
    \/ \E s \in Sockets, ip \in Ips : SendLocal(s, ip)
    \/ \E s \in Sockets : RetryLocal(s) \/ Close(s)
    \/ \E ip \in Ips, mac \in Macs : Learn(ip, mac)
    \/ \E ip \in Ips : ResolveOnly(ip)
    \/ BeginTimers \/ Maintain \/ SkipMaintain \/ BeginDrain \/ Drain \/ EndTurn

Spec == Init /\ [][Next]_vars

----------------------------------------------------------------------------
\* Properties

TypeOK ==
    /\ slot \in [Slots -> [ip : Ips \cup {Null}, st : {"FREE", "INCOMPLETE", "REACHABLE", "FAILED"},
                           mac : Macs \cup {Null}, probes : 0..MaxRetries,
                           age : 0..ReachableTtl, idle : 0..ReachableTtl]]
    /\ dirty \in Seq(Sockets) /\ parked \in [Ips -> Seq(Sockets)]
    /\ pend \in [Sockets -> Seq(Ips \cup {Addressed})] /\ posted \subseteq Local
    /\ phase \in {"open", "timers", "reactor", "drain"} /\ budget \in 0..DirtyBudget
    /\ ahead \subseteq Slots /\ hasty \subseteq Ips
    /\ heard \in [Ips -> [mac : Macs \cup {Null}, age : 0..ReachableTtl]]
    /\ gap \in [Ips -> 0..ReachableTtl]

\* A socket is on at most one list and at most once: dirty_prev and dirty_next
\* are shared by the dirty FIFO and the ARP wait lists.
OneList ==
    \A s \in Sockets :
        Cardinality({k \in DOMAIN dirty : dirty[k] = s})
          + Cardinality({<<ip, k>> \in Ips \X (1..Cardinality(Sockets)) :
                           k \in DOMAIN parked[ip] /\ parked[ip][k] = s}) <= 1

\* A socket that has something to send is on the FIFO or parked, or its user is
\* about to be told: no flush, wakeup or retry drops it (nsock_tx_dirty_drain,
\* nsock_tx_arp_resolved, udp_tx_flush).
WorkScheduled ==
    \A s \in Sockets : pend[s] # <<>> => Queued(dirty, s) \/ Waiting(parked, s) \/ s \in posted

\* Every address the cache would hand out is the last one the neighbour
\* announced, and was announced less than the reachable lifetime ago; no
\* neighbour has two entries.
CacheCurrent ==
    /\ \A ip \in Ips : Cardinality(Entry(slot, ip)) <= 1
    /\ \A i \in Slots : slot[i].st = "REACHABLE" =>
         /\ heard[slot[i].ip].mac = slot[i].mac
         /\ heard[slot[i].ip].age = slot[i].age

\* Requests for a neighbour that has not answered are at least a probe interval
\* apart, however its entry is claimed, fails or expires (arp_resolve).
ProbeSpacing == hasty = {}

=============================================================================
