# SnowTG in TLA+

SnowTG is a userspace IPv4 stack on DPDK (`pro-stack/`) and an open-loop
traffic generator built on it (`traffic-gen/`). Each packet worker owns its
sockets, timers and flows exclusively; application threads reach a socket only
by sending its owner a request. This directory holds TLA+ modules translated
from the source, TLC configurations that check them on small instances, and
TLAPS proofs that hold for every instance.

## The system's parts

| part | state | what is hard about it | modules |
|---|---|---|---|
| socket command channel (`socket_owner.c`) | requests with reference counts, two bounded rings, active/cancel/control lists, wait queues | threads, owner, timers and shutdown interleave on one reference-counted object | SocketOwner, RequestService |
| socket slots, ready queue (`socket_owner.c`) | slot table with generations, ready ring and mask | slot reuse, ring overflow | SocketSlots |
| descriptors and nepoll (`socket.c`, `nepoll.c`) | descriptor table, poll sets | descriptor reuse, lost wake-ups | PublicFd, Nepoll |
| bind reservations (`socket_bind.c`, `socket.c`) | reservations, owner hashes, dispatch entries | three tables kept equal on error paths | SocketBind |
| RX dispatch (`rx_dispatch.c`) | hash tables with lock-free readers | tombstones under concurrent lookups | RxDispatch |
| owner timers (`owner_timer.c`) | hierarchical wheel | cascades, callbacks that rearm | TimerWheel, TimerService |
| TX scheduling and ARP (`socket.c`, `arp.c`) | dirty FIFO, wait lists, cache | a full cache, lost answers, closes | ArpTx |
| UDP (`udp*.c`) | receive and send queues, pools | half-done sends, short reads | Udp |
| worker runtime (`stack_runtime.c`, `ipv4_reassembly.c`) | packet rings, fragments | hand-off between cores, back-pressure | Runtime |
| TCP (`tcp*.c`, `rbtree.c`) | control blocks, send buffer, out-of-order queue and its tree, scoreboard, listeners | loss, reordering, simultaneous close, wrap-around | TcpConn, TcpReceive, TcpSend, TcpListener, OfoIndex |
| scheduler, flows, workflows (`traffic-gen/core`) | arrival plan, flow pool, idle connections, business records | timeouts racing answers, connection reuse | Scheduler, Flow, Workflow |
| end of a run (`main_tg.c`) | shards, stop flag | who stops whom, once | Drain |
| statistics (`stats.c`, `latency.c`, `main_tg.c`) | counters, histograms, snapshot channel | lock-free hand-over, bucket edges, dropped snapshots | StatsChannel, LossyQueue, Report, Latency |
| protocol clients (`proto/*`) | incremental parsers | messages split anywhere | HttpReply, RespReply, DnsReply |
| capacity search (`traffic-gen/snowtg_capacity.py`) | bounds, saved result | interruption, reuse of old results | Capacity |

`PROJECT.json` gives the source lines of every definition.

## Modules

A module's header says which code it models; the comment at a variable names
the field it stands for; an action is named for its function or handler. What
follows is the correspondence that is not evident from the names, and what each
module abstracts from.

**SocketOwner** (`socket_owner.c`). One request is one clone of
`struct sock_cmd`: `refs`, `state`, `cancelError`, `claimed` are its fields,
`outcome` joins `done`, `result` and `error`. `ring` is `close_ring` and
`command_ring`; `burst` the commands a turn has dequeued; `batch` and `deferred`
the local lists of `command_controls`; `waitq` the receive, send and accept
queues and `connect_waiter`. `pc` and `opc` are the places where callers and the
owner can be interrupted. `Clone` to `ResultRelease` follow `socket_owner_call`
and its cleanup handlers, one step per critical section; `BeginTurn` to
`EndTurn` follow `socket_owner_process_commands`; `Process*` are the cases of
`owner_process_one`, the transport's answer being a choice; `CommandTimeout`,
`TransportProgress`, `ConnectSettles`, `StreamAborts` are what the rest of the
owner's loop does to requests; `ShutdownBegins` to `ShutdownEnds` follow
`socket_owner_shutdown_local`. Commands that only change options or addresses
are one kind, CONTROL; RECVFROM is RECV, SENDTO is SEND; handles are never
reused here (SocketSlots has the reuse); a request is issued at most once.

**RequestService** is what the channel promises: an accepted request is answered
once, an answer never changes, memory is reclaimed once and after the answer.

**SocketSlots**. Slots, generations, the ready ring, its overflow flag and the
scan, and the reactor that handles a reported event. A burst whose budget is
filled from the ring postpones the scan. One ring entry per live socket holds
only while no generation has come round; the properties say so.

**PublicFd, Nepoll** (`socket.c`, `nepoll.c`). Every access to the descriptor
table under its lock is a step; a transfer is one step that may change
readiness, and `UsedUp` is readiness that goes without a refresh (a datagram put
back, a blocking accept that drops reset children), so the table may show more
than there is, never less. `Abort` is `tcp_abort_stream` of a closed socket; an
`nclose` that fails with ENOBUFS aborts and leaves the entry. `fd_resolve` asks
only whether an entry is used; threads of the model call with numbers the
application was given, so a call on a number that is still being published is
not explored. A waiter's 10 ms futex timeout may occur and is given no fairness,
so nothing relies on it.

**SocketBind**. Reservations, the hashes of the owners and the dispatch entries,
for bind, listen, connect, accept and close with their error paths. A full table
is a nondeterministic failure; each socket object is used once.
`DeliveredRight` excepts a datagram whose tag is overtaken by a bind or close.

**RxDispatch**. `flowValue` and `flowAddress` are the two words of a slot; the
stores of a registration and the loads of `rx_dispatch_classify` are single
steps, sequentially consistent. Hash functions are constants, so an instance
can make all keys collide. `steady` and `seen` record what was registered during
a lookup.

**TimerWheel, TimerService**. Ticks, levels and cascades of the wheel; callbacks
are the `Arm` and `Cancel` steps between two `Fire` steps. The rte backend is
the abstract service itself (rte_timer is external).

**ArpTx**. The clock is replaced by ages; `ahead` marks stamps newer than the
reading that maintenance uses. A flush of a socket is one step, with all it
does to the socket's own place: a parked sender woken inside it, or an ACK or FIN
it queues, marks the socket dirty again before it is parked. `Local` sockets keep
no packet: a send to an unresolved neighbour parks the socket, the flush after
the answer posts a WRITE event (`posted`), and the reactor sends again.

**Udp**. Datagrams are lengths; neighbour resolution is a choice. `TxFlush`
offers the place of the datagram to a parked sender before it puts the datagram
back, as `udp_tx_flush` does; `ousted` counts the bytes freed when the place was
taken and `woken` the sockets where a sender was woken in between.

**Runtime**. Bursts are handled packet by packet; the routing answer may change
while packets are on rings; the fragment table is external and a packet has two
fragments.

**TcpConn**. Two endpoints over a network that keeps every segment, so segments
are lost, repeated and reordered. Data segments have one byte, the congestion
window is constant, a passive connection is accepted at once; failures to arm a
timer are left out.

**TcpReceive, OfoIndex**. Bytes are positions in the peer's stream, sequence
numbers wrap; a pool is the number of free objects a segment finds. The index of
the queue (red-black tree and list) is a module of its own.

**TcpSend**. Positions instead of wrapping numbers; the congestion window is any
of a set of values after an acknowledgement; a flush sends one segment per step.
The code has no persist timer and neither has the model.

**TcpListener**. The states after ESTABLISHED are one; parked ACCEPTs are
counted; `uaf` records the use of a freed control block.

**Scheduler**. All shards of a plan with exact rate integrals; the
floating-point inverse of a ramp is its exact value rounded down.

**Flow, Workflow**. Sockets and servers are external and may do anything the
interface allows. Deadlines are choices, expiry takes one flow per step, the
class-key table is left out; templates succeed or fail. The hit branch of
`tg_conn_pool_take_matching` cannot be reached from `workflow.c` (see below).

**Drain**. Workers, the shards that schedule, the stop flag and the main loop;
sockets are counted; a tick finds other resources held or not (`held`), and the
timer allowance of `tg_resources_zero` is the armed drain timer.

**StatsChannel, LossyQueue**. Each field copied is a step, release and acquire
are the order of steps. LossyQueue is a bounded queue that counts what it drops.

**Report, Latency**. Report takes the channel as LossyQueue. A capture has two
steps, the atomic exchange of the drop counters (`TakeDrops`) and the rest, and
the main core counts drops between them. Starts and drops are reported exactly;
`fails`, which the code overcounts, is only bounded from below, and its
aggregate is the sum of the final snapshots. Latency has the bucket function, recording, merging and the quantile, for
integers of a few bits.

**HttpReply, RespReply, DnsReply**. A response stream cut anywhere, and what it
does to the transaction; an HTTP version other than 1.0 and 1.1 is refused.
llhttp is external (its events in order); header and
JSON values, and the expansion of compressed DNS names, are left out.

**Capacity**. The search, its saves and the regression gate; a run of the
generator is one outcome, a kill may happen between any two saves.

## Runs

One MC module instantiates the components of a subsystem. A behaviour plays one
scenario, chosen initially; components that are not played stay in their initial
state, and a property names the scenarios it speaks of, so a run is the union
of the state spaces of its scenarios.

| run | scenarios | shows |
|---|---|---|
| tables | slots, flow table, endpoint table, datagrams, streams, timers | handles never resolve to a later socket, no event or timer is lost, lookups find only what is registered, the three address tables agree, a datagram reaches the right socket, the wheel refines TimerService |
| descriptors | table, polling | the inductive invariants of the table and of the poll sets; no descriptor or socket leaks, no readiness is hidden and no wake-up missed, poll-set memory is freed once, a reused number never mixes sockets |
| socket_owner | readers, closing, connecting, creating | the inductive invariant, cancellation, untaken results, who may close, order of service, refinement of RequestService |
| packets | evicting, probing, retried, datagrams, workers, reused | work is scheduled on one list, retried sends included, the neighbour cache is current and unanswered requests are spaced, bytes and buffers are accounted for, output is in order |
| tcp_conns | transfer, reopen, listening | both sides agree on the stream, connections end for a reason, listener books are exact |
| tcp_data | small, shared, sack, newreno, window, index | what is read is what was sent, the scoreboard is true, recovery progresses, tree and list agree |
| generator | keep alive, pair, mixed, business, arrivals, drain | flows, businesses and arrivals are accounted for, each result is charged to its own transaction, a run ends right |
| stats | channel, reporting, edges, ranks | the channel is a lossy queue, the report is exact, quantiles are within a bucket |
| clients | redis, http, dns, search | replies are judged right wherever they are cut, the capacity search is sound |
| live | requests, sender, connection, listening, transactions, business, run | nothing waits for ever: a submitter gets into the ring, a timed request returns, data is acknowledged or the connection aborted, closed and half-open connections go, transactions and the run end; except behind a shut window whose update is lost |
| tcp_fin_wait_2, flow_idle_tail | one each | **violated**, see below |

Bounds. They are the constants of the MC modules and configurations, chosen so
that every limit is met: rings of one or two entries that fill, slots whose
generation wraps, a cache of one neighbour for two destinations, sequence
numbers that wrap inside the stream, out-of-order limits below the window,
budgets below the work of a turn, retries that run out. Histories are capped by
the `Max*` constants. Not covered by TLC: more than three requests at once on
the command channel, a timeout together with a CLOSE, and thread cancellation
together with a CLOSE (the proofs cover all of these); probe chains longer than
two; more than two incarnations of a connection.

Symmetry is used for interchangeable readers, threads and waiters, in runs
without liveness properties.

Deadlock is checked in `descriptors`, `tcp_data` and `clients`, where the model
can always go on. In the others a scenario really ends: after a shutdown, when
every object that is used once is used up, or when a history cap is reached.

Fairness (`live` only). The worker loop takes its turns, a started shutdown
finishes, a thread inside a call keeps running, timers fire, main waits for its
workers. No fairness is assumed of the network, of peers or servers, of thread
cancellation or of the request to stop. Timers are fair because
`owner_timer_poll` runs in every turn of the loop and the clock advances.

The violations. `tcp.c:2356` describes FIN_WAIT_2 as "after the local FIN was
ACKed"; `tcp_state_fin_wait_1` (`tcp.c:2333`) enters it whenever the
acknowledgement equals `sent_seq`, also while the FIN waits behind data that the
congestion window holds back; FIN_WAIT_2 sends neither, so both are lost.
`flow.h:43` says of TG_FLOW_IDLE "TCP connection has no active transaction and
is reusable"; `tg_flow_finish_transaction` (`flow.c:569`) never compares
`request_offset` with `request_len`, so an early answer parks a connection with
a request half sent.

Other differences between code and text that the models contain, without a run:

- `socket_owner.c:1373`: a nonblocking receive or accept queued behind a blocking
  one waits for the network; `SOCKET_API.md:17` says it does not.
- `rx_dispatch.c:251`: while a flow is stored over a tombstone the slot reads 0,
  and a lookup that probes past it misses a registered flow (`DEVLOG.md:727`).
- `rx_dispatch.c:221`: a slot reused for the wanted flow and back between two loads
  yields an owner the flow never had (`DEVLOG.md:707`).
- `tcp.c:3768`: a port left in `local_port` by a failed implicit bind is used
  without a reservation by the next connect (`SOCKET_API.md:103`).
- `socket.c:258`: an accepted child may bind again, and its dispatch record is then
  not removed by `nsock_free` (`DEVLOG.md:721`).
- `arp.c:70`: reclaiming an expired FAILED entry does not wake the sockets parked
  behind it (`arp.c:328`).
- `arp.c:33`: a failure stamped after the turn's clock reading counts as expired, so
  the back-off of `config.h:48` is skipped.
- `arp.c:76`: a neighbour that answered and was evicted from a full cache is asked
  again at once; `config.h:44` gives a minimum interval for "one unresolved
  neighbour".
- `udp.c:385`: when a parked sender takes the place announced there, the datagram
  that had it and cannot leave is freed, although its send was accepted, and no
  counter shows it (`udp.c:399`, `412`).
- `udp.c:417` and `tcp.c:3926`: readiness announced to pollers is taken back without
  a refresh, so `nepoll_wait` may report a descriptor that would block.
- `socket.c:1316`: after ENOBUFS `nclose` leaves the entry of a socket that is gone.
- `tcp.c:1688`: no persist timer; a shut window whose update is lost stays shut.
- `tcp.c:1751`: of two acknowledgements with equal numbers the later received wins,
  also when it is the older (`tcp.c:1747`).
- `tcp.c:2387`: CLOSE_WAIT ignores window updates (`tcp.c:617`).
- `tcp.c:2247`: LAST_ACK ends before a deferred FIN was sent (`tcp.c:2223`).
- `tcp.c:3848`: a raised backlog does not enlarge the accept queue (`tcp.c:1868`).
- `flow.c:671`: a datagram longer than the buffer reaches `on_rx` in pieces
  (`README.md:511`).
- `conn_pool.c:134`: TCP flows never record their peer, so no workflow step reuses a
  connection (`workflow.c:494`).
- `main_tg.c:246`: cumulative allocation failures are summed at every capture
  (`PERFORMANCE.md:71`).

## Proofs

**The command channel**, for all sets of requests and sockets, all kinds and
targets, all ring and burst sizes. Assumptions: the named `ASSUME`s of
`SocketOwner` (types of the constants, no nonblocking request with a timeout,
positive sizes, an unset result handle is no handle). Three modules, each
extending the one before:

- `SocketOwnerLemmas`: lists, and `Effect`, what a step of the owner may do to
  results and wait queues;
- `SocketOwnerProofs`: the steps of calling threads, the turns of the owner and
  its shutdown preserve `IInv`. `Invariance` (`Spec => []IInv`), and from it
  `RefsCountHolders`, `LinkedAtMostOnce`, `NothingIsLost`, `StopsClean`;
- `SocketOwnerService`: `CancelsTakeEffect`, `NoSocketLeaks`,
  `ClosedByOwnersOnly`, `QueuesAreFair`, `ChannelIsService`, the refinement of
  RequestService, and `WaitersStayLive`.

`RefAccounting` is not inductive alone. Reaping drops two references at once,
which is right only because a handed-over request that has left its ring is on
the active list (`LifeCycle`) exactly once (`LinkedOnce`); starting or
cancelling one request completes the other waiters of its socket, which must be
active and unfinished (`ParkedSound`); and the lists local to a turn are empty
outside it (`OwnerPhase`). `IInv` is their conjunction.

The second group needs facts about results. `SInv` adds to `IInv` that a ring
holds its own kinds, that a stopped owner holds nothing, that a request nobody
holds any more is answered (`Answered`), `CancelTakesEffect`, and `ResultsKept`:
what became of the socket a request produced. Its proof does not go through the
actions again one conjunct at a time: each step of the owner, and each step of a
caller, is first reduced to a summary of what it does to answers, holders,
sockets and claims (`OwnerStepSummary`, `CallerStepSummary`), and every conjunct
and the refinement follow from the summaries. In the refinement, a caller's
enqueue is the abstract acceptance, a completion the answer, and the put that
brings `refs` to zero the reclamation; a step that answers several requests at
once is one abstract step on the set of them.

`WaitersStayLive` says that a parked request waits on an open socket. The step
that could break it is `command_reap`, which closes a result without answering
its waiters. `HInv` carries the reason why it does not: no two requests are given
the same socket, a result is taken at most once and only after it was committed,
and a request that can wait names a socket the application was given, so nobody
waits on a result that was never taken.

**Descriptors and poll sets** (`PublicFdProofs`, `NepollProofs`), for any number
of threads, descriptors, sockets and pollers and any finite set of waiters, from
`FdAssumption` and `PollAssumption`:

- `TableStaysExact`: no socket has two descriptors, no number serves two
  publications, and an open socket has a descriptor, is about to reserve one or
  is queued to be closed while the owner serves commands;
- `ReadinessNeverHidden`: the table shows all the readiness the owner would
  compute, and every hangup, whatever is used up behind it;
- `ClosesWithdrawTheirOwn`, `EventsAreCurrent`: a reused number never mixes its
  sockets, in `nclose` or in `nepoll_wait`;
- `PollersOwnTheirMemory`: a poller is freed with its last reference;
- `NoWakeupIsLost`: nobody sleeps through an event unless somebody is about to
  notify;
- `PollInvariance`: the two inductive invariants, which the run checks too.

`TableExact` and `NoOrphan` are not inductive: `nclose` and a failed publication
clear an entry they looked at several steps before. `FdInv` adds that a thread
that publishes a socket is alone in knowing its handle (`Private`), what a thread
remembers across its steps (`Locals`) and that entries name sockets that were
created (`Entries`). Most steps move no handle; they are shown once to preserve
`FdInv` (`QuietKeeps`), and the five that do are proved apart. What the poll sets
need of a step of the table is one formula, `Announces`: it wakes everybody, or
shows nothing new, or leaves somebody who will notify. `NoLostWakeup` then needs
`ScanSound`: a scan under an unmoved sequence has missed nothing of what it
passed, and a scan from any cursor passes every descriptor (`RoundLemma`).

**The snapshot channel** (`StatsChannelProofs`), for every capacity, set of
fields and number of records, from `ChannelAssumption`. `IInv` locates each
record between the sequence numbers: published and unread slots hold whole
records while the producer and the consumer copy field by field. From it
`ChannelDelivery`, `ChannelAccounting` and `ChannelRefinesQueue`, the refinement
of LossyQueue.

**The end of a run** (`DrainProofs`), for all sets of workers and shards, from
`DrainAssumption`: `RunEndsRight`, the invariant `DrainSound`.

Only model-checked: everything else in the runs table. Liveness needs fairness,
which the prover does not handle. Properties about sums over queues, pools and
histograms (Udp, Runtime, Scheduler, Latency, Report), about trees (OfoIndex)
and about what a parser computes for every input need induction over data, which
is out of its reach, and so is the refinement of TimerService by the wheel
(induction over levels, powers of the level size). The invariants of the socket
slots, the address tables, the flow pool, the listener and TCP have no proof yet.

Liveness is checked for SocketOwner, TcpSend, TcpConn, TcpListener, Flow,
Workflow and Drain. For the other components the state spaces that make their
safety properties interesting are too large for it.

## Not modelled

Packet formatting and checksums, ICMP, device and port setup, configuration
files and their validation, the scenario compiler, the workflow plan compiler,
third-party parsers, logging, demos and tests: no state whose order of changes
matters. Of modelled parts: rx_dispatch's choice between hardware queue and
software hash, congestion control arithmetic and the RTT estimate, TCP options
other than SACK, and the drain and step rows of the latency file.
