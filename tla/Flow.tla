-------------------------------- MODULE Flow --------------------------------
(***************************************************************************)
(* The traffic generator's flows on one shard (flow.c, flow_pool.c,        *)
(* conn_pool.c, txn.c and the admission callback of main_tg.c): flow       *)
(* objects from a free list, the socket-id map that filters readiness      *)
(* events, keep-alive connections parked on an idle list, the transaction  *)
(* timers and their expiry queue.                                          *)
(*                                                                         *)
(* The operations call one another, so each is a function from a record    *)
(* of the shard's variables to the set of records it may leave.            *)
(***************************************************************************)
EXTENDS Naturals, FiniteSets, Sequences
LOCAL INSTANCE SequencesExt

CONSTANTS
  Flows,        \* the flow objects of the pool
  Ids,          \* socket ids
  Classes,      \* subset of {"tcp", "udp"}: one traffic class per transport
  MaxConns,     \* connection limit of the pool
  MaxRequests,  \* requests per connection, 0 for no limit
  MaxActive,    \* concurrency limit of the scheduler
  MaxStarts,    \* bound: sockets ever created, and starts attempted
  ReqLen,       \* units of one serialized request
  MaxRx,        \* bound: unread response pieces on a socket
  Pieces,       \* the response pieces peers send: "more", "bad", "big" or Final
  None

VARIABLES
  flow,   \* flow object -> its fields
  free,   \* the pool's stack of free flows
  map,    \* socket id -> flow or None
  idle,   \* the idle keep-alive list, newest first
  conn,   \* connection pool: count and draining flag
  sched,  \* scheduler: active, live sockets, stopped
  sock,   \* the shard's sockets (external)
  ready,  \* queued readiness events [id, gen, e]
  tally   \* history: starts, admissions, results, split datagrams

vars == <<flow, free, map, idle, conn, sched, sock, ready, tally>>

InTransaction == {"connecting", "sending", "receiving"}
\* What the parser makes of one piece: more to come, rejected, or complete
\* with a connection that is reusable, that the peer closes, or neither.
Final == {"keep", "peer", "done"}

Blank == [st |-> "new", used |-> FALSE, mapped |-> FALSE, id |-> None, gen |-> 0, cls |-> None,
          sent |-> 0, reqs |-> 0, armed |-> FALSE, queued |-> FALSE, pooled |-> FALSE,
          parked |-> FALSE, notified |-> FALSE]
NoSocket == [st |-> "free", gen |-> 0, rx |-> <<>>, eof |-> FALSE, mem |-> TRUE]

Now == [flow |-> flow, free |-> free, map |-> map, idle |-> idle, conn |-> conn, sched |-> sched,
        sock |-> sock, tally |-> tally]
Become(b) ==
  /\ flow' = b.flow /\ free' = b.free /\ map' = b.map /\ idle' = b.idle
  /\ conn' = b.conn /\ sched' = b.sched /\ sock' = b.sock /\ tally' = b.tally

Init ==
  /\ flow = [f \in Flows |-> Blank]
  /\ free \in {s \in [1..Cardinality(Flows) -> Flows] : \A i, j \in DOMAIN s : i # j => s[i] # s[j]}
  /\ map = [i \in Ids |-> None]
  /\ idle = <<>>
  /\ conn = [n |-> 0, draining |-> FALSE]
  /\ sched = [active |-> 0, live |-> 0, stopped |-> FALSE]
  /\ sock = [i \in Ids |-> NoSocket]
  /\ ready = {}
  /\ tally = [starts |-> 0, admitted |-> 0, ok |-> 0, bad |-> 0, split |-> FALSE]

-----------------------------------------------------------------------------
(* Timers, map and pools.                                                  *)

\* The callback puts a mapped flow on the expiry queue, once.
TimeoutCb(r) == [r EXCEPT !.armed = FALSE, !.queued = @ \/ r.mapped]
TimeoutArm(r) == [r EXCEPT !.armed = TRUE, !.queued = FALSE]
TimeoutCancel(r) == [r EXCEPT !.armed = FALSE, !.queued = FALSE]

MapInsert(b, f, i) ==
  [b EXCEPT !.map[i] = f,
            !.flow[f].mapped = TRUE, !.flow[f].id = i, !.flow[f].gen = b.sock[i].gen]

MapLookup(i, g) == IF map[i] # None /\ flow[map[i]].gen = g THEN map[i] ELSE None

MapRemove(b, f) ==
  [b EXCEPT !.map[b.flow[f].id] = None,
            !.flow[f] = [TimeoutCancel(@) EXCEPT !.mapped = FALSE]]

Without(s, f) == SelectSeq(s, LAMBDA g : g # f)

CanCreate(b) == ~b.conn.draining /\ b.conn.n < MaxConns

Attach(b, f) == [b EXCEPT !.flow[f].pooled = TRUE, !.conn.n = @ + 1]

Detach(b, f) ==
  IF ~b.flow[f].pooled THEN b
  ELSE [b EXCEPT !.flow[f].pooled = FALSE, !.flow[f].parked = FALSE,
                 !.conn.n = @ - 1,
                 !.idle = IF b.flow[f].parked THEN Without(@, f) ELSE @]

PutIdle(b, f) == [b EXCEPT !.idle = <<f>> \o @, !.flow[f].parked = TRUE]

TakeIdle(b) == [b EXCEPT !.idle = Tail(@), !.flow[Head(b.idle)].parked = FALSE]

PoolGet(b, c) ==
  LET f == b.free[Len(b.free)]
  IN [b EXCEPT !.free = SubSeq(@, 1, Len(@) - 1), !.flow[f] = [Blank EXCEPT !.used = TRUE, !.cls = c]]

\* A mapped or an unused flow is refused.
PoolPut(b, f) ==
  IF b.flow[f].mapped \/ ~b.flow[f].used THEN b
  ELSE [b EXCEPT !.flow[f] = Blank, !.free = Append(@, f)]

-----------------------------------------------------------------------------
(* The socket layer (external): what owner_io_* does to a socket.          *)

SocketCreate(b, i) ==
  [b EXCEPT !.sock[i] = [NoSocket EXCEPT !.st = "fresh", !.gen = b.sock[i].gen + 1],
            !.sched.live = @ + 1]

SocketClose(b, i, g) ==
  IF b.sock[i].gen = g THEN [b EXCEPT !.sock[i] = [NoSocket EXCEPT !.st = "closed", !.gen = g]] ELSE b

Dead(k) == k.st = "err"
\* A read returns something other than EAGAIN.
Readable(k) == k.rx # <<>> \/ k.eof \/ Dead(k)

\* Accepted units of the request, or None when the call fails.
SendResults(k, udp, sent) ==
  IF Dead(k) \/ ~k.mem THEN {None} ELSE IF udp THEN {sent, ReqLen} ELSE sent..ReqLen

-----------------------------------------------------------------------------
(* Transactions.                                                           *)

CloseConnection(b, f) ==
  LET r == b.flow[f]
  IN PoolPut(SocketClose(MapRemove(Detach(b, f), f), r.id, r.gen), f)

\* on_finish: the scheduler's slot is returned and the result counted.
Notify(b, f, good) ==
  IF b.flow[f].notified THEN b
  ELSE [b EXCEPT !.flow[f].notified = TRUE,
                 !.sched.active = IF @ = 0 THEN 0 ELSE @ - 1,
                 !.tally.ok = IF good THEN @ + 1 ELSE @,
                 !.tally.bad = IF good THEN @ ELSE @ + 1]

Reusable(b, f) ==
  /\ b.flow[f].pooled
  /\ ~b.conn.draining
  /\ MaxRequests = 0 \/ b.flow[f].reqs < MaxRequests

\* Arming the idle timer may fail; the connection is then closed.
GoIdle(b, f) ==
  {CloseConnection(b, f),
   PutIdle([b EXCEPT !.flow[f] = [TimeoutArm(@) EXCEPT !.st = "idle", !.notified = FALSE]], f)}

\* tg_flow_finish_transaction: kind says what the response allows.
\* Seeded fault: a peer that closes is waited for before the result counts.
FinishLate(b, f, good, kind) ==
  LET n == Notify(b, f, good)
  IN IF kind = "peer" THEN {[b EXCEPT !.flow[f].st = "closing"]}
     ELSE IF kind = "keep" /\ Reusable(b, f) THEN GoIdle(n, f)
     ELSE {CloseConnection(n, f)}
Finish(b, f, good, kind) ==
  LET n == Notify(b, f, good)
  IN IF kind = "peer" THEN {[n EXCEPT !.flow[f].st = "closing"]}
     ELSE IF kind = "keep" /\ Reusable(b, f) THEN GoIdle(n, f)
     ELSE {CloseConnection(n, f)}

Fail(b, f) == Finish(b, f, FALSE, "done")

\* tg_flow_send_pending and tg_flow_send_udp: the flows left when the send
\* does not fail, the whole request accepted or the rest still pending.
Sent(b, f) ==
  {[b EXCEPT !.flow[f].sent = k, !.flow[f].st = IF k = ReqLen THEN "receiving" ELSE "sending"] :
      k \in SendResults(b.sock[b.flow[f].id], b.flow[f].cls = "udp", b.flow[f].sent) \ {None}}
SendFails(b, f) == None \in SendResults(b.sock[b.flow[f].id], b.flow[f].cls = "udp", b.flow[f].sent)

-----------------------------------------------------------------------------
(* Admission: tg_start_class under the scheduler.                          *)

\* tg_flow_start_tcp and tg_flow_start_udp after the pool gave flow f and
\* socket i was made: every later step may fail, and is then cleaned up.
Launched(b, f, i) ==
  LET udp == b.flow[f].cls = "udp"
      m == MapInsert(b, f, i)
      a == IF udp THEN m ELSE Attach(m, f)
      t == [a EXCEPT !.flow[f] = [TimeoutArm(@) EXCEPT !.reqs = 1]]
      c == [t EXCEPT !.flow[f].st = "connecting", !.sock[i].st = "connecting"]
      o == [t EXCEPT !.flow[f].st = "sending", !.sock[i].st = "open"]
  IN IF ~udp /\ ~CanCreate(m) THEN {} ELSE (IF udp THEN {} ELSE {c}) \cup Sent(o, f)

\* Outcomes of a new connection: b is the state left, ok the return value.
StartNew(b, c) ==
  {[b |-> b, ok |-> FALSE]} \cup
  (IF b.free = <<>> THEN {}
   ELSE UNION {LET f == b.free[Len(b.free)]
                   s == SocketCreate(PoolGet(b, c), i)
               IN {[b |-> x, ok |-> TRUE] : x \in Launched(s, f, i)} \cup
                  {[b |-> CloseConnection(MapInsert(s, f, i), f), ok |-> FALSE]} :
               i \in {j \in Ids : b.sock[j].st = "free"}})

\* tg_flow_rearm_tcp on the newest idle connection. "stale" is ESTALE, the
\* only failure after which a new connection may take the request over.
\* Seeded fault: no read before the connection is used again.
RearmBlind(b, f) ==
  LET s == [b EXCEPT !.flow[f] = [TimeoutArm(@) EXCEPT !.st = "sending", !.sent = 0, !.reqs = @ + 1]]
  IN {[b |-> b, how |-> "failed"]} \cup {[b |-> x, how |-> "ok"] : x \in Sent(s, f)}
Rearm(b, f) ==
  LET s == [b EXCEPT !.flow[f] = [TimeoutArm(@) EXCEPT !.st = "sending", !.sent = 0, !.reqs = @ + 1]]
  IN IF Readable(b.sock[b.flow[f].id]) THEN {[b |-> b, how |-> "stale"]}
     ELSE {[b |-> b, how |-> "failed"]} \cup {[b |-> x, how |-> "ok"] : x \in Sent(s, f)}

StartClass(b, c) ==
  IF c = "tcp" /\ ~b.conn.draining /\ b.idle # <<>>
  THEN LET f == Head(b.idle)
       IN UNION {CASE r.how = "ok" -> {[b |-> r.b, ok |-> TRUE]}
                   [] r.how = "stale" -> StartNew(CloseConnection(r.b, f), c)
                   [] r.how = "failed" -> {[b |-> CloseConnection(r.b, f), ok |-> FALSE]} :
                 r \in Rearm(TakeIdle(b), f)}
  ELSE IF c = "tcp" /\ ~CanCreate(b) THEN {[b |-> b, ok |-> FALSE]}
  ELSE StartNew(b, c)

\* The scheduler admits a class within its limits and takes an active slot
\* when the callback succeeds; expiry runs earlier in the same tick.
Admit(c) ==
  /\ ~sched.stopped /\ sched.active < MaxActive
  /\ tally.starts < MaxStarts
  /\ \A f \in Flows : ~flow[f].queued
  /\ \E r \in StartClass([Now EXCEPT !.tally.starts = @ + 1], c) :
       Become(IF r.ok THEN [r.b EXCEPT !.sched.active = @ + 1, !.tally.admitted = @ + 1] ELSE r.b)
  /\ UNCHANGED ready

Stop ==
  /\ ~sched.stopped
  /\ sched' = [sched EXCEPT !.stopped = TRUE]
  /\ UNCHANGED <<flow, free, map, idle, conn, sock, ready, tally>>

\* tg_close_idle_connections, once, when the last transaction has ended.
CloseAll(b) == FoldLeft(LAMBDA a, f : CloseConnection(TakeIdle(a), f), b, b.idle)

CloseIdle ==
  /\ sched.stopped /\ sched.active = 0 /\ ~conn.draining
  /\ Become(CloseAll([Now EXCEPT !.conn.draining = TRUE]))
  /\ UNCHANGED ready

-----------------------------------------------------------------------------
(* Readiness events and expiry.                                            *)

\* tg_flow_drain_receive and the completion that follows it.
AfterRead(b, f, hup) ==
  LET k == b.sock[b.flow[f].id]
      got == {p \in Final : \E j \in DOMAIN k.rx : k.rx[j] = p}
      first == CHOOSE p \in got : \E j \in DOMAIN k.rx :
                  k.rx[j] = p /\ \A l \in 1..(j - 1) : k.rx[l] \notin Final
      e == [b EXCEPT !.sock[b.flow[f].id].rx = <<>>]
  IN IF Dead(k) \/ \E j \in DOMAIN k.rx : k.rx[j] = "bad" THEN Fail(e, f)
     ELSE IF got # {} THEN Finish(e, f, TRUE, IF k.eof \/ hup THEN "done" ELSE first)
     ELSE IF k.eof THEN Finish(e, f, TRUE, "done") \cup Fail(e, f)
     ELSE IF hup THEN Fail(e, f)
     ELSE {e}

\* tg_flow_drain_udp_receive: it stops at the first terminal result. A piece
\* "big" is a datagram longer than the read buffer: two reads, two on_rx.
AfterUdpRead(b, f) ==
  LET i == b.flow[f].id
      rx == b.sock[i].rx
      last == {j \in DOMAIN rx : rx[j] \in Final \cup {"bad"} /\ \A l \in 1..(j - 1) : rx[l] \notin Final \cup {"bad"}}
      upto == IF last = {} THEN Len(rx) ELSE CHOOSE j \in last : TRUE
      e == [b EXCEPT !.sock[i].rx = SubSeq(@, upto + 1, Len(@)),
                     !.tally.split = @ \/ \E j \in 1..upto : rx[j] = "big"]
  IN IF Dead(b.sock[i]) THEN Fail(b, f)
     ELSE IF last = {} THEN {e}
     ELSE IF rx[upto] = "bad" THEN Fail(e, f)
     ELSE Finish(e, f, TRUE, "done")

OnUdpEvent(b, f, m) ==
  IF m \cap {"error", "hup"} # {} THEN Fail(b, f)
  ELSE LET r == b.flow[f]
           tried == IF r.st = "sending" /\ "write" \in m THEN Sent(b, f) ELSE {b}
           lost == IF r.st = "sending" /\ "write" \in m /\ SendFails(b, f) THEN Fail(b, f) ELSE {}
       IN lost \cup UNION {IF x.flow[f].st = "receiving" /\ "read" \in m THEN AfterUdpRead(x, f) ELSE {x} :
                             x \in tried}

\* The response was counted; a peer that closed, or sent more, ends it.
OnClosing(b, f, m) ==
  IF m \cap {"error", "hup"} # {} \/ ("read" \in m /\ Readable(b.sock[b.flow[f].id]))
  THEN {CloseConnection(b, f)} ELSE {b}

OnTcpEvent(b, f, m) ==
  LET r == b.flow[f]
      c == IF r.st = "connecting" /\ "connected" \in m THEN [b EXCEPT !.flow[f].st = "sending"] ELSE b
      sends == c.flow[f].st = "sending" /\ m \cap {"connected", "write"} # {}
      readable == m \cap {"read", "hup"} # {}
      rest(x) == LET st == x.flow[f].st
                 IN CASE readable /\ st \in {"sending", "receiving"} -> AfterRead(x, f, "hup" \in m)
                      [] readable /\ st = "idle" -> {CloseConnection(x, f)}
                      [] "hup" \in m /\ st = "connecting" -> Fail(x, f)
                      [] OTHER -> {x}
  IN CASE r.st = "closing" -> OnClosing(b, f, m)
       [] r.st = "idle" /\ "error" \in m -> {CloseConnection(b, f)}
       [] r.st \in InTransaction /\ "error" \in m -> Fail(b, f)
       [] OTHER -> (IF sends /\ SendFails(c, f) THEN Fail(c, f) ELSE {}) \cup
                   UNION {rest(x) : x \in IF sends THEN Sent(c, f) ELSE {c}}

\* The reactor delivers the coalesced events of one handle.
OnEvent(i, g) ==
  LET mine == {x \in ready : x.id = i /\ x.gen = g}
      m == {x.e : x \in mine}
      f == MapLookup(i, g)
  IN /\ mine # {}
     /\ ready' = ready \ mine
     /\ IF f = None THEN Become(Now)
        ELSE \E b \in IF flow[f].cls = "udp" THEN OnUdpEvent(Now, f, m) ELSE OnTcpEvent(Now, f, m) : Become(b)

\* A timer fires at or after its deadline and only queues the flow.
TimerFire(f) ==
  /\ flow[f].armed
  /\ flow' = [flow EXCEPT ![f] = TimeoutCb(@)]
  /\ UNCHANGED <<free, map, idle, conn, sched, sock, ready, tally>>

\* tg_flow_expire for one queued flow. The queue never holds a flow whose
\* deadline was moved, so its deadline has passed.
Expired(b, f) == IF b.flow[f].st \in {"closing", "idle"} THEN {CloseConnection(b, f)} ELSE Fail(b, f)

Expire(f) ==
  /\ flow[f].queued
  /\ \E b \in Expired([Now EXCEPT !.flow[f].queued = FALSE], f) : Become(b)
  /\ UNCHANGED ready

-----------------------------------------------------------------------------
(* The peer and the transport.                                             *)

Post(i, es) == ready' = ready \cup {[id |-> i, gen |-> sock[i].gen, e |-> e] : e \in es}

Establish(i) ==
  /\ sock[i].st = "connecting"
  /\ sock' = [sock EXCEPT ![i].st = "open"]
  /\ Post(i, {"connected", "write"})

Respond(i, p) ==
  /\ sock[i].st = "open" /\ ~sock[i].eof /\ Len(sock[i].rx) < MaxRx
  /\ p = "big" => map[i] # None /\ flow[map[i]].cls = "udp"
  /\ sock' = [sock EXCEPT ![i].rx = Append(@, p)]
  /\ Post(i, {"read"})

PeerFin(i) ==
  /\ sock[i].st = "open" /\ ~sock[i].eof
  /\ map[i] # None /\ flow[map[i]].cls = "tcp"
  /\ sock' = [sock EXCEPT ![i].eof = TRUE]
  /\ Post(i, {"read", "hup"})

Break(i) ==
  /\ sock[i].st \in {"connecting", "open"}
  /\ sock' = [sock EXCEPT ![i] = [@ EXCEPT !.st = "err", !.rx = <<>>, !.eof = FALSE]]
  /\ Post(i, {"error"})

\* The send buffer drains, or the chunk pool runs out or recovers.
Writable(i) ==
  /\ sock[i].st = "open"
  /\ \E m \in BOOLEAN : sock' = [sock EXCEPT ![i].mem = m]
  /\ Post(i, {"write"})

Release(i) ==
  /\ sock[i].st = "closed"
  /\ sock' = [sock EXCEPT ![i].st = "free"]
  /\ sched' = [sched EXCEPT !.live = @ - 1]
  /\ UNCHANGED <<flow, free, map, idle, conn, ready, tally>>

Transport(i) ==
  /\ Establish(i) \/ PeerFin(i) \/ Break(i) \/ Writable(i) \/ \E p \in Pieces : Respond(i, p)
  /\ UNCHANGED <<flow, free, map, idle, conn, sched, tally>>

Next ==
  \/ \E c \in Classes : Admit(c)
  \/ Stop \/ CloseIdle
  \/ \E i \in Ids : Transport(i) \/ Release(i) \/ \E g \in 1..MaxStarts : OnEvent(i, g)
  \/ \E f \in Flows : TimerFire(f) \/ Expire(f)

Spec == Init /\ [][Next]_vars

-----------------------------------------------------------------------------
(* Properties.                                                             *)

TypeOK ==
  /\ \A f \in Flows : flow[f].st \in InTransaction \cup {"new", "idle", "closing"}
  /\ conn.n \in 0..MaxConns
  /\ sched.active \in 0..MaxActive /\ sched.live \in 0..Cardinality(Ids)
  /\ \A i \in Ids : Len(sock[i].rx) <= MaxRx /\ map[i] \in Flows \cup {None}

\* The structures that share a flow agree after every callback: an object is
\* either on the free list or mapped under its own socket (tg_flow_pool_put,
\* tg_flow_map_insert), the connection count is that of the attached flows,
\* and the idle list holds exactly the flows in TG_FLOW_IDLE.
BooksAgree ==
  /\ \A f \in Flows : flow[f].used # (\E j \in DOMAIN free : free[j] = f)
  /\ \A f \in Flows : flow[f].used => flow[f].mapped /\ map[flow[f].id] = f
  /\ \A i \in Ids : map[i] # None => flow[map[i]].mapped /\ flow[map[i]].id = i
  /\ conn.n = Cardinality({f \in Flows : flow[f].pooled})
  /\ {idle[j] : j \in DOMAIN idle} = {f \in Flows : flow[f].st = "idle"}
  /\ Len(free) + Cardinality({f \in Flows : flow[f].used}) = Cardinality(Flows)

\* Each admitted transaction ends in exactly one result (completion_notified
\* in tg_flow_finish_transaction), and the scheduler's active count is that
\* of the flows in a transaction, whatever mix of events and timeouts ends it.
OneResultEach ==
  /\ tally.admitted = tally.ok + tally.bad + sched.active
  /\ sched.active = Cardinality({f \in Flows : flow[f].st \in InTransaction})

\* Nothing in use waits without a bound, and no expiry outlives the deadline it
\* was queued for: a flow that is connecting, sending, receiving, idle or closing
\* has either an armed timer or a place on the expiry queue, never both, so a
\* transaction on a reused connection does not find the timeout of the one before
\* still queued (tg_flow_timeout_arm takes it off).
AlwaysWatched == \A f \in Flows : flow[f].used => flow[f].armed # flow[f].queued

\* Every socket a flow opened is closed with it: an open socket belongs to a
\* mapped flow with that handle, and live_sockets counts what is not released.
NoOrphanSocket ==
  /\ \A i \in Ids : sock[i].st \notin {"free", "closed"} => map[i] # None /\ flow[map[i]].gen = sock[i].gen
  /\ sched.live = Cardinality({i \in Ids : sock[i].st # "free"})

\* A transaction fails only by its own timeout, or by what happened on its
\* own socket: an event that outlives its socket never reaches the flow
\* that reuses the id (tg_flow_map_lookup compares generations).
Troubled(k) == Dead(k) \/ k.eof \/ ~k.mem \/ \E j \in DOMAIN k.rx : k.rx[j] = "bad"
OwnTroubleOnly ==
  \A f \in Flows :
     flow[f].st \in InTransaction /\ tally'.bad > tally.bad /\ flow'[f].st \notin InTransaction
       => flow[f].queued \/ Troubled(sock[flow[f].id])

\* A request is put on an idle connection only while nothing is known
\* against it: at the moment a parked flow starts to send, its socket holds
\* no unread bytes, no FIN and no error (the preflight of tg_flow_rearm_tcp).
ReuseIsFresh ==
  \A f \in Flows :
     flow[f].st = "idle" /\ flow'[f].st \in {"sending", "receiving"} /\ flow'[f].id = flow[f].id /\ flow'[f].gen = flow[f].gen
       => ~Readable(sock[flow[f].id])

\* An idle connection can take the next request: its stream does not end in
\* a partly sent one (the comment on TG_FLOW_IDLE says it is reusable).
IdleIsReusable == \A f \in Flows : flow[f].st = "idle" => flow[f].sent = ReqLen

=============================================================================
