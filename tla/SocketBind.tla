----------------------------- MODULE SocketBind -----------------------------
(***************************************************************************)
(* Bind reservations and receiver selection: pro-stack/socket_bind.c and   *)
(* the registry half of pro-stack/socket.c.                                *)
(*                                                                         *)
(* Several owner cores bind, listen, connect and free sockets.  One list   *)
(* of reservations, behind bind_lock, is shared by all; each owner has its *)
(* own hash of listeners and datagram sockets; the dispatch tables say     *)
(* which owner a packet goes to.  An operation that touches the shared     *)
(* structures more than once is several steps; op says how far an owner    *)
(* is.  A dispatcher looks up the receiver of a datagram and hands it to   *)
(* an owner, which looks it up again.                                      *)
(***************************************************************************)
EXTENDS Naturals, Sequences, FiniteSets, SequencesExt, FiniteSetsExt

CONSTANTS
  Sockets,    \* struct nsock objects, each used once
  Owners,     \* owner cores
  Protocols,  \* bound: the protocols this instance uses
  Ips,        \* addresses, AnyIp among them
  AnyIp,        \* INADDR_ANY
  LocalIp,    \* g_net.local_ip
  Ports,      \* ports the application names
  Ephemeral,  \* ports connect may allocate
  Peers,      \* remote addresses
  MaxBinds,   \* bound: successful binds
  Null

\* What a configuration satisfies:
\*   AnyIp \in Ips /\ LocalIp \in Ips \ {AnyIp}
\*   MaxBinds \in Nat
\*   Null \notin Sockets \cup Owners \cup Peers \cup Nat

AllPorts == Ports \cup Ephemeral

VARIABLES
  sk,        \* sk[s]: the fields of the socket that bind and connect use, and
             \* born, its place in the order of binding (history)
  bindings,  \* the reservations, newest first
  shared,    \* shared_udp
  endpoints, \* the dispatch table of listeners and datagram sockets
  flows,     \* connections: the dispatch table, and the hashes of the owners
  registry,  \* owner-local hashes: which socket an owner finds
  op,        \* op[o]: the operation owner o is in, and its socket
  packet     \* the datagram on its way, or Null

vars == <<sk, bindings, shared, endpoints, flows, registry, op, packet>>

NoOp   == [pc |-> "idle", sk |-> Null]
Unborn == [life |-> "none", proto |-> "none", owner |-> Null, reuse |-> FALSE,
           ip |-> AnyIp, port |-> 0, flags |-> {}, peer |-> Null, child |-> FALSE,
           born |-> 0]

Bindings == [sk : Sockets, proto : Protocols, ip : Ips, port : AllPorts,
             reuse : BOOLEAN, listener : BOOLEAN]

TypeOK ==
  /\ sk \in [Sockets -> [life : {"none", "open", "gone"},
                         proto : Protocols \cup {"none"}, owner : Owners \cup {Null},
                         reuse : BOOLEAN, ip : Ips, port : AllPorts \cup {0},
                         flags : SUBSET {"bind", "listener", "conn"},
                         peer : Peers \cup {Null}, child : BOOLEAN,
                         born : Nat]]
  /\ bindings \in Seq(Bindings)
  /\ shared \in [AllPorts -> Nat]
  /\ \A e \in endpoints : e \in [proto : Protocols, ip : Ips, port : AllPorts,
                                 owner : Owners]
  /\ \A f \in flows : f \in [peer : Peers, ip : Ips, port : AllPorts, owner : Owners,
                             sk : Sockets]
  /\ \A r \in registry : r \in [owner : Owners, proto : Protocols, ip : Ips,
                                port : AllPorts, sk : Sockets]
  /\ op \in [Owners -> [pc : {"idle", "register", "unbind", "listen", "unlisten",
                              "implicit", "connect", "free"},
                        sk : Sockets \cup {Null}]]

Init ==
  /\ sk = [s \in Sockets |-> Unborn]
  /\ bindings = <<>>
  /\ shared = [p \in AllPorts |-> 0]
  /\ endpoints = {} /\ flows = {} /\ registry = {}
  /\ op = [o \in Owners |-> NoOp]
  /\ packet = Null

-----------------------------------------------------------------------------
(***************************************************************************)
(* socket_bind.c: each definition is one critical section of bind_lock.    *)
(***************************************************************************)

\* Seeded fault: the wildcard address overlaps nothing.
OverlapExact(a, b) == a = b

Overlap(a, b) == a = AnyIp \/ b = AnyIp \/ a = b

Rivals(proto, ip, port) ==
  {b \in Range(bindings) : b.proto = proto /\ b.port = port /\ Overlap(b.ip, ip)}

\* socket_bind_add: EADDRINUSE.
Refused(proto, ip, port, reuse) ==
  \E b \in Rivals(proto, ip, port) : ~b.reuse \/ ~reuse \/ b.listener

\* socket_bind_taken.
Taken(proto, ip, port) == Rivals(proto, ip, port) # {}

SharedBy(s, port) == IF sk[s].proto = "udp" /\ sk[s].reuse
                     THEN [shared EXCEPT ![port] = @ + 1] ELSE shared

Enter(s, ip, port) ==
  /\ bindings' = <<[sk |-> s, proto |-> sk[s].proto, ip |-> ip, port |-> port,
                    reuse |-> sk[s].reuse, listener |-> FALSE]>> \o bindings
  /\ shared' = SharedBy(s, port)

\* socket_bind_remove.
Withdraw(s) ==
  /\ bindings' = SelectSeq(bindings, LAMBDA b : b.sk # s)
  /\ shared' = [p \in AllPorts |-> shared[p] - Cardinality(
                  {b \in Range(bindings) : b.sk = s /\ b.port = p /\ b.proto = "udp"
                                           /\ b.reuse})]

\* socket_bind_listen: another overlapping listener makes it EADDRINUSE.
ListenRefused(s) == \E b \in Rivals("tcp", sk[s].ip, sk[s].port) :
                      b.sk # s /\ b.listener

SetListener(s, enabled) ==
  bindings' = [i \in DOMAIN bindings |->
                 IF bindings[i].sk = s THEN [bindings[i] EXCEPT !.listener = enabled]
                 ELSE bindings[i]]

\* select_udp: the first exact match from the head of the list, else the first
\* wildcard.
SelectUdp(ip, port) ==
  LET exact == SelectSeq(bindings, LAMBDA b : b.proto = "udp" /\ b.port = port /\ b.ip = ip)
      wild  == SelectSeq(bindings, LAMBDA b : b.proto = "udp" /\ b.port = port
                                              /\ b.ip = AnyIp)
  IN  IF exact # <<>> THEN Head(exact).sk
      ELSE IF wild # <<>> THEN Head(wild).sk ELSE Null

-----------------------------------------------------------------------------
(***************************************************************************)
(* socket.c: binding and listening                                         *)
(***************************************************************************)

Idle(o)   == op[o] = NoOp
Done(o)   == op' = [op EXCEPT ![o] = NoOp]
At(o, pc) == op[o].pc = pc

Continue(o, pc, s) == op' = [op EXCEPT ![o] = [pc |-> pc, sk |-> s]]

Mine(o, s) == sk[s].life = "open" /\ sk[s].owner = o

\* A socket is created; SO_REUSEADDR can be set until something is registered.
Create(o, s) ==
  /\ Idle(o) /\ sk[s].life = "none"
  /\ \E proto \in Protocols, reuse \in BOOLEAN :
       sk' = [sk EXCEPT ![s] = [Unborn EXCEPT !.life = "open", !.proto = proto,
                                              !.owner = o, !.reuse = reuse]]
  /\ UNCHANGED <<bindings, shared, endpoints, flows, registry, op, packet>>

\* nsock_bind_local up to the reservation.
Bind(o, s, ip, port) ==
  /\ Idle(o) /\ Mine(o, s) /\ "bind" \notin sk[s].flags
  /\ Max({sk[t].born : t \in Sockets}) < MaxBinds
  /\ ~Refused(sk[s].proto, ip, port, sk[s].reuse)
  /\ Enter(s, ip, port)
  /\ sk' = [sk EXCEPT ![s].ip = ip, ![s].port = port, ![s].flags = @ \cup {"bind"},
                      ![s].born = 1 + Max({sk[t].born : t \in Sockets})]
  /\ IF sk[s].proto = "udp" /\ ~sk[s].reuse THEN Continue(o, "register", s)
     ELSE UNCHANGED op
  /\ UNCHANGED <<endpoints, flows, registry, packet>>

RegistryEntry(s) == [owner |-> sk[s].owner, proto |-> sk[s].proto, ip |-> sk[s].ip,
                     port |-> sk[s].port, sk |-> s]
Endpoint(s)      == [proto |-> sk[s].proto, ip |-> sk[s].ip, port |-> sk[s].port,
                     owner |-> sk[s].owner]

\* Another owner has the endpoint (EADDRINUSE); a full table fails as well.
EndpointHeld(s) == \E e \in endpoints : e.owner # sk[s].owner
                     /\ <<e.proto, e.ip, e.port>> = <<sk[s].proto, sk[s].ip, sk[s].port>>
HashHeld(s)     == \E r \in registry : r.sk # s
                     /\ [r EXCEPT !.sk = s] = RegistryEntry(s)

\* The second half of nsock_bind_local and of nsock_tcp_listener_register: the
\* hash of this owner, then the dispatch table; on failure both are undone.
Register(o) ==
  LET s == op[o].sk
  IN  /\ At(o, "register") \/ At(o, "listen")
      /\ \/ /\ ~HashHeld(s) /\ ~EndpointHeld(s)
            /\ registry' = registry \cup {RegistryEntry(s)}
            /\ endpoints' = endpoints \cup {Endpoint(s)}
            /\ sk' = IF At(o, "listen") THEN [sk EXCEPT ![s].flags = @ \cup {"listener"}]
                     ELSE sk
            /\ Done(o)
         \/ /\ registry' = registry \ {RegistryEntry(s)}
            /\ Continue(o, IF At(o, "listen") THEN "unlisten" ELSE "unbind", s)
            /\ UNCHANGED <<sk, endpoints>>
      /\ UNCHANGED <<bindings, shared, flows, packet>>

Unbind(o) ==
  LET s == op[o].sk
  IN  /\ At(o, "unbind")
      /\ Withdraw(s)
      /\ sk' = [sk EXCEPT ![s].ip = AnyIp, ![s].port = 0, ![s].flags = @ \ {"bind"},
                          ![s].born = 0]
      /\ Done(o)
      /\ UNCHANGED <<endpoints, flows, registry, packet>>

\* tcp_listen of a bound, closed socket: the reservation is marked first.
Listen(o, s) ==
  /\ Idle(o) /\ Mine(o, s) /\ sk[s].proto = "tcp"
  /\ sk[s].flags = {"bind"}
  /\ ~ListenRefused(s)
  /\ SetListener(s, TRUE)
  /\ Continue(o, "listen", s)
  /\ UNCHANGED <<sk, shared, endpoints, flows, registry, packet>>

Unlisten(o) ==
  /\ At(o, "unlisten")
  /\ SetListener(op[o].sk, FALSE)
  /\ Done(o)
  /\ UNCHANGED <<sk, shared, endpoints, flows, registry, packet>>

-----------------------------------------------------------------------------
(***************************************************************************)
(* Connecting                                                              *)
(***************************************************************************)

\* tcp_connect of a closed socket.  Without a local port one is picked that
\* nobody has reserved now; the reservation itself is a later step.
Connect(o, s, peer) ==
  /\ Idle(o) /\ Mine(o, s) /\ sk[s].proto = "tcp"
  /\ sk[s].flags \subseteq {"bind"}
  /\ IF sk[s].port = 0
     THEN \E p \in Ephemeral :
            /\ ~Taken("tcp", LocalIp, p)
            /\ \A e \in endpoints : <<e.proto, e.ip, e.port>> # <<"tcp", LocalIp, p>>
            /\ sk' = [sk EXCEPT ![s].peer = peer, ![s].ip = LocalIp, ![s].port = p]
            /\ Continue(o, "implicit", s)
     ELSE /\ sk' = [sk EXCEPT ![s].peer = peer,
                              ![s].ip = IF @ = AnyIp THEN LocalIp ELSE @]
          /\ Continue(o, "connect", s)
  /\ UNCHANGED <<bindings, shared, endpoints, flows, registry, packet>>

\* The implicit bind.  When another owner was faster the call fails, and the
\* socket keeps the port it did not get.
ImplicitBind(o) ==
  LET s == op[o].sk
  IN  /\ At(o, "implicit")
      /\ IF Refused("tcp", LocalIp, sk[s].port, sk[s].reuse)
         THEN Done(o) /\ UNCHANGED <<sk, bindings, shared>>
         ELSE /\ Enter(s, LocalIp, sk[s].port)
              /\ sk' = [sk EXCEPT ![s].flags = @ \cup {"bind"}]
              /\ Continue(o, "connect", s)
      /\ UNCHANGED <<endpoints, flows, registry, packet>>

Flow(s) == [peer |-> sk[s].peer, ip |-> sk[s].ip, port |-> sk[s].port,
            owner |-> sk[s].owner, sk |-> s]

Tuple(f) == <<f.peer, f.ip, f.port>>

\* The four-tuple is that of a connection of this or of another owner.
Held(flow) == \E f \in flows : Tuple(f) = Tuple(flow)

\* nsock_tcp_conn_register: the hash of this owner, then the dispatch table.
ConnRegister(o) ==
  LET s == op[o].sk
  IN  /\ At(o, "connect")
      /\ IF Held(Flow(s)) THEN UNCHANGED <<sk, flows>>
         ELSE /\ flows' = flows \cup {Flow(s)}
              /\ sk' = [sk EXCEPT ![s].flags = @ \cup {"conn"}]
      /\ Done(o)
      /\ UNCHANGED <<bindings, shared, endpoints, registry, packet>>

\* tcp_stream_create: a SYN for listener l makes a child, which has a flow and
\* no reservation of its own.
Child(o, l, s, peer) ==
  LET child == [Unborn EXCEPT !.life = "open", !.proto = "tcp", !.owner = o,
                              !.ip = LocalIp, !.port = sk[l].port, !.peer = peer,
                              !.flags = {"conn"}, !.child = TRUE]
      flow  == [peer |-> peer, ip |-> LocalIp, port |-> sk[l].port, owner |-> o,
                sk |-> s]
  IN  /\ Idle(o) /\ Mine(o, l) /\ "listener" \in sk[l].flags
      /\ sk[s].life = "none"
      /\ ~Held(flow)
      /\ flows' = flows \cup {flow}
      /\ sk' = [sk EXCEPT ![s] = child]
      /\ UNCHANGED <<bindings, shared, endpoints, registry, op, packet>>

-----------------------------------------------------------------------------
(***************************************************************************)
(* Freeing a socket: nsock_free withdraws the dispatch entries and hashes, *)
(* then the reservation.                                                   *)
(***************************************************************************)

Free(o, s) ==
  LET registered == "listener" \in sk[s].flags
                    \/ (sk[s].proto = "udp" /\ "bind" \in sk[s].flags /\ ~sk[s].reuse)
  IN  /\ Idle(o) /\ Mine(o, s)
      /\ sk' = [sk EXCEPT ![s].life = "gone"]
      /\ flows' = IF "conn" \in sk[s].flags THEN flows \ {Flow(s)} ELSE flows
      /\ endpoints' = IF registered THEN endpoints \ {Endpoint(s)} ELSE endpoints
      /\ registry' = IF registered THEN registry \ {RegistryEntry(s)} ELSE registry
      /\ Continue(o, "free", s)
      /\ UNCHANGED <<bindings, shared, packet>>

FreeBinding(o) ==
  LET s == op[o].sk
  IN  /\ At(o, "free")
      /\ IF "bind" \in sk[s].flags THEN Withdraw(s) ELSE UNCHANGED <<bindings, shared>>
      /\ sk' = [sk EXCEPT ![s] = [Unborn EXCEPT !.life = "gone"]]
      /\ Done(o)
      /\ UNCHANGED <<endpoints, flows, registry, packet>>

-----------------------------------------------------------------------------
(***************************************************************************)
(* Datagrams                                                               *)
(***************************************************************************)

\* The dispatcher reads the count of sharing sockets without the lock ...
Arrive ==
  /\ packet = Null
  /\ \E ip \in Ips \ {AnyIp}, port \in Ports :
       packet' = [at |-> "dispatch", ip |-> ip, port |-> port,
                  shared |-> shared[port] # 0, tag |-> Null, owner |-> Null,
                  matched |-> {}]
  /\ UNCHANGED <<sk, bindings, shared, endpoints, flows, registry, op>>

EndpointOwner(ip, port) == {e.owner : e \in {e \in endpoints :
                              e.proto = "udp" /\ e.ip = ip /\ e.port = port}}

\* ... then selects a receiver and tags the packet with it, or finds the owner
\* in the dispatch table, or lets the hash of the packet decide.
Dispatch ==
  LET s     == SelectUdp(packet.ip, packet.port)
      exact == EndpointOwner(packet.ip, packet.port)
      wild  == EndpointOwner(AnyIp, packet.port)
  IN  /\ packet # Null /\ packet.at = "dispatch"
      /\ IF packet.shared /\ s # Null
         THEN packet' = [packet EXCEPT !.at = "owner", !.tag = s, !.owner = sk[s].owner]
         ELSE \E o \in IF exact # {} THEN exact ELSE IF wild # {} THEN wild ELSE Owners :
                packet' = [packet EXCEPT !.at = "owner", !.owner = o]
      /\ UNCHANGED <<sk, bindings, shared, endpoints, flows, registry, op>>

\* nsock_from_ip_port for a datagram at owner o.
Found(o, ip, port) ==
  LET s == SelectUdp(ip, port)
      hash(a) == {r.sk : r \in {r \in registry : r.owner = o /\ r.proto = "udp"
                                                 /\ r.ip = a /\ r.port = port}}
  IN  IF shared[port] # 0 THEN {s} \cap {t \in Sockets : Mine(o, t)}
      ELSE IF hash(ip) # {} THEN hash(ip) ELSE hash(AnyIp)

\* Seeded fault: a tagged packet whose socket is gone is looked up anew, and
\* the address is not compared.
ReceiverAny(o) ==
  IF packet.tag # Null THEN {t \in Sockets : Mine(o, t) /\ sk[t].proto = "udp"}
  ELSE Found(o, packet.ip, packet.port)

\* udp_process: a tag must still resolve, otherwise the address is looked up.
Receiver(o) ==
  IF packet.tag # Null THEN {packet.tag} \cap {t \in Sockets : Mine(o, t)}
  ELSE Found(o, packet.ip, packet.port)

Deliver(o) ==
  /\ Idle(o)
  /\ packet # Null /\ packet.at = "owner" /\ packet.owner = o
  /\ packet' = [packet EXCEPT !.at = "done", !.matched = Receiver(o)]
  /\ UNCHANGED <<sk, bindings, shared, endpoints, flows, registry, op>>

Consume ==
  /\ packet # Null /\ packet.at = "done"
  /\ packet' = Null
  /\ UNCHANGED <<sk, bindings, shared, endpoints, flows, registry, op>>

Next ==
  \/ \E o \in Owners :
       \/ Register(o) \/ Unbind(o) \/ Unlisten(o) \/ ImplicitBind(o)
       \/ ConnRegister(o) \/ FreeBinding(o)
       \/ \E s \in Sockets :
            \/ Create(o, s) \/ Listen(o, s) \/ Free(o, s)
            \/ \E peer \in Peers : Connect(o, s, peer)
                                   \/ \E l \in Sockets : Child(o, l, s, peer)
            \/ \E ip \in Ips, port \in Ports : Bind(o, s, ip, port)
  \/ "udp" \in Protocols /\ (Arrive \/ Dispatch \/ Consume \/ \E o \in Owners : Deliver(o))

Spec == Init /\ [][Next]_vars

-----------------------------------------------------------------------------
(***************************************************************************)
(* Properties                                                              *)
(***************************************************************************)

Indexes == DOMAIN bindings
Clash(i, j) == /\ i # j
               /\ bindings[i].proto = bindings[j].proto
               /\ bindings[i].port = bindings[j].port
               /\ bindings[i].ip = bindings[j].ip \/ AnyIp \in {bindings[i].ip, bindings[j].ip}

\* Addresses are shared only by sockets that both set SO_REUSEADDR before they
\* were bound, and two listeners never overlap, whichever owners they are on.
NoConflict ==
  \A i, j \in Indexes : Clash(i, j) =>
    /\ bindings[i].reuse /\ bindings[j].reuse
    /\ ~(bindings[i].listener /\ bindings[j].listener)

\* Reservations are neither leaked nor lost on the error paths of bind, listen
\* and connect: each belongs to a socket that knows it, and each datagram port
\* counts the sockets that share it.
ReservationsExact ==
  /\ \A s \in Sockets :
       Cardinality({i \in Indexes : bindings[i].sk = s})
         = IF "bind" \in sk[s].flags THEN 1 ELSE 0
  /\ \A p \in AllPorts : shared[p] = Cardinality(
       {i \in Indexes : bindings[i].port = p /\ bindings[i].proto = "udp"
                        /\ bindings[i].reuse})

\* The tables agree: an endpoint the dispatcher knows belongs to a reservation
\* of a live socket of that owner, which the owner finds in its own hash.
EndpointsBacked ==
  /\ \A e \in endpoints : \E s \in Sockets :
       sk[s].life = "open" /\ Endpoint(s) = e /\ RegistryEntry(s) \in registry
       /\ \E i \in Indexes : bindings[i].sk = s
  /\ \A r \in registry : Endpoint(r.sk) \in endpoints

\* A four-tuple is registered for one connection of the process only, whichever
\* owners connect or accept at the same time.
FlowUnique == \A f, g \in flows : Tuple(f) = Tuple(g) => f = g

\* A datagram is given to at most one socket, which is open and was selected for
\* its address by the dispatcher or is bound to it now, although binds and frees
\* happen between the two lookups.
DeliveredRight ==
  [][packet # Null /\ packet' # Null /\ packet.at # packet'.at /\ packet'.at = "done" =>
       /\ Cardinality(packet'.matched) <= 1
       /\ \A s \in packet'.matched :
            /\ sk[s].life = "open" /\ sk[s].proto = "udp"
            /\ s = packet.tag \/ (sk[s].port = packet.port
                                  /\ sk[s].ip \in {AnyIp, packet.ip})]_vars

\* The sockets bound to exactly this address, and the one bound last.
BoundTo(ip, port) == {s \in Sockets : /\ sk[s].proto = "udp" /\ "bind" \in sk[s].flags
                                      /\ sk[s].ip = ip /\ sk[s].port = port}
LatestOf(S) == CHOOSE s \in S : \A t \in S : sk[t].born <= sk[s].born

\* Of the sockets that share a port a datagram goes to one bound to exactly its
\* address, of those to the one bound last, and falls back when that one closes.
SelectsLatest ==
  \A ip \in Ips \ {AnyIp}, port \in AllPorts :
    SelectUdp(ip, port) =
      IF BoundTo(ip, port) # {} THEN LatestOf(BoundTo(ip, port))
      ELSE IF BoundTo(AnyIp, port) # {} THEN LatestOf(BoundTo(AnyIp, port)) ELSE Null

=============================================================================
