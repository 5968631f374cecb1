----------------------------- MODULE RxDispatch -----------------------------
(***************************************************************************)
(* The receive dispatcher of pro-stack/rx_dispatch.c: two open-addressed   *)
(* tables that map TCP connections and local endpoints to owner cores.     *)
(* Writers hold g_registry_lock; rx_dispatch_classify reads without it.    *)
(*                                                                         *)
(* Every atomic load of a reader is one step.  A writer's scan is one step *)
(* together with its first store, because nobody else writes under the     *)
(* lock; the three stores that publish a flow are separate steps.  Loads   *)
(* and stores are sequentially consistent here.                            *)
(***************************************************************************)
EXTENDS Integers, FiniteSets

CONSTANTS
  Flows,          \* TCP four-tuples
  Endpoints,      \* {protocol, local address, local port} triples
  Owners,         \* owner cores
  Readers,        \* cores that classify packets
  Ports,          \* Ports[f]: ports and protocol, the identity word of f
  FlowStart,      \* rx_dispatch_flow_start
  EndpointStart,  \* rx_dispatch_endpoint_start
  Exact,          \* Exact[f]: the endpoint a packet of f is addressed to
  Wildcard,       \* Wildcard[f]: the INADDR_ANY endpoint of that port
  FlowSize,       \* RX_DISPATCH_FLOW_TABLE_SIZE
  EndpointSize    \* RX_DISPATCH_ENDPOINT_TABLE_SIZE

FlowSlots     == 0..(FlowSize - 1)
EndpointSlots == 0..(EndpointSize - 1)

\* What a configuration satisfies:
\*   FlowSize \in Nat \ {0} /\ EndpointSize \in Nat \ {0}
\*   /\ FlowStart \in [Flows -> FlowSlots]
\*   /\ EndpointStart \in [Endpoints -> EndpointSlots]
\*   /\ Exact \in [Flows -> Endpoints]
\*   /\ Wildcard \in [Flows -> Endpoints]
\*   /\ \A f \in Flows : Exact[f] # Wildcard[f]

Empty     == <<"empty">>
Tombstone == <<"tombstone">>
NoOwner   == "none"
NoFlow    == "none"

FlowValue(f, o) == <<"flow", Ports[f], o>>
EndValue(e, o)  == <<"endpoint", e, o>>

FlowValues == {Empty, Tombstone} \cup {FlowValue(f, o) : f \in Flows, o \in Owners}
EndValues  == {Empty, Tombstone} \cup {EndValue(e, o) : e \in Endpoints, o \in Owners}

VARIABLES
  flowValue,    \* ports_protocol_owner word of each flow slot
  flowAddress,  \* addresses word of each flow slot; the flow stands for it
  endValue,     \* g_endpoint_entries
  writer,       \* the registration of a flow in progress, under the lock
  held,         \* NSOCK_REG_TCP_CONN flags: which owner registered which flow
  bound,        \* the same for endpoints
  reader,       \* what each reader has loaded so far
  steady,       \* history: pairs registered without a break since the lookup began
  seen          \* history: pairs registered at some moment of the lookup

tableVars   == <<flowValue, flowAddress, endValue>>
historyVars == <<steady, seen>>
vars        == <<tableVars, writer, held, bound, reader, historyVars>>

Stages == {"idle", "flow", "address", "verify", "exact", "wildcard", "done"}
Routes == {"flow", "exact", "wildcard", "hash"}

TypeOK ==
  /\ flowValue \in [FlowSlots -> FlowValues]
  /\ flowAddress \in [FlowSlots -> Flows \cup {NoFlow}]
  /\ endValue \in [EndpointSlots -> EndValues]
  /\ writer \in [pc : {"free", "address", "value"}, flow : Flows \cup {NoFlow},
                 owner : Owners \cup {NoOwner}, slot : FlowSlots]
  /\ held \subseteq Flows \X Owners
  /\ bound \subseteq Endpoints \X Owners
  /\ reader \in [Readers -> [stage : Stages, flow : Flows \cup {NoFlow},
                             probe : Nat, value : FlowValues,
                             address : Flows \cup {NoFlow},
                             result : Owners \cup {NoOwner}, route : Routes]]
  /\ steady \in [Readers -> SUBSET ((Flows \cup Endpoints) \X Owners)]
  /\ seen \in [Readers -> SUBSET ((Flows \cup Endpoints) \X Owners)]

Free == [pc |-> "free", flow |-> NoFlow, owner |-> NoOwner, slot |-> 0]
Idle == [stage |-> "idle", flow |-> NoFlow, probe |-> 0, value |-> Empty,
         address |-> NoFlow, result |-> NoOwner, route |-> "hash"]

\* rx_dispatch_configure_workers clears both tables.
Init ==
  /\ flowValue = [s \in FlowSlots |-> Empty]
  /\ flowAddress = [s \in FlowSlots |-> NoFlow]
  /\ endValue = [s \in EndpointSlots |-> Empty]
  /\ writer = Free /\ held = {} /\ bound = {}
  /\ reader = [r \in Readers |-> Idle]
  /\ steady = [r \in Readers |-> {}] /\ seen = [r \in Readers |-> {}]

-----------------------------------------------------------------------------
(***************************************************************************)
(* Probing.  A scan visits Slot 0, 1, ... and stops at an empty one.       *)
(***************************************************************************)
FlowSlot(f, i)     == (FlowStart[f] + i) % FlowSize
EndpointSlot(e, i) == (EndpointStart[e] + i) % EndpointSize

Least(S) == CHOOSE i \in S : \A j \in S : i <= j

\* The positions a scan for key k reaches in a table of n slots: those with
\* no empty slot before them.
FlowScan(f) ==
  {i \in FlowSlots : \A j \in 0..(i - 1) : flowValue[FlowSlot(f, j)] # Empty}
EndpointScan(e) ==
  {i \in EndpointSlots : \A j \in 0..(i - 1) : endValue[EndpointSlot(e, j)] # Empty}

FlowMatches(f) ==
  {i \in FlowScan(f) : \E o \in Owners :
     /\ flowValue[FlowSlot(f, i)] = FlowValue(f, o)
     /\ flowAddress[FlowSlot(f, i)] = f}
EndpointMatches(e) ==
  {i \in EndpointScan(e) : \E o \in Owners : endValue[EndpointSlot(e, i)] = EndValue(e, o)}

\* Where a new entry goes: the first tombstone met, else the empty slot that
\* ended the scan.
FlowRoom(f) ==
  LET dead  == {i \in FlowScan(f) : flowValue[FlowSlot(f, i)] = Tombstone}
      empty == {i \in FlowScan(f) : flowValue[FlowSlot(f, i)] = Empty}
  IN  IF dead # {} THEN dead ELSE empty
EndpointRoom(e) ==
  LET dead  == {i \in EndpointScan(e) : endValue[EndpointSlot(e, i)] = Tombstone}
      empty == {i \in EndpointScan(e) : endValue[EndpointSlot(e, i)] = Empty}
  IN  IF dead # {} THEN dead ELSE empty

-----------------------------------------------------------------------------
(***************************************************************************)
(* Writers.  Every operation but RegisterFlow is a single store under the  *)
(* lock.  An owner registers a key it does not hold yet (hash_add_unique   *)
(* on its own registry comes first) and unregisters one it holds.          *)
(***************************************************************************)
Publish(k, o) == seen' = [r \in Readers |-> seen[r] \cup {<<k, o>>}] /\ UNCHANGED steady
Retract(k, o) == steady' = [r \in Readers |-> steady[r] \ {<<k, o>>}] /\ UNCHANGED seen

\* Seeded fault: the scan for an existing entry ends at the first tombstone.
RegisterFlowShort(f, o) ==
  /\ writer.pc = "free" /\ <<f, o>> \notin held
  /\ FlowRoom(f) # {}
  /\ \A i \in FlowMatches(f) : Least(FlowRoom(f)) < i
  /\ LET s == FlowSlot(f, Least(FlowRoom(f)))
     IN  /\ flowValue' = [flowValue EXCEPT ![s] = Empty]
         /\ writer' = [pc |-> "address", flow |-> f, owner |-> o, slot |-> s]
  /\ UNCHANGED <<flowAddress, endValue, held, bound, reader, historyVars>>

\* rx_dispatch_register_tcp_value: scan, then clear the chosen value word.  A
\* key that is present (EADDRINUSE) and a full table (ENOSPC) change nothing.
RegisterFlow(f, o) ==
  /\ writer.pc = "free" /\ <<f, o>> \notin held
  /\ FlowMatches(f) = {} /\ FlowRoom(f) # {}
  /\ LET s == FlowSlot(f, Least(FlowRoom(f)))
     IN  /\ flowValue' = [flowValue EXCEPT ![s] = Empty]
         /\ writer' = [pc |-> "address", flow |-> f, owner |-> o, slot |-> s]
  /\ UNCHANGED <<flowAddress, endValue, held, bound, reader, historyVars>>

StoreAddress ==
  /\ writer.pc = "address"
  /\ flowAddress' = [flowAddress EXCEPT ![writer.slot] = writer.flow]
  /\ writer' = [writer EXCEPT !.pc = "value"]
  /\ UNCHANGED <<flowValue, endValue, held, bound, reader, historyVars>>

StoreValue ==
  /\ writer.pc = "value"
  /\ flowValue' = [flowValue EXCEPT ![writer.slot] = FlowValue(writer.flow, writer.owner)]
  /\ held' = held \cup {<<writer.flow, writer.owner>>}
  /\ Publish(writer.flow, writer.owner)
  /\ writer' = Free
  /\ UNCHANGED <<flowAddress, endValue, bound, reader>>

\* rx_dispatch_unregister_tcp_connection
UnregisterFlow(f, o) ==
  LET mine == {i \in FlowMatches(f) : flowValue[FlowSlot(f, i)] = FlowValue(f, o)}
  IN  /\ writer.pc = "free" /\ <<f, o>> \in held
      /\ flowValue' = IF mine = {} THEN flowValue
                      ELSE [flowValue EXCEPT ![FlowSlot(f, Least(mine))] = Tombstone]
      /\ held' = held \ {<<f, o>>} /\ Retract(f, o)
      /\ UNCHANGED <<flowAddress, endValue, writer, bound, reader>>

\* rx_dispatch_register_value: its compare-and-swap cannot fail under the lock.
RegisterEndpoint(e, o) ==
  /\ writer.pc = "free" /\ <<e, o>> \notin bound
  /\ EndpointMatches(e) = {} /\ EndpointRoom(e) # {}
  /\ endValue' = [endValue EXCEPT ![EndpointSlot(e, Least(EndpointRoom(e)))] = EndValue(e, o)]
  /\ bound' = bound \cup {<<e, o>>} /\ Publish(e, o)
  /\ UNCHANGED <<flowValue, flowAddress, writer, held, reader>>

\* rx_dispatch_unregister_value
UnregisterEndpoint(e, o) ==
  LET mine == {i \in EndpointScan(e) : endValue[EndpointSlot(e, i)] = EndValue(e, o)}
  IN  /\ writer.pc = "free" /\ <<e, o>> \in bound
      /\ endValue' = IF mine = {} THEN endValue
                     ELSE [endValue EXCEPT ![EndpointSlot(e, Least(mine))] = Tombstone]
      /\ bound' = bound \ {<<e, o>>} /\ Retract(e, o)
      /\ UNCHANGED <<flowValue, flowAddress, writer, held, reader>>

-----------------------------------------------------------------------------
(***************************************************************************)
(* Readers: rx_dispatch_classify of a TCP packet.  A UDP packet makes the  *)
(* endpoint lookups only, with the same code.                              *)
(***************************************************************************)
Set(r, rec) == reader' = [reader EXCEPT ![r] = rec]

Receive(r, f) ==
  /\ reader[r].stage \in {"idle", "done"}
  /\ Set(r, [Idle EXCEPT !.stage = "flow", !.flow = f])
  /\ steady' = [steady EXCEPT ![r] = held \cup bound]
  /\ seen' = [seen EXCEPT ![r] = held \cup bound]
  /\ UNCHANGED <<tableVars, writer, held, bound>>

Enter(m, stage) == [m EXCEPT !.stage = stage, !.probe = 0]
NextFlowSlot(m) ==
  IF m.probe + 1 < FlowSize THEN [m EXCEPT !.stage = "flow", !.probe = @ + 1]
  ELSE Enter(m, "exact")
Deliver(m, owner, route) ==
  [m EXCEPT !.stage = "done", !.result = owner, !.route = route]

\* rx_dispatch_lookup_tcp_connection: load the value word ...
ReadFlow(r) ==
  LET m == reader[r]
      v == flowValue[FlowSlot(m.flow, m.probe)]
  IN  /\ m.stage = "flow"
      /\ Set(r, IF v = Empty THEN Enter(m, "exact")
                ELSE IF \E o \in Owners : v = FlowValue(m.flow, o)
                THEN [m EXCEPT !.stage = "address", !.value = v]
                ELSE NextFlowSlot(m))
      /\ UNCHANGED <<tableVars, writer, held, bound, historyVars>>

\* ... then the address word ...
ReadAddress(r) ==
  LET m == reader[r]
  IN  /\ m.stage = "address"
      /\ Set(r, [m EXCEPT !.stage = "verify",
                          !.address = flowAddress[FlowSlot(m.flow, m.probe)]])
      /\ UNCHANGED <<tableVars, writer, held, bound, historyVars>>

\* ... and the value word again.
Verify(r) ==
  LET m == reader[r]
  IN  /\ m.stage = "verify"
      /\ Set(r, IF m.value = flowValue[FlowSlot(m.flow, m.probe)] /\ m.address = m.flow
                THEN Deliver(m, m.value[3], "flow")
                ELSE NextFlowSlot(m))
      /\ UNCHANGED <<tableVars, writer, held, bound, historyVars>>

\* rx_dispatch_lookup_endpoint, for the exact address and then for INADDR_ANY.
\* Without an owner the packet goes where its hash or its RX queue says.
ReadEndpoint(r) ==
  LET m == reader[r]
      e == IF m.stage = "exact" THEN Exact[m.flow] ELSE Wildcard[m.flow]
      v == endValue[EndpointSlot(e, m.probe)]
      missed == IF m.stage = "exact" THEN Enter(m, "wildcard")
                ELSE Deliver(m, NoOwner, "hash")
  IN  /\ m.stage \in {"exact", "wildcard"}
      /\ Set(r, IF v = Empty THEN missed
                ELSE IF \E o \in Owners : v = EndValue(e, o)
                THEN Deliver(m, v[3], m.stage)
                ELSE IF m.probe + 1 < EndpointSize THEN [m EXCEPT !.probe = @ + 1]
                ELSE missed)
      /\ UNCHANGED <<tableVars, writer, held, bound, historyVars>>

-----------------------------------------------------------------------------
Register ==
  \/ \E f \in Flows, o \in Owners : RegisterFlow(f, o) \/ UnregisterFlow(f, o)
  \/ StoreAddress \/ StoreValue
  \/ \E e \in Endpoints, o \in Owners : RegisterEndpoint(e, o) \/ UnregisterEndpoint(e, o)

Classify(r) ==
  \/ \E f \in Flows : Receive(r, f)
  \/ ReadFlow(r) \/ ReadAddress(r) \/ Verify(r) \/ ReadEndpoint(r)

Next == Register \/ \E r \in Readers : Classify(r)

Spec == Init /\ [][Next]_vars

-----------------------------------------------------------------------------
(***************************************************************************)
(* Properties                                                              *)
(***************************************************************************)

\* Two cores never own the same connection or the same endpoint, so that
\* rx_dispatch_register_* may report success to at most one of them.
OneOwner ==
  \A p, q \in held \cup bound : p[1] = q[1] => p = q

\* Between registrations the tables say exactly what the sockets registered:
\* a scan finds every registered key and nothing else.
TableMatches ==
  writer.pc = "free" =>
    /\ \A f \in Flows : {flowValue[FlowSlot(f, i)] : i \in FlowMatches(f)}
                          = {FlowValue(f, o) : o \in {x \in Owners : <<f, x>> \in held}}
    /\ \A e \in Endpoints : {endValue[EndpointSlot(e, i)] : i \in EndpointMatches(e)}
                          = {EndValue(e, o) : o \in {x \in Owners : <<e, x>> \in bound}}

Key(m) == CASE m.route = "flow"     -> m.flow
            [] m.route = "exact"    -> Exact[m.flow]
            [] m.route = "wildcard" -> Wildcard[m.flow]

\* A packet is handed to a core as the owner of its endpoint only if that core
\* owned it at some moment of the lookup; a connection that is hit was
\* registered at some moment of the lookup, whatever reused the slots meanwhile.
HitWasRegistered ==
  \A r \in Readers :
    LET m == reader[r]
    IN  m.stage = "done" /\ m.route # "hash" =>
          \E o \in Owners : <<Key(m), o>> \in seen[r] /\ (m.route # "flow" => m.result = o)

\* An endpoint that stays registered is found by every lookup that asks for it:
\* its packets are never left to the hash or to a less specific endpoint.
EndpointNeverMissed ==
  \A r \in Readers, o \in Owners :
    LET m == reader[r]
    IN  m.stage = "done" =>
          /\ <<Exact[m.flow], o>> \in steady[r] /\ m.route # "flow"
               => m.route = "exact" /\ m.result = o
          /\ <<Wildcard[m.flow], o>> \in steady[r] /\ m.route \notin {"flow", "exact"}
               => m.route = "wildcard" /\ m.result = o
=============================================================================
