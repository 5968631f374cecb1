------------------------------ MODULE Runtime ------------------------------
(***************************************************************************)
(* The packet workers (stack_runtime.c) with their rings (ring.c) and the  *)
(* reassembly owned by queue 0 (ipv4_reassembly.c): frames from the NIC    *)
(* are processed, handed to the worker that owns them, or dropped; packets *)
(* the stack produces wait on the output ring for the NIC; stop drains.    *)
(* Packet buffers have an identity, and metadata that outlives their use.  *)
(* Routing (RxDispatch has it) may change while packets are on the rings.  *)
(***************************************************************************)
EXTENDS Integers, Sequences, FiniteSets, SequencesExt

CONSTANTS Workers,      \* queue ids, 0 among them
          Flows, Mbufs, RingSize, Burst, MaxArps, NumMod, None

\* What a configuration satisfies:
\*   /\ Workers \subseteq Nat /\ 0 \in Workers
\*   /\ {RingSize, Burst, MaxArps} \subseteq Nat \ {0} /\ NumMod \in Nat /\ NumMod > RingSize

Kinds == {"arp", "whole", "frag1", "frag2"}

VARIABLES
    free,      \* buffers in the mempool
    pkt,       \* buffer -> [kind, flow, learn, chain, seq]
    in, out,   \* the rings of each worker
    held,      \* fragments in the table of worker 0
    owner,     \* flow -> worker, as rx_dispatch_classify answers
    stop, running, released, \* g_stop_requested; workers in their loop; rings freed
    heard, lostTo, arps,     \* history: ARP frames handled by, lost on the way to, a worker
    produced, sent           \* history: packets produced and sent, modulo NumMod

vars == <<free, pkt, in, out, held, owner, stop, running, released, heard, lostTo, arps, produced, sent>>
control == <<owner, stop, running, released>>

Blank == [kind |-> "whole", flow |-> None, learn |-> FALSE, chain |-> None, seq |-> 0]

Init ==
    /\ free = Mbufs /\ pkt = [m \in Mbufs |-> Blank]
    /\ in = [w \in Workers |-> <<>>] /\ out = [w \in Workers |-> <<>>]
    /\ held = {} /\ owner \in [Flows -> Workers]
    /\ stop = FALSE /\ running = Workers /\ released = FALSE
    /\ heard = [w \in Workers |-> 0] /\ lostTo = [w \in Workers |-> 0] /\ arps = 0
    /\ produced = [w \in Workers |-> 0] /\ sent = [w \in Workers |-> 0]

----------------------------------------------------------------------------
\* Ingress.  In these operators m is the frame at hand with contents p, and
\* `rings` and `avail` are the input rings and the mempool without it.

\* rte_pktmbuf_free frees the segments chained to m as well.
Segments(m, p) == {m} \cup (IF p.chain = None THEN {} ELSE {p.chain})
\* Of a freed buffer only the metadata survives.
Wiped(ps, freed) ==
    [m \in Mbufs |-> IF m \in freed THEN [Blank EXCEPT !.learn = ps[m].learn] ELSE ps[m]]
Fits(ring) == Len(ring) < RingSize

\* rx_forward: m goes to the ring of worker q, or is freed and counted.
Forward(q, m, p, rings, avail) ==
    /\ IF Fits(rings[q])
       THEN /\ in' = [rings EXCEPT ![q] = Append(@, m)] /\ free' = avail
            /\ pkt' = [pkt EXCEPT ![m] = p] /\ UNCHANGED lostTo
       ELSE /\ in' = rings /\ free' = avail \cup Segments(m, p)
            /\ pkt' = Wiped([pkt EXCEPT ![m] = p], Segments(m, p))
            /\ lostTo' = IF p.kind = "arp" THEN [lostTo EXCEPT ![q] = @ + 1] ELSE lostTo
    /\ UNCHANGED <<out, heard, produced>>

\* dispatch_packet: the handler frees m; a reply (ARP, ICMP, transport) may take
\* a buffer to the output ring.  `ps` are the packets after earlier changes.
Deliver(w, m, p, avail, ps) ==
    \/ /\ free' = avail \cup Segments(m, p) /\ pkt' = Wiped(ps, Segments(m, p))
       /\ UNCHANGED <<out, produced>>
    \/ /\ Fits(out[w]) /\ ~p.learn
       /\ \E r \in avail :
            /\ pkt' = [Wiped(ps, Segments(m, p)) EXCEPT ![r].seq = produced[w]]
            /\ out' = [out EXCEPT ![w] = Append(@, r)]
            /\ produced' = [produced EXCEPT ![w] = (@ + 1) % NumMod]
            /\ free' = (avail \ {r}) \cup Segments(m, p)

\* An ARP frame goes to worker 0, which gives every other worker with room a
\* clone marked learn-only, as long as there are buffers.
ArpFrame(w, m, p, rings, avail) ==
    /\ p.kind = "arp"
    /\ \/ /\ w # 0 /\ ~p.learn
          /\ Forward(0, m, p, rings, avail) /\ UNCHANGED held
       \/ /\ p.learn
          /\ in' = rings /\ heard' = [heard EXCEPT ![w] = @ + 1]
          /\ Deliver(w, m, p, avail, [pkt EXCEPT ![m] = p])
          /\ UNCHANGED <<held, lostTo>>
       \/ /\ w = 0 /\ ~p.learn
          /\ LET to == {q \in Workers \ {0} : Fits(rings[q])} IN
             \E c \in [to -> avail \cup {None}] :
                LET used == {c[q] : q \in to} \ {None} IN
                /\ Cardinality(used) = Cardinality({q \in to : c[q] # None})
                /\ (\E q \in to : c[q] = None) => used = avail
                /\ in' = [q \in Workers |-> IF q \in to /\ c[q] # None
                                            THEN Append(rings[q], c[q]) ELSE rings[q]]
                /\ lostTo' = [q \in Workers |->
                                lostTo[q] + IF q # 0 /\ (q \notin to \/ c[q] = None) THEN 1 ELSE 0]
                /\ heard' = [heard EXCEPT ![0] = @ + 1]
                /\ Deliver(0, m, p, avail \ used,
                           [b \in Mbufs |-> IF b \in used THEN [p EXCEPT !.learn = TRUE]
                                            ELSE IF b = m THEN p ELSE pkt[b]])
          /\ UNCHANGED held

\* A whole packet is delivered by its owner and forwarded by anyone else.
WholePacket(w, m, p, rings, avail) ==
    \/ /\ owner[p.flow] # w
       /\ Forward(owner[p.flow], m, p, rings, avail)
    \/ /\ owner[p.flow] = w /\ in' = rings
       /\ Deliver(w, m, p, avail, [pkt EXCEPT ![m] = p])
       /\ UNCHANGED <<heard, lostTo>>

Peers(p) == {h \in held : pkt[h].flow = p.flow}

FragmentsElsewhere(w) == w # 0

\* A fragment goes to worker 0; there it waits for the other one, completes the
\* datagram, which is then an ordinary packet, or repeats a fragment, on which
\* the table gives up both.
Fragment(w, m, p, rings, avail) ==
    /\ p.kind \in {"frag1", "frag2"}
    /\ \/ FragmentsElsewhere(w) /\ Forward(0, m, p, rings, avail) /\ UNCHANGED held
       \/ /\ ~FragmentsElsewhere(w) /\ Peers(p) = {}
          /\ held' = held \cup {m} /\ in' = rings /\ free' = avail
          /\ pkt' = [pkt EXCEPT ![m] = p]
          /\ UNCHANGED <<out, heard, lostTo, produced>>
       \/ /\ ~FragmentsElsewhere(w)
          /\ \E h \in Peers(p) :
             \/ /\ pkt[h].kind = p.kind
                /\ held' = held \ {h} /\ in' = rings /\ free' = avail \cup {h, m}
                /\ pkt' = Wiped([pkt EXCEPT ![m] = p], {h, m})
                /\ UNCHANGED <<out, heard, lostTo, produced>>
             \/ /\ pkt[h].kind # p.kind
                /\ held' = held \ {h}
                /\ LET whole == [p EXCEPT !.kind = "whole", !.chain = h] IN
                   WholePacket(0, m, whole, rings, avail)

\* stack_runtime_rx_process
Process(w, m, p, rings, avail) ==
    \/ ArpFrame(w, m, p, rings, avail)
    \/ p.kind = "whole" /\ WholePacket(w, m, p, rings, avail) /\ UNCHANGED held
    \/ Fragment(w, m, p, rings, avail)

RxRing(w) ==
    /\ w \in running /\ in[w] # <<>>
    /\ Process(w, Head(in[w]), pkt[Head(in[w])], [in EXCEPT ![w] = Tail(@)], free)
    /\ UNCHANGED <<control, arps, sent>>

\* Seeded fault: the flag of the buffer's last use is kept.
FlagOnReceipt(m) == pkt[m].learn
\* The worker clears the metadata of a buffer the NIC hands it.
FlagCleared(m) == FALSE

RxNic(w, m, k, f) ==
    /\ w \in running /\ m \in free
    /\ k = "arp" => arps < MaxArps
    /\ arps' = IF k = "arp" THEN arps + 1 ELSE arps
    /\ Process(w, m, [kind |-> k, flow |-> f, learn |-> FlagCleared(m), chain |-> None, seq |-> 0],
               in, free \ {m})
    /\ UNCHANGED <<control, sent>>

\* ipv4_reassembly_maintain: a datagram that stays incomplete is given up.
Expire(h) ==
    /\ 0 \in running /\ h \in held
    /\ held' = held \ {h} /\ free' = free \cup {h} /\ pkt' = Wiped(pkt, {h})
    /\ UNCHANGED <<in, out, control, heard, lostTo, arps, produced, sent>>

\* The flow moves to another worker (its socket closed, another one opened).
Rehome(f, w) ==
    /\ owner[f] # w /\ owner' = [owner EXCEPT ![f] = w]
    /\ UNCHANGED <<free, pkt, in, out, held, stop, running, released, heard, lostTo, arps, produced, sent>>

----------------------------------------------------------------------------
\* Egress and shutdown.

\* Packets the NIC did not take stay at the head of the ring.
Kept(q, count, k) == SubSeq(q, k + 1, Len(q))

\* One burst of stack_runtime_tx_drain: the NIC takes k of the first packets.
TxDrain(w) ==
    /\ w \in running /\ out[w] # <<>>
    /\ LET count == IF Len(out[w]) < Burst THEN Len(out[w]) ELSE Burst IN
       \E k \in 0..count :
         /\ out' = [out EXCEPT ![w] = Kept(@, count, k)]
         /\ LET gone == {out[w][i] : i \in 1..Len(out[w]) - Len(out'[w])} IN
            free' = free \cup gone /\ pkt' = Wiped(pkt, gone)
         /\ sent' = [sent EXCEPT ![w] = (@ + k) % NumMod]
    /\ UNCHANGED <<in, held, control, heard, lostTo, arps, produced>>

RequestStop ==
    /\ ~stop /\ stop' = TRUE
    /\ UNCHANGED <<free, pkt, in, out, held, owner, running, released, heard, lostTo, arps, produced, sent>>

\* The worker leaves its loop: the output ring is emptied, sent or not; closing
\* the remaining sockets may put another packet on it.
Exit(w) ==
    /\ stop /\ w \in running /\ running' = running \ {w}
    /\ LET avail == free \cup Range(out[w]) IN
       \/ out' = [out EXCEPT ![w] = <<>>] /\ free' = avail
       \/ \E m \in avail : out' = [out EXCEPT ![w] = <<m>>] /\ free' = avail \ {m}
    /\ produced' = [produced EXCEPT ![w] = 0] /\ sent' = [sent EXCEPT ![w] = 0]
    /\ pkt' = Wiped(pkt, Range(out[w]))
    /\ UNCHANGED <<in, held, owner, stop, released, heard, lostTo, arps>>

\* ring_fini empties both rings of every worker: producers have joined.
Leftovers == UNION {Range(out[w]) \cup Range(in[w]) : w \in Workers}

\* main after the workers joined: ipv4_reassembly_fini, then ring_fini.
Release ==
    /\ running = {} /\ ~released /\ released' = TRUE
    /\ free' = free \cup held \cup UNION {Segments(m, pkt[m]) : m \in Leftovers}
    /\ held' = {}
    /\ in' = [w \in Workers |-> <<>>] /\ out' = [w \in Workers |-> <<>>]
    /\ UNCHANGED <<pkt, owner, stop, running, heard, lostTo, arps, produced, sent>>

Next ==
    \/ \E w \in Workers : RxRing(w) \/ TxDrain(w) \/ Exit(w)
    \/ \E w \in Workers, m \in Mbufs, k \in Kinds, f \in Flows : RxNic(w, m, k, f)
    \/ \E h \in held : Expire(h)
    \/ \E f \in Flows, w \in Workers : Rehome(f, w)
    \/ RequestStop \/ Release

Spec == Init /\ [][Next]_vars

----------------------------------------------------------------------------
\* Properties

Pending(w) == {m \in Range(in[w]) : pkt[m].kind = "arp"}
Queued == UNION {Range(in[w]) : w \in Workers}

TypeOK ==
    /\ free \subseteq Mbufs /\ held \subseteq Mbufs /\ running \subseteq Workers
    /\ \A w \in Workers : Len(in[w]) <= RingSize /\ Len(out[w]) <= RingSize
    /\ owner \in [Flows -> Workers] /\ {stop, released} \subseteq BOOLEAN

Places(m) ==
    (IF m \in free THEN 1 ELSE 0) + (IF m \in held THEN 1 ELSE 0)
    + Cardinality({<<w, i>> \in Workers \X (1..RingSize) : i <= Len(in[w]) /\ m \in Segments(in[w][i], pkt[in[w][i]])})
    + Cardinality({<<w, i>> \in Workers \X (1..RingSize) : i <= Len(out[w]) /\ m = out[w][i]})

\* A packet buffer is in exactly one place through every hand-off, clone,
\* reassembly, drop and shutdown, and all are back once the rings are released.
OnePlace == (\A m \in Mbufs : Places(m) = 1) /\ (released => free = Mbufs)

\* Each ARP frame is answered at most once, by worker 0, and every other worker
\* learns from it once unless its copy was dropped and counted, although copies
\* travel in recycled buffers that once carried the learn-only flag.
ArpAccounted ==
    ~released =>
        /\ heard[0] + lostTo[0] + Cardinality(Pending(0)) = arps
        /\ \A w \in Workers \ {0} : heard[w] + lostTo[w] + Cardinality(Pending(w)) = heard[0]

\* The NIC gets a worker's packets in the order they were produced and without
\* a gap, however few of a burst it accepts.
TxInOrder ==
    \A w \in running :
        /\ Len(out[w]) = (produced[w] - sent[w]) % NumMod
        /\ \A i \in DOMAIN out[w] : pkt[out[w][i]].seq = (sent[w] + i - 1) % NumMod

=============================================================================
