-------------------------------- MODULE Udp --------------------------------
(***************************************************************************)
(* UDP on one owner core (udp.c, udp_memory.c): ingress into bounded       *)
(* receive queues, reads that may be short, sends split into datagrams,    *)
(* and egress through the output ring, with the packet buffers and queue   *)
(* nodes they take from their pools.  Ring sockets serve application       *)
(* threads; owner-local sockets serve the traffic generator.               *)
(* Neighbour resolution is a choice of the environment; ArpTx has it, and  *)
(* the owner-local send that waits for it and changes nothing here.        *)
(***************************************************************************)
EXTENDS Integers, Sequences, FiniteSets, SequencesExt, FiniteSetsExt

CONSTANTS Ring, Local, Null, Mbufs, Nodes, RxLimit, TxLimit, OutLimit,
          PayloadLimit, MaxDatagrams, Lengths, MaxSends

\* What a configuration satisfies:
\*   /\ Ring \cap Local = {} /\ Lengths \subseteq Nat
\*   /\ {Mbufs, Nodes, RxLimit, TxLimit, OutLimit, PayloadLimit, MaxDatagrams, MaxSends}
\*        \subseteq Nat \ {0}

Sockets == Ring \cup Local

VARIABLES
    open,      \* sockets in use
    rxq,       \* lengths of the datagrams queued for reading
    cur, off,  \* rx_current and rx_current_off
    sendq,     \* lengths of the datagrams queued for egress (ring sockets)
    out,       \* number of datagrams on the worker's output ring
    free,      \* packet buffers left in the pool
    nodes,     \* receive nodes left in the owner's pool
    unread,    \* history: bytes of accepted datagrams not yet read
    accepted, emitted, dropped, \* history: bytes of sends by fate, per socket
    ousted, woken               \* history: bytes lost in TxFlush, sockets with a woken sender

vars == <<open, rxq, cur, off, sendq, out, free, nodes, unread, accepted, emitted, dropped, ousted, woken>>
rx == <<rxq, cur, off, nodes, unread>>
race == <<ousted, woken>>
tx == <<sendq, out, accepted, emitted, dropped, race>>

Init ==
    /\ open = Sockets
    /\ rxq = [s \in Sockets |-> <<>>] /\ cur = [s \in Sockets |-> Null]
    /\ off = [s \in Sockets |-> 0]
    /\ sendq = [s \in Ring |-> <<>>] /\ out = 0
    /\ free = Mbufs /\ nodes = Nodes
    /\ unread = [s \in Sockets |-> 0]
    /\ accepted = [s \in Sockets |-> 0] /\ emitted = accepted /\ dropped = accepted
    /\ ousted = [s \in Ring |-> 0] /\ woken = {}

----------------------------------------------------------------------------
\* Receive.

\* Whether the socket's queue, and for an owner-local one the node pool, has room.
RxRoom(s) == Len(rxq[s]) < RxLimit /\ (s \in Local => nodes > 0)

\* udp_ingress of a valid datagram of n bytes; the buffer comes from the NIC.
\* Without room it is freed.
Ingress(s, n) ==
    /\ s \in open /\ free > 0
    /\ IF RxRoom(s)
       THEN /\ rxq' = [rxq EXCEPT ![s] = Append(@, n)]
            /\ nodes' = IF s \in Local THEN nodes - 1 ELSE nodes
            /\ free' = free - 1
            /\ unread' = [unread EXCEPT ![s] = @ + n]
       ELSE UNCHANGED <<rxq, nodes, free, unread>>
    /\ UNCHANGED <<open, cur, off, tx>>

\* udp_local_rx_dequeue returns the node as soon as the buffer is taken off.
NodeReturned(s) == IF s \in Local THEN nodes + 1 ELSE nodes

OffsetAfter(s, copied) == off[s] + copied

\* udp_recvfrom with room for n bytes: the current datagram, else the next one.
\* A short read keeps it and moves the offset; otherwise it is released.
Recvfrom(s, n) ==
    /\ s \in open /\ (cur[s] # Null \/ rxq[s] # <<>>)
    /\ LET taken == cur[s] = Null
           len == IF taken THEN Head(rxq[s]) ELSE cur[s]
           rest == len - off[s]
           copied == IF n < rest THEN n ELSE rest
       IN /\ rxq' = IF taken THEN [rxq EXCEPT ![s] = Tail(@)] ELSE rxq
          /\ nodes' = IF taken THEN NodeReturned(s) ELSE nodes
          /\ unread' = [unread EXCEPT ![s] = @ - copied]
          /\ IF copied < rest
             THEN /\ cur' = [cur EXCEPT ![s] = len]
                  /\ off' = [off EXCEPT ![s] = OffsetAfter(s, copied)]
                  /\ UNCHANGED free
             ELSE /\ cur' = [cur EXCEPT ![s] = Null]
                  /\ off' = [off EXCEPT ![s] = 0]
                  /\ free' = free + 1
    /\ UNCHANGED <<open, tx>>

----------------------------------------------------------------------------
\* Send.

Bytes(q) == FoldLeft(LAMBDA a, b : a + b, 0, q)

\* udp_datagram_shape.
Count(n) == IF n = 0 THEN 1 ELSE n \div PayloadLimit + (IF n % PayloadLimit # 0 THEN 1 ELSE 0)
\* The pieces udp_build_datagrams cuts.
Chunks(n) == [i \in 1..Count(n) |->
                IF n - (i - 1) * PayloadLimit < PayloadLimit
                THEN n - (i - 1) * PayloadLimit ELSE PayloadLimit]
Fits(n) == Count(n) <= MaxDatagrams

\* Buffers left when the pool runs out after some packets were built: they are freed.
AfterFailure(n) == free

\* udp_sendto on a ring socket: all datagrams are queued, or none.
Sendto(s, n) ==
    /\ s \in open \cap Ring /\ Fits(n) /\ accepted[s] + n <= MaxSends
    /\ \/ /\ free < Count(n)
          /\ free' = AfterFailure(n)
          /\ UNCHANGED <<sendq, accepted>>
       \/ /\ free >= Count(n) /\ Len(sendq[s]) + Count(n) > TxLimit
          /\ UNCHANGED <<free, sendq, accepted>>
       \/ /\ free >= Count(n) /\ Len(sendq[s]) + Count(n) <= TxLimit
          /\ sendq' = [sendq EXCEPT ![s] = @ \o Chunks(n)]
          /\ free' = free - Count(n)
          /\ accepted' = [accepted EXCEPT ![s] = @ + n]
    /\ UNCHANGED <<open, rx, out, emitted, dropped, race>>

\* udp_sendto_local with a resolved neighbour: what does not fit on the output
\* ring is freed and counted, and the send succeeds.
SendtoLocal(s, n) ==
    /\ s \in open \cap Local /\ Fits(n) /\ accepted[s] + n <= MaxSends
    /\ IF free < Count(n)
       THEN free' = AfterFailure(n) /\ UNCHANGED <<out, accepted, emitted, dropped>>
       ELSE LET fit == Min({Count(n), OutLimit - out})
                sent == SubSeq(Chunks(n), 1, fit)
                lost == SubSeq(Chunks(n), fit + 1, Count(n)) IN
            /\ out' = out + fit
            /\ free' = free - fit
            /\ accepted' = [accepted EXCEPT ![s] = @ + n]
            /\ emitted' = [emitted EXCEPT ![s] = @ + Bytes(sent)]
            /\ dropped' = [dropped EXCEPT ![s] = @ + Bytes(lost)]
    /\ UNCHANGED <<open, rx, sendq, race>>

\* The sends socket_owner_wake_send may find at the head of the wait queue that
\* did not fit while the first datagram was queued and fit once it is taken off;
\* -1 stands for none.
Wakes(s) ==
    {-1} \cup {n \in Lengths : /\ Fits(n) /\ Count(n) = TxLimit - Len(sendq[s]) + 1
                              /\ Count(n) <= free /\ accepted[s] + n <= MaxSends}

\* The queue that keeps the datagram of length n.
\* Seeded fault: a datagram that cannot leave is not put back.
PutBackNever(q, n) == q
PutBack(q, n) == IF Len(q) < TxLimit THEN Append(q, n) ELSE q

\* udp_tx_flush: one datagram is taken off, the place is offered to a parked
\* sender, and then the datagram leaves, or goes back to the tail while its
\* neighbour is unresolved or the output ring is full.  When the sender has taken
\* the place it is freed instead, and nothing counts it.
TxFlush(s) ==
    /\ s \in open \cap Ring /\ sendq[s] # <<>>
    /\ \E n \in Wakes(s) :
         LET took == n # -1
             bytes == IF took THEN n ELSE 0
             built == IF took THEN Count(n) ELSE 0
             d == Head(sendq[s])
             q == Tail(sendq[s]) \o IF took THEN Chunks(n) ELSE <<>>
             full == Len(q) >= TxLimit
         IN /\ accepted' = [accepted EXCEPT ![s] = @ + bytes]
            /\ woken' = IF took THEN woken \cup {s} ELSE woken
            /\ \/ /\ out < OutLimit /\ out' = out + 1
                  /\ sendq' = [sendq EXCEPT ![s] = q]
                  /\ emitted' = [emitted EXCEPT ![s] = @ + d]
                  /\ free' = free - built /\ UNCHANGED ousted
               \/ /\ sendq' = [sendq EXCEPT ![s] = PutBack(q, d)]
                  /\ ousted' = [ousted EXCEPT ![s] = IF full THEN @ + d ELSE @]
                  /\ free' = (free - built) + IF full THEN 1 ELSE 0
                  /\ UNCHANGED <<out, emitted>>
    /\ UNCHANGED <<open, rx, dropped>>

\* The NIC takes a packet off the output ring and frees its buffer.
Transmit ==
    /\ out > 0 /\ out' = out - 1 /\ free' = free + 1
    /\ UNCHANGED <<open, rx, sendq, accepted, emitted, dropped, race>>

Held(s) == Len(rxq[s]) + (IF cur[s] # Null THEN 1 ELSE 0) + (IF s \in Ring THEN Len(sendq[s]) ELSE 0)
CloseFrees(s) == Held(s)

\* udp_close: the current datagram and both queues are drained.
Close(s) ==
    /\ s \in open /\ open' = open \ {s}
    /\ rxq' = [rxq EXCEPT ![s] = <<>>] /\ cur' = [cur EXCEPT ![s] = Null]
    /\ off' = [off EXCEPT ![s] = 0] /\ unread' = [unread EXCEPT ![s] = 0]
    /\ nodes' = IF s \in Local THEN nodes + Len(rxq[s]) ELSE nodes
    /\ free' = free + CloseFrees(s)
    /\ dropped' = [dropped EXCEPT ![s] = @ + IF s \in Ring THEN Bytes(sendq[s]) ELSE 0]
    /\ sendq' = IF s \in Ring THEN [sendq EXCEPT ![s] = <<>>] ELSE sendq
    /\ UNCHANGED <<out, accepted, emitted, race>>

Next ==
    \/ \E s \in Sockets, n \in Lengths :
         Ingress(s, n) \/ Recvfrom(s, n) \/ Sendto(s, n) \/ SendtoLocal(s, n)
    \/ \E s \in Sockets : TxFlush(s) \/ Close(s)
    \/ Transmit

Spec == Init /\ [][Next]_vars

----------------------------------------------------------------------------
\* Properties

TypeOK ==
    /\ open \subseteq Sockets /\ free \in 0..Mbufs /\ nodes \in 0..Nodes
    /\ \A s \in Sockets : Len(rxq[s]) <= RxLimit /\ (cur[s] = Null => off[s] = 0)
    /\ \A s \in Ring : Len(sendq[s]) <= TxLimit
    /\ out \in 0..OutLimit

\* Every packet buffer is in the pool or in exactly one queue, whatever sends
\* fail half-way and whatever is closed with datagrams in it.
BuffersConserved ==
    free + out + MapThenSumSet(Held, Sockets) = Mbufs

\* A queue node is in use for each datagram an owner-local socket retains.
NodesConserved == nodes + MapThenSumSet(LAMBDA s : Len(rxq[s]), Local) = Nodes

\* A reader gets every byte of every accepted datagram once: what is unread is
\* the rest of the current datagram and all queued ones.
NoByteLost ==
    \A s \in open :
        unread[s] = (IF cur[s] = Null THEN 0 ELSE cur[s] - off[s]) + Bytes(rxq[s])

\* Every byte of an accepted send is queued, emitted, counted as dropped, or was
\* ousted by a send that was woken while its datagram was off the queue: the
\* pieces of a split send add up, and a ring socket that stays open and whose
\* senders never had to wait loses none, although a piece that cannot leave is
\* taken off its queue and put back (udp_tx_flush).
TxAccounted ==
    \A s \in Sockets :
        /\ accepted[s] = emitted[s] + dropped[s] + (IF s \in Ring THEN Bytes(sendq[s]) + ousted[s] ELSE 0)
        /\ s \in Ring \cap open => dropped[s] = 0
        /\ s \in Ring /\ ousted[s] > 0 => s \in woken
=============================================================================
