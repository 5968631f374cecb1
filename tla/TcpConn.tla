------------------------------ MODULE TcpConn -------------------------------
(***************************************************************************)
(* Opening and closing a TCP connection between two sockets of this stack: *)
(* the state handlers of tcp.c, retransmission of SYN, SYN+ACK, data and   *)
(* FIN, resets, the deferred FIN, linger and the close deadlines, over a   *)
(* network that delivers each segment at any time, repeatedly or never.    *)
(* Side "a" opens actively and may reconnect; side "b" is the child a      *)
(* listener makes of a SYN.                                                *)
(* A data segment holds one byte.  Sequence numbers of different           *)
(* incarnations are far apart (Isn).  The send queue is part of the        *)
(* network, the congestion window is Cwnd, and what the receive queue      *)
(* refuses counts as lost (TcpSend and TcpReceive model those).            *)
(***************************************************************************)
EXTENDS Integers, FiniteSets, FiniteSetsExt

CONSTANTS
    MaxData,        \* bytes each side's application writes, [Sides -> Nat]
    Cwnd,           \* bytes in flight
    Lingers,        \* SO_LINGER settings at close: "off", "zero", "timed"
    SynRetries,     \* TCP_SYN_MAX_RETRIES
    DataRetries,    \* TCP_DATA_MAX_RETRIES
    MaxInc,         \* connections of each side, [Sides -> Nat]
    Refusals,       \* the listener may have no room
    None

Sides == {"a", "b"}
Other(e) == IF e = "a" THEN "b" ELSE "a"
Apart == 100        \* distance of initial sequence numbers

\* What a configuration satisfies:
\*   /\ MaxData \in [Sides -> 0..10] /\ MaxInc \in [Sides -> 1..4] /\ Cwnd \in Nat \ {0}
\*   /\ Lingers \subseteq {"off", "zero", "timed"} /\ Lingers # {}
\*   /\ {SynRetries, DataRetries} \subseteq Nat /\ Refusals \in BOOLEAN

VARIABLES
    ep,     \* the control block of each side
    net,    \* every segment sent
    inc,    \* incarnations so far, per side
    born,   \* history: initial sequence number -> the peer's it answered
    wrote   \* history: initial sequence number -> bytes written

vars == <<ep, net, inc, born, wrote>>

Isn(e, n) == Apart * (2 * n + (IF e = "a" THEN 0 ELSE 1))
Isns == {Isn(e, n) : e \in Sides, n \in 0..4}

Closed ==
    [st |-> "CLOSED", isn |-> None, irs |-> None,
     una |-> 0, nxt |-> 0, end |-> 0,          \* snd_una, sent_seq, end of sndbuf
     rcv |-> 0, got |-> {}, fin |-> None,      \* recv_ack; bytes and FIN beyond it
     eof |-> FALSE, finDef |-> FALSE,
     read |-> 0,                               \* history: bytes delivered in order
     armed |-> FALSE, retries |-> 0,
     deadline |-> FALSE,                       \* close_deadline_cycles # 0
     closed |-> FALSE, err |-> FALSE]          \* app_closed, terminal_error
\* After nsock_free.
Freed == [Closed EXCEPT !.st = "NONE", !.closed = TRUE]

Init ==
    /\ ep = [e \in Sides |-> IF e = "a" THEN Closed ELSE Freed]
    /\ net = {} /\ inc = [e \in Sides |-> 0]
    /\ born = [i \in Isns |-> None] /\ wrote = [i \in Isns |-> 0]

----------------------------------------------------------------------------
\* Segments.

Seg(e, kind, seq, ack) == [to |-> Other(e), kind |-> kind, seq |-> seq, ack |-> ack]
HasAck(m) == m.kind \notin {"SYN", "RST"}
IsRst(m) == m.kind \in {"RST", "RSTACK"}

\* tcp_send_reset_reply, and the reset of an aborted stream.
ResetReply(e, m) ==
    IF IsRst(m) THEN {}
    ELSE IF HasAck(m) THEN {Seg(e, "RST", m.ack, 0)} ELSE {Seg(e, "RSTACK", 0, m.seq + 1)}
AbortReset(e, t) ==
    IF t.st \in {"CLOSED", "SYN_SENT", "TIME_WAIT"} THEN {} ELSE {Seg(e, "RSTACK", t.nxt, t.rcv)}

Buffered(t) == Max({0, t.end - t.una})   \* sndbuf.len
Data(e, t, seq) == {Seg(e, "DATA", seq, t.rcv)}
Fin(e, t, seq) == {Seg(e, "FIN", seq, t.rcv)}

\* tcp_abort_stream: the object stays for the application unless it has
\* closed it or never saw it.
Abort(t) ==
    IF t.closed \/ t.st = "SYN_RECV" THEN Freed
    ELSE [t EXCEPT !.st = "CLOSED", !.una = t.nxt, !.end = t.nxt, !.armed = FALSE,
                   !.deadline = FALSE, !.got = {}, !.err = TRUE]

\* CLOSED at the end of an orderly close.
EndOf(t) ==
    IF t.closed THEN Freed
    ELSE [t EXCEPT !.st = "CLOSED", !.una = t.nxt, !.end = t.nxt, !.armed = FALSE, !.got = {}]

\* tcp_enter_time_wait.
TimeWait(t) == [t EXCEPT !.st = "TIME_WAIT", !.retries = 0, !.deadline = FALSE, !.armed = TRUE]

----------------------------------------------------------------------------
\* State handlers: [t, out] is the control block and what it sends.

\* tcp_process_peer_ack.
Ack(t, m) ==
    IF ~HasAck(m) \/ m.ack < t.una \/ m.ack > t.nxt THEN t
    ELSE IF m.ack = t.una THEN t
    ELSE [t EXCEPT !.una = m.ack, !.retries = 0, !.armed = (m.ack # t.nxt)]

\* tcp_apply_peer_eof.
ApplyPeerEof(t) ==
    IF ~t.eof THEN t
    ELSE CASE t.st = "ESTABLISHED" -> [t EXCEPT !.st = "CLOSE_WAIT"]
           [] t.st = "FIN_WAIT_1" -> [t EXCEPT !.st = "CLOSING"]
           [] t.st = "FIN_WAIT_2" -> TimeWait(t)
           [] OTHER -> t

\* Seeded fault: a FIN is consumed although bytes before it are missing.
TakeEager(t, m) ==
    LET all == t.got \cup (IF m.kind = "DATA" THEN {m.seq} ELSE {})
        next == Min({i \in t.rcv..(t.rcv + Cardinality(all)) : i \notin all})
        fin == IF m.kind = "FIN" THEN m.seq ELSE t.fin
        u == [t EXCEPT !.read = @ + (next - t.rcv)]
    IN IF fin # None THEN [u EXCEPT !.rcv = fin + 1, !.got = {}, !.fin = None, !.eof = TRUE]
       ELSE [u EXCEPT !.rcv = next, !.got = {i \in all : i > next}, !.fin = fin]
\* tcp_receive_stream_range of a segment in the window.
Take(t, m) ==
    LET all == t.got \cup (IF m.kind = "DATA" THEN {m.seq} ELSE {})
        next == Min({i \in t.rcv..(t.rcv + Cardinality(all)) : i \notin all})
        fin == IF m.kind = "FIN" THEN m.seq ELSE t.fin
        u == [t EXCEPT !.read = @ + (next - t.rcv)]
    IN IF fin = next THEN [u EXCEPT !.rcv = next + 1, !.got = {}, !.fin = None, !.eof = TRUE]
       ELSE [u EXCEPT !.rcv = next, !.got = {i \in all : i > next}, !.fin = fin]

\* tcp_receive_stream_segment: data and FIN are acknowledged, always.
Receive(e, t, m) ==
    LET fresh == ~t.eof /\ m.seq >= t.rcv /\ m.seq < t.rcv + Apart
        u == IF fresh THEN ApplyPeerEof(Take(t, m)) ELSE t
    IN IF m.kind \notin {"DATA", "FIN"} THEN [t |-> t, out |-> {}]
       ELSE [t |-> u, out |-> {Seg(e, "ACK", u.nxt, u.rcv)}]

AcksSyn(t, m) == m.kind = "SYNACK" /\ m.ack = t.nxt + 1

\* The handshake is complete: the SYN consumes a sequence number.
Established(t) ==
    [t EXCEPT !.st = "ESTABLISHED", !.nxt = @ + 1, !.una = t.nxt + 1, !.end = t.nxt + 1,
              !.armed = FALSE]
SynSent(e, t, m) ==
    IF ~AcksSyn(t, m) THEN [t |-> t, out |-> {}]
    ELSE LET u == [Established(t) EXCEPT !.irs = m.seq, !.rcv = m.seq + 1] IN
         [t |-> u, out |-> {Seg(e, "ACK", u.nxt, u.rcv)}]

Completes(t, m) == HasAck(m) /\ m.ack = t.nxt + 1
\* A repeated SYN is answered again; data on the final ACK is not taken.
SynRecv(e, t, m) ==
    IF m.kind = "SYN"
    THEN [t |-> [t EXCEPT !.retries = 0, !.armed = TRUE], out |-> {Seg(e, "SYNACK", t.nxt, t.rcv)}]
    ELSE [t |-> IF Completes(t, m) THEN [Established(t) EXCEPT !.retries = 0] ELSE t, out |-> {}]

\* ESTABLISHED, CLOSE_WAIT and FIN_WAIT_2: the ACK, then the data.
Stream(e, t, m) == Receive(e, Ack(t, m), m)

\* Everything sent so far is acknowledged.
AcksAll(t, m) == HasAck(m) /\ m.ack = t.nxt
FinWait1(e, t, m) ==
    LET u == Ack(t, m)
        v == IF AcksAll(u, m) THEN [u EXCEPT !.st = "FIN_WAIT_2", !.deadline = TRUE, !.armed = TRUE]
             ELSE u
    IN Receive(e, v, m)
Closing(e, t, m) ==
    LET r == Receive(e, t, m)
        u == Ack(r.t, m)
    IN [t |-> IF AcksAll(u, m) THEN TimeWait(u) ELSE u, out |-> r.out]
LastAck(e, t, m) ==
    LET r == Receive(e, t, m)
        u == Ack(r.t, m)
    IN [t |-> IF AcksAll(u, m) THEN EndOf(u) ELSE u, out |-> r.out]

Handle(e, t, m) ==
    CASE t.st = "SYN_SENT" -> SynSent(e, t, m)
      [] t.st = "SYN_RECV" -> SynRecv(e, t, m)
      [] t.st \in {"ESTABLISHED", "CLOSE_WAIT", "FIN_WAIT_2"} -> Stream(e, t, m)
      [] t.st = "FIN_WAIT_1" -> FinWait1(e, t, m)
      [] t.st = "CLOSING" -> Closing(e, t, m)
      [] t.st = "LAST_ACK" -> LastAck(e, t, m)
      [] t.st = "TIME_WAIT" -> Receive(e, t, m)

\* Seeded fault: a reset is accepted whatever its numbers.
RstAcceptableAny(t, m) == t.st # "TIME_WAIT"
\* tcp_rst_acceptable.
RstAcceptable(t, m) ==
    CASE t.st = "SYN_SENT" -> m.kind = "RSTACK" /\ m.ack = t.nxt + 1
      [] t.st = "TIME_WAIT" -> FALSE
      [] OTHER -> m.seq = t.rcv

----------------------------------------------------------------------------
\* tcp_ingress of m at side e.

Become(e, t, out) == ep' = [ep EXCEPT ![e] = t] /\ net' = net \cup out

\* A segment for a live control block.
Dispatch(e, m) ==
    /\ m.to = e /\ ep[e].st \notin {"CLOSED", "NONE"}
    /\ IF IsRst(m)
       THEN Become(e, IF RstAcceptable(ep[e], m) THEN Abort(ep[e]) ELSE ep[e], {})
       ELSE LET r == Handle(e, ep[e], m) IN Become(e, r.t, r.out)
    /\ UNCHANGED <<inc, born, wrote>>

Opens(e, m) == e = "b" /\ m.kind = "SYN"

\* tcp_state_listen and tcp_stream_create.  A closed socket the application
\* still holds has left the tuple table and is forgotten here.
Listen(m) ==
    LET n == inc["b"]
        isn == Isn("b", n)
        t == [Closed EXCEPT !.st = "SYN_RECV", !.isn = isn, !.irs = m.seq, !.una = isn,
                            !.nxt = isn, !.end = isn, !.rcv = m.seq + 1, !.armed = TRUE]
    IN /\ m.to = "b" /\ Opens("b", m) /\ ep["b"].st \in {"CLOSED", "NONE"} /\ n < MaxInc["b"]
       /\ Become("b", t, {Seg("b", "SYNACK", isn, t.rcv)})
       /\ inc' = [inc EXCEPT !["b"] = @ + 1]
       /\ born' = [born EXCEPT ![isn] = m.seq]
       /\ UNCHANGED wrote

\* No control block: a reset, unless a listener takes the SYN.
Unmatched(e, m) ==
    /\ m.to = e /\ ep[e].st \in {"CLOSED", "NONE"} /\ (Opens(e, m) => Refusals)
    /\ Become(e, ep[e], ResetReply(e, m))
    /\ UNCHANGED <<inc, born, wrote>>

----------------------------------------------------------------------------
\* The application.

\* tcp_connect of a closed socket.
Connect ==
    LET n == inc["a"]
        isn == Isn("a", n)
    IN /\ ep["a"].st = "CLOSED" /\ ~ep["a"].closed /\ n < MaxInc["a"]
       /\ Become("a", [Closed EXCEPT !.st = "SYN_SENT", !.isn = isn, !.una = isn, !.nxt = isn,
                                     !.end = isn, !.armed = TRUE],
                 {Seg("a", "SYN", isn, 0)})
       /\ inc' = [inc EXCEPT !["a"] = @ + 1]
       /\ UNCHANGED <<born, wrote>>

\* tcp_send.
Write(e) ==
    LET t == ep[e] IN
    /\ t.st \in {"ESTABLISHED", "CLOSE_WAIT"} /\ ~t.closed /\ wrote[t.isn] < MaxData[e]
    /\ Become(e, [t EXCEPT !.end = @ + 1], {})
    /\ wrote' = [wrote EXCEPT ![t.isn] = @ + 1]
    /\ UNCHANGED <<inc, born>>

\* The FIN follows the last byte, at once or deferred to the flush.
StartClose(e, u, st) ==
    IF u.nxt < u.end
    THEN [t |-> [u EXCEPT !.st = st, !.finDef = TRUE, !.retries = 0,
                          !.armed = @ \/ u.una # u.nxt \/ u.deadline], out |-> {}]
    ELSE [t |-> [u EXCEPT !.st = st, !.nxt = @ + 1, !.retries = 0, !.armed = TRUE],
          out |-> Fin(e, u, u.nxt)]

\* tcp_close; without memory for the FIN the stream is aborted.
Close(e, linger) ==
    LET t == [ep[e] EXCEPT !.closed = TRUE]
        u == [t EXCEPT !.deadline = @ \/ linger = "timed"]
        begins == t.st \in {"ESTABLISHED", "CLOSE_WAIT"}
    IN /\ ~ep[e].closed /\ t.st \notin {"NONE", "SYN_RECV"}
       /\ \/ t.st \in {"CLOSED", "SYN_SENT"} /\ Become(e, Freed, {})
          \/ begins /\ linger = "zero" /\ Become(e, Freed, AbortReset(e, t))
          \/ /\ begins /\ linger # "zero"
             /\ LET r == StartClose(e, u, IF t.st = "ESTABLISHED" THEN "FIN_WAIT_1" ELSE "LAST_ACK")
                IN Become(e, r.t, r.out)
          \/ /\ begins /\ linger # "zero" /\ t.nxt = t.end
             /\ Become(e, Freed, AbortReset(e, t))
       /\ UNCHANGED <<inc, born, wrote>>

----------------------------------------------------------------------------
\* The owner's flush and timer.

Sending == {"ESTABLISHED", "CLOSE_WAIT", "FIN_WAIT_1", "CLOSING", "LAST_ACK"}
FlushData(e) ==
    LET t == ep[e] IN
    /\ t.st \in Sending /\ t.nxt < t.end /\ t.nxt - t.una < Cwnd
    /\ Become(e, [t EXCEPT !.nxt = @ + 1, !.armed = TRUE,
                           !.retries = IF t.una = t.nxt THEN 0 ELSE @], Data(e, t, t.nxt))
    /\ UNCHANGED <<inc, born, wrote>>

\* The deferred FIN of tcp_tx_flush.
FlushFin(e) ==
    LET t == ep[e] IN
    /\ t.st \in {"FIN_WAIT_1", "LAST_ACK", "CLOSING"} /\ t.finDef /\ t.nxt = t.una + Buffered(t)
    /\ \/ Become(e, [t EXCEPT !.nxt = @ + 1, !.finDef = FALSE, !.armed = TRUE], Fin(e, t, t.nxt))
       \/ Become(e, Abort(t), AbortReset(e, t))
    /\ UNCHANGED <<inc, born, wrote>>

Retry(t) == [t EXCEPT !.retries = @ + 1, !.armed = TRUE]

\* tcp_timer_cb without the deadline: [t, out].
Expired(e, t) ==
    CASE t.st = "SYN_SENT" ->
           IF t.retries < SynRetries THEN [t |-> Retry(t), out |-> {Seg(e, "SYN", t.nxt, 0)}]
           ELSE [t |-> Abort(t), out |-> {}]
      [] t.st = "SYN_RECV" ->
           IF t.retries < SynRetries THEN [t |-> Retry(t), out |-> {Seg(e, "SYNACK", t.nxt, t.rcv)}]
           ELSE [t |-> Freed, out |-> {}]
      [] t.st = "TIME_WAIT" -> [t |-> EndOf(t), out |-> {}]
      [] t.una = t.nxt -> [t |-> [t EXCEPT !.armed = FALSE], out |-> {}]
      [] OTHER ->
           IF t.retries >= DataRetries THEN [t |-> Abort(t), out |-> AbortReset(e, t)]
           ELSE [t |-> Retry(t), out |-> IF Buffered(t) > 0 THEN Data(e, t, t.una) ELSE Fin(e, t, t.una)]

\* The timer fires, before or after the close deadline; in FIN_WAIT_2 it is
\* the deadline.
Timer(e) ==
    LET t == ep[e] IN
    /\ t.armed /\ t.st \notin {"CLOSED", "NONE"}
    /\ \/ t.deadline /\ Become(e, Abort(t), AbortReset(e, t))
       \/ t.st # "FIN_WAIT_2" /\ LET r == Expired(e, t) IN Become(e, r.t, r.out)
    /\ UNCHANGED <<inc, born, wrote>>

Next ==
    \/ Connect
    \/ \E m \in net : Listen(m) \/ (\E e \in Sides : Dispatch(e, m) \/ Unmatched(e, m))
    \/ \E e \in Sides : Write(e) \/ FlushData(e) \/ FlushFin(e) \/ Timer(e)
                        \/ (\E l \in Lingers : Close(e, l))

Spec == Init /\ [][Next]_vars

----------------------------------------------------------------------------
(* Properties *)

Status == {"CLOSED", "NONE", "SYN_SENT", "SYN_RECV", "ESTABLISHED", "CLOSE_WAIT", "LAST_ACK",
           "FIN_WAIT_1", "FIN_WAIT_2", "CLOSING", "TIME_WAIT"}
Live(t) == t.st \notin {"CLOSED", "NONE"}
Synchronized(t) == Live(t) /\ t.st \notin {"SYN_SENT", "SYN_RECV"}
\* Two control blocks of one connection.
Paired(t, u) == Live(t) /\ Live(u) /\ t.irs = u.isn /\ u.irs = t.isn

TypeOK ==
    \A e \in Sides :
        LET t == ep[e] IN
        /\ t.st \in Status /\ t.una <= t.nxt /\ t.nxt <= t.end + 1
        /\ t.retries \in 0..Max({SynRetries, DataRetries})
        /\ t.finDef => t.closed /\ t.nxt <= t.end
        /\ t.st = "FIN_WAIT_2" => t.deadline /\ t.armed

\* No connection is made of segments of two incarnations: a synchronized
\* control block answers an initial number whose owner answered its own,
\* whatever old SYNs, SYN+ACKs and ACKs are still in the network
\* (tcp_state_syn_sent, tcp_state_syn_recv).
HandshakeSound ==
    \A e \in Sides :
        Synchronized(ep[e]) =>
            \/ e = "a" /\ ep[e].irs # None /\ born[ep[e].irs] = ep[e].isn
            \/ e = "b" /\ born[ep[e].isn] = ep[e].irs

\* The two sides never disagree about what was delivered: what one side
\* counts as acknowledged the other has received, and it has received
\* nothing that was not sent (tcp_process_peer_ack, tcp_receive_stream_range).
Agreement ==
    \A e \in Sides :
        LET t == ep[e]
            u == ep[Other(e)]
        IN Paired(t, u) /\ Synchronized(t) /\ Synchronized(u) => t.una <= u.rcv /\ u.rcv <= t.nxt

\* End of file means the whole stream: a side that has seen the peer's FIN
\* holds every byte the peer's application wrote (tcp_apply_peer_eof, the
\* deferred FIN of tcp_tx_flush).
EofComplete ==
    \A e \in Sides :
        LET t == ep[e] IN
        Live(t) /\ t.eof => t.read = wrote[t.irs]

\* A synchronized connection is reset only when its peer has given it up:
\* no old reset in the network can end a connection alive on both sides
\* (tcp_rst_acceptable).
ResetJustified ==
    \A e \in Sides :
        Synchronized(ep[e]) /\ ~Live(ep'[e]) /\ (\E m \in net : Dispatch(e, m) /\ IsRst(m))
            => ~Paired(ep[e], ep[Other(e)])

\* Once the FIN is sent its ACK is the ACK of everything: a side that then leaves
\* its FIN states orderly has a peer that received all of it (the acknum tests
\* of tcp_state_fin_wait_1, _closing and _last_ack).  Nothing is said while the
\* FIN is deferred: those tests then pass on the ACK of the data alone, and the
\* side leaves FIN_WAIT_1 or LAST_ACK with bytes unsent (FinAckedInFinWait2).
OrderlyClose ==
    \A e \in Sides :
        LET t == ep[e]
            u == ep[Other(e)]
        IN /\ t.st \in {"FIN_WAIT_1", "CLOSING", "LAST_ACK"} /\ ~t.finDef
           /\ Paired(t, u) /\ (\E m \in net : Dispatch(e, m) /\ ~IsRst(m))
           /\ ep'[e].st \in {"FIN_WAIT_2", "TIME_WAIT", "NONE"}
           => u.rcv = t.nxt /\ u.eof

\* Violated: FIN_WAIT_2 is entered by the ACK of what was sent so far, before
\* a deferred FIN was sent (tcp_state_fin_wait_1).
FinAckedInFinWait2 == \A e \in Sides : ep[e].st = "FIN_WAIT_2" => ~ep[e].finDef

=============================================================================
