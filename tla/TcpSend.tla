------------------------------ MODULE TcpSend -------------------------------
(***************************************************************************)
(* The sending half of one established TCP connection: the send buffer,    *)
(* the peer's window, cumulative and selective acknowledgements, the SACK  *)
(* scoreboard with its RFC 6675 NextSeg rules, NewReno without SACK,       *)
(* retransmission timeouts and the owner's dirty queue (tcp.c, tcp_sack.c, *)
(* tcp_rtt.c).  Segments reach the peer in any order, repeatedly or never, *)
(* and so do its acknowledgements.                                         *)
(* A byte is its position in the stream (the wrap of sequence numbers is   *)
(* the subject of TcpReceive); the two range lists of the scoreboard are   *)
(* sets of bytes whose maximal intervals are the list's nodes.  The        *)
(* congestion window is any value of Cwnds after each acknowledgement.     *)
(***************************************************************************)
EXTENDS Integers, Sequences, FiniteSets, SequencesExt, FiniteSetsExt

CONSTANTS
    Total, Mss,      \* bytes the application sends; segment size
    HiWat,           \* TCP_SNDBUF_APP_HIWAT
    FirstWnd,        \* window of the handshake; the peer opens it up to Total
    Cwnds,           \* congestion windows
    DupThresh,       \* TCP_SACK_DUP_THRESH
    ScoreMax,        \* TCP_SACK_SCORE_MAX_RANGES
    MaxRetries,      \* TCP_DATA_MAX_RETRIES
    SackOn,          \* sack_permitted
    Nodelay,         \* TCP_NODELAY
    Status,          \* ESTABLISHED, or CLOSE_WAIT once the peer has closed its side
    SackCap,         \* blocks the peer puts in an ACK
    MaxWire,         \* acknowledgements in flight
    Null

\* What a configuration satisfies:
\*   /\ {Total, Mss, HiWat, FirstWnd, DupThresh, ScoreMax, SackCap, MaxWire} \subseteq Nat \ {0}
\*   /\ Mss \in Cwnds /\ Cwnds \subseteq Nat /\ MaxRetries \in Nat
\*   /\ SackOn \in BOOLEAN /\ Nodelay \in BOOLEAN
\*   /\ Status \in {"ESTABLISHED", "CLOSE_WAIT"}

VARIABLES
    s,      \* the sender
    got,    \* bytes the peer has received
    edge,   \* first byte beyond the window the peer has opened
    wire    \* acknowledgements in flight

vars == <<s, got, edge, wire>>

Init ==
    /\ s = [una |-> 0, nxt |-> 0,          \* snd_una, sent_seq
            end |-> 0,                     \* head_seq + sndbuf.len
            wnd |-> FirstWnd, wl2 |-> 0,   \* snd_wnd, snd_wl2
            cwnd |-> Mss,
            mode |-> "NORMAL", dup |-> 0, limited |-> FALSE,
            high |-> 0, highRxt |-> 0, rescueRxt |-> 0, recPoint |-> 0,
            pend |-> Null,                 \* the recovery candidate
            sacked |-> {}, rexmit |-> {},  \* the scoreboard
            degraded |-> FALSE, degUntil |-> 0,
            armed |-> FALSE, retries |-> 0, dirty |-> FALSE,
            probe |-> Null, karn |-> FALSE,        \* rtt_probe_end_seq, rtt_retransmitting
            resent |-> {},                 \* history: retransmitted bytes in flight
            rescues |-> 0,                 \* history: rescues of this recovery
            adv |-> FirstWnd,              \* history: window of the last ACK processed
            alive |-> TRUE]
    /\ got = {} /\ edge = FirstWnd /\ wire = {}

----------------------------------------------------------------------------
\* The scoreboard.

Span(l, r) == l..(r - 1)
NumRanges(S) == Cardinality({i \in S : i - 1 \notin S})

\* sack_degrade: the scoreboard is given up until this flight is acknowledged.
Degrade(t) ==
    [t EXCEPT !.sacked = {}, !.rexmit = {}, !.degraded = TRUE, !.degUntil = t.high,
              !.mode = "NORMAL", !.dup = 0, !.limited = FALSE, !.pend = Null]

\* range_insert merges with what it touches, and else needs a list node.
NeedsNode(S, l, r) == S \cap ((l - 1)..r) = {}
NoNode(t, S, l, r) == NeedsNode(S, l, r) /\ NumRanges(t.sacked) + NumRanges(t.rexmit) >= ScoreMax

Trimmed(t, S) == S \cap Span(t.una, t.nxt)
\* tcp_sack_trim to the bytes still in flight.
Trim(t) ==
    [t EXCEPT !.sacked = Trimmed(t, @), !.rexmit = Trimmed(t, @), !.resent = Trimmed(t, @),
              !.degraded = @ /\ t.una < t.degUntil,
              !.pend = IF @ # Null /\ (@.seq >= t.nxt \/ t.una >= @.end) THEN Null ELSE @]

IsDsack(m) ==
    /\ m.sacks # <<>>
    /\ \/ m.sacks[1].r <= m.ack
       \/ Len(m.sacks) > 1 /\ m.sacks[2].l <= m.sacks[1].l /\ m.sacks[1].r <= m.sacks[2].r

\* A block clipped to the payload in flight.
Block(t, x) == Span(Max({x.l, t.una}), Min({x.r, t.nxt}))

\* The block loop of tcp_sack_update: [t, new bytes].
EnterBlocks(t, blocks) ==
    FoldLeft(LAMBDA a, x :
        LET B == Block(a.t, x) IN
        IF B = {} \/ a.t.degraded THEN a
        ELSE IF NoNode(a.t, a.t.sacked, Min(B), Max(B) + 1) THEN [t |-> Degrade(a.t), new |-> 0]
        ELSE [t |-> [a.t EXCEPT !.sacked = @ \cup B], new |-> a.new + Cardinality(B \ a.t.sacked)],
        [t |-> t, new |-> 0], blocks)

\* Leaving SACK or RTO recovery.
Leave(t) == [t EXCEPT !.mode = "NORMAL", !.dup = 0, !.limited = FALSE, !.pend = Null]

Recovered(t) == t.mode \in {"SACK", "RTO"} /\ t.una >= t.recPoint

\* tcp_sack_update.
SackUpdate(t, m) ==
    LET u == Trim(t)
        blocks == IF IsDsack(m) THEN Tail(m.sacks) ELSE m.sacks
        e == IF u.degraded \/ ~SackOn \/ u.una >= u.nxt THEN [t |-> u, new |-> 0]
             ELSE EnterBlocks(u, blocks)
    IN [t |-> IF Recovered(e.t) THEN Leave(e.t) ELSE e.t, new |-> e.new]

\* tcp_sack_is_lost: enough bytes or separate ranges were SACKed above q.
IsLost(t, q) ==
    \/ Cardinality({i \in t.sacked : i >= q}) > (DupThresh - 1) * Mss
    \/ Cardinality({i \in t.sacked : i > q /\ i - 1 \notin t.sacked}) >= DupThresh

\* tcp_sack_set_pipe: bytes thought to be in the network.
Pipe(t) ==
    LET open == Span(t.una, t.nxt) \ t.sacked IN
    Cardinality({i \in open : ~IsLost(t, i)})
    + Cardinality({i \in open \cap t.rexmit : i < t.highRxt})

\* The end of the unsacked interval around i, at most r.
IntervalEnd(t, i, r) == Min({r} \cup {j \in t.sacked : j > i})

\* candidate_set.
Candidate(t, new, rescue, l, r) ==
    IF l >= r THEN t
    ELSE [t EXCEPT !.pend = [new |-> new, rescue |-> rescue, seq |-> l, end |-> Min({r, l + Mss})]]

\* tcp_sack_enter_recovery.
EnterRecovery(t, mode) ==
    Candidate([t EXCEPT !.mode = mode, !.recPoint = t.nxt, !.highRxt = t.una,
                        !.rescueRxt = t.una, !.limited = FALSE, !.rescues = 0],
              FALSE, FALSE, t.una, Min({t.una + Mss, t.nxt}))

MayRescue(t) == t.una >= t.rescueRxt

\* tcp_sack_schedule_next: the NextSeg rules of RFC 6675.
ScheduleNext(t, allowNew) ==
    LET from == Max({t.highRxt, t.una})
        highest == Max({t.una} \cup {i + 1 : i \in t.sacked})
        holes == Span(from, highest) \ t.sacked
        all == Span(t.una, t.high) \ t.sacked
        last == Max(all)
        start == Max({last + 1 - Mss} \cup {i + 1 : i \in {j \in t.sacked : j < last}} \cup {t.una})
    IN IF t.pend # Null \/ t.degraded THEN t
       ELSE IF t.mode = "RTO"
       THEN IF all = {} THEN t ELSE Candidate(t, FALSE, FALSE, Min(all), IntervalEnd(t, Min(all), t.high))
       ELSE IF t.mode # "SACK" THEN t
       ELSE IF holes # {} /\ IsLost(t, Min(holes))
       THEN Candidate(t, FALSE, FALSE, Min(holes), IntervalEnd(t, Min(holes), highest))
       ELSE IF allowNew /\ t.high < t.end THEN Candidate(t, TRUE, FALSE, t.high, t.end)
       ELSE IF holes # {}
       THEN Candidate(t, FALSE, FALSE, Min(holes), IntervalEnd(t, Min(holes), highest))
       ELSE IF MayRescue(t) /\ all # {} THEN Candidate(t, FALSE, TRUE, start, last + 1)
       ELSE t

----------------------------------------------------------------------------
\* Acknowledgements.

\* tcp_update_snd_wnd_local: only ESTABLISHED applies windows, and the peer,
\* which sends no data here, orders them by their ACK number.
UpdateWnd(t, m) ==
    IF Status = "ESTABLISHED" /\ t.wl2 <= m.ack THEN [t EXCEPT !.wnd = m.wnd, !.wl2 = m.ack] ELSE t
WindowAccepted(t, m) == Status = "ESTABLISHED" /\ t.wl2 <= m.ack

\* The cumulative part: acknowledged bytes leave the buffer, and where the
\* timestamp echo matches the probe becomes an RTT sample (tcp_rtt_on_ack).
Cumulative(t, m, echo) ==
    [t EXCEPT !.una = m.ack, !.probe = IF echo /\ @ # Null /\ m.ack >= @ THEN Null ELSE @]

\* NewReno: a full ACK ends recovery, a partial one resends the next segment.
NewRenoAck(t, m) ==
    IF m.ack >= t.recPoint THEN [t EXCEPT !.mode = "NORMAL", !.dup = 0, !.pend = Null]
    ELSE IF t.una < t.nxt
    THEN Candidate([t EXCEPT !.pend = Null], FALSE, FALSE, t.una, Min({t.una + Mss, t.nxt}))
    ELSE t

\* Duplicate information: count it, and enter recovery at the threshold.
Duplicate(t, new, classic, progressed) ==
    LET more == [t EXCEPT !.dup = @ + 1] IN
    IF SackOn /\ new > 0 /\ t.mode = "NORMAL"
    THEN IF more.dup >= DupThresh \/ IsLost(t, t.una) THEN EnterRecovery(more, "SACK")
         ELSE [more EXCEPT !.limited = TRUE]
    ELSE IF ~SackOn /\ ~progressed /\ classic /\ t.una < t.nxt /\ t.mode = "NORMAL"
    THEN IF more.dup >= DupThresh THEN EnterRecovery(more, "NEWRENO") ELSE more
    ELSE t

\* Seeded fault: the timer is stopped by every cumulative ACK.
TimerAfterStopped(t) == [t EXCEPT !.armed = FALSE, !.retries = 0]
\* The timer stops with the last byte in flight and restarts otherwise.
TimerAfter(t) ==
    IF t.una = t.nxt THEN [t EXCEPT !.armed = FALSE, !.retries = 0, !.probe = Null, !.karn = FALSE]
    ELSE [t EXCEPT !.armed = TRUE, !.retries = 0]

\* An ACK marks the socket dirty (need_tx; window_need_tx if the window was accepted).
NeedTx(t, accepted) ==
    \/ t.pend # Null \/ t.mode = "SACK" \/ t.limited \/ t.nxt < t.end
    \/ accepted /\ t.nxt < t.end

\* tcp_process_peer_ack_ex, with congestion window w afterwards.
ProcessAck(m, w, echo) ==
    LET progressed == m.ack # s.una
        classic == Status = "ESTABLISHED" /\ m.wnd = s.wnd
        t0 == UpdateWnd([s EXCEPT !.adv = m.wnd, !.cwnd = w], m)
        t1 == IF progressed THEN Cumulative(t0, m, echo) ELSE t0
        u == SackUpdate(t1, m)
        t2 == IF s.mode = "NEWRENO" /\ progressed THEN NewRenoAck(u.t, m) ELSE u.t
        t3 == IF progressed THEN [t2 EXCEPT !.dup = 0] ELSE t2
        t4 == Duplicate(t3, u.new, classic, progressed)
        t5 == IF t4.mode = "RTO" /\ (progressed \/ u.new > 0) THEN ScheduleNext(t4, FALSE) ELSE t4
        t6 == IF progressed THEN TimerAfter(t5) ELSE t5
    IN IF m.ack < s.una \/ m.ack > s.nxt THEN s
       ELSE [t6 EXCEPT !.dirty = @ \/ NeedTx(t6, WindowAccepted(s, m))]

\* An ACK in flight reaches the connection.
ReceiveAck ==
    \E m \in wire, w \in Cwnds, echo \in BOOLEAN :
        /\ s.alive
        /\ s' = ProcessAck(m, w, echo)
        /\ wire' = wire \ {m}
        /\ UNCHANGED <<got, edge>>

----------------------------------------------------------------------------
\* Transmission.

\* tcp_app_snd_space, and tcp_send of n bytes.
Space == Max({0, Min({HiWat, s.wnd}) - (s.end - s.una)})
Write(n) ==
    /\ s.alive /\ n <= Space /\ s.end + n <= Total
    /\ s' = [s EXCEPT !.end = @ + n, !.dirty = TRUE]
    /\ UNCHANGED <<got, edge, wire>>

\* The candidate tcp_tx_flush_recovery_retransmit works on.
Scheduled ==
    IF s.pend = Null /\ s.mode = "SACK" /\ s.cwnd >= Pipe(s) + Mss
    THEN ScheduleNext(s, s.nxt < s.end) ELSE s

\* tcp_rtt_on_retransmit.
Retransmitted(t, c) ==
    [t EXCEPT !.resent = @ \cup Span(c.seq, c.end), !.probe = Null, !.karn = TRUE]

\* Seeded fault: HighRxt does not move.
MarkRetransmittedInPlace(t, c) ==
    [t EXCEPT !.rexmit = @ \cup Span(c.seq, c.end),
              !.rescueRxt = IF c.rescue THEN t.recPoint ELSE @,
              !.rescues = IF c.rescue THEN @ + 1 ELSE @]
MarkRetransmitted(t, c) ==
    [t EXCEPT !.rexmit = @ \cup Span(c.seq, c.end),
              !.rescueRxt = IF c.rescue THEN t.recPoint ELSE @,
              !.rescues = IF c.rescue THEN @ + 1 ELSE @,
              !.highRxt = IF c.rescue THEN @ ELSE Max({@, c.end})]
\* tcp_sack_commit_candidate of a retransmission.
Commit(t) ==
    LET c == t.pend IN
    IF NoNode(t, t.rexmit, c.seq, c.end) THEN Degrade(t)
    ELSE [MarkRetransmitted(t, c) EXCEPT !.pend = Null]

Resendable(t) == t.pend # Null /\ ~t.pend.new
Valid(t) == t.una < t.end /\ t.pend.seq >= t.una /\ t.pend.end <= t.nxt

\* One round of the recovery loop of tcp_tx_flush; where an allocation or the
\* output ring fails the round does not happen and the socket stays dirty.
FlushRecovery ==
    /\ s.alive /\ s.dirty /\ Resendable(Scheduled)
    /\ s' = LET t == Scheduled IN
            IF Valid(t) THEN Retransmitted(Commit(t), t.pend) ELSE [t EXCEPT !.pend = Null]
    /\ UNCHANGED <<got, edge, wire>>

Credit(t, inflight) == Max({0, Min({t.wnd, t.cwnd}) - inflight})

\* The length of the next new segment, or 0 (tcp_tx_flush_sndbuf).
NewLen(t) ==
    LET unsent == t.end - t.nxt
        isNew == t.pend # Null /\ t.pend.new
        inflight == IF t.mode = "SACK" \/ t.limited THEN Pipe(t) ELSE t.nxt - t.una
        cap == IF isNew /\ t.pend.seq = t.nxt THEN t.pend.end - t.nxt ELSE Mss
        nagle == ~Nodelay /\ t.nxt > t.una /\ unsent < Mss /\ ~isNew
    IN IF nagle THEN 0 ELSE Min({unsent, Credit(t, inflight), Mss, cap})

\* The first segment of a flight arms the timer and starts an RTT probe.
ArmForFlight(t, idle) == IF idle THEN [t EXCEPT !.armed = TRUE, !.retries = 0] ELSE t

\* One new segment.
FlushNew ==
    /\ s.alive /\ s.dirty /\ ~Resendable(Scheduled) /\ NewLen(Scheduled) > 0
    /\ s' = LET t == Scheduled
                idle == t.una = t.nxt
                to == t.nxt + NewLen(t)
                u == [t EXCEPT !.nxt = to, !.high = Max({@, to}), !.limited = FALSE,
                               !.pend = IF @ # Null /\ @.new THEN Null ELSE @,
                               !.probe = IF idle /\ ~t.karn /\ @ = Null THEN to ELSE @]
            IN ArmForFlight(u, idle)
    /\ UNCHANGED <<got, edge, wire>>

\* Nothing more can be sent: the socket leaves the dirty queue.
FlushIdle ==
    /\ s.alive /\ s.dirty /\ ~Resendable(Scheduled) /\ NewLen(Scheduled) = 0
    /\ s' = [Scheduled EXCEPT !.dirty = FALSE]
    /\ UNCHANGED <<got, edge, wire>>

\* tcp_sack_on_rto and tcp_rtt_on_timeout; the window falls to one segment.
AfterTimeout(t) ==
    [EnterRecovery([t EXCEPT !.sacked = {}, !.degraded = FALSE, !.dup = 0], "RTO") EXCEPT
        !.retries = @ + 1, !.cwnd = Mss, !.probe = Null, !.karn = TRUE, !.dirty = TRUE]

\* tcp_timer_cb in a data state; after MaxRetries the connection is aborted.
Timeout ==
    /\ s.alive /\ s.armed
    /\ s' = IF s.una = s.nxt THEN [s EXCEPT !.armed = FALSE]
            ELSE IF s.retries >= MaxRetries THEN [s EXCEPT !.alive = FALSE, !.armed = FALSE]
            ELSE AfterTimeout(s)
    /\ UNCHANGED <<got, edge, wire>>

----------------------------------------------------------------------------
\* The peer and the network.

FirstMissing(G) == Min((0..Total) \ G)
\* The blocks of an ACK: a duplicate first, then the range it arrived in,
\* then the other ranges from the top.
PeerBlocks(G, B, dup) ==
    LET a == FirstMissing(G)
        above == {i \in G : i > a}
        range(i) == [l |-> Max({j + 1 : j \in {k \in 0..Total : k < i /\ k \notin G}}),
                     r |-> Min({k \in 0..Total : k > i /\ k \notin G})]
        around == IF Min(B) > a THEN <<range(Min(B))>> ELSE <<>>
        others == {range(i) : i \in above} \ Range(around)
        rest == SetToSortSeq(others, LAMBDA x, y : x.l > y.l)
        d == IF dup THEN <<[l |-> Min(B), r |-> Max(B) + 1]>> ELSE <<>>
        list == d \o around \o rest
    IN IF SackOn THEN SubSeq(list, 1, Min({SackCap, Len(list)})) ELSE <<>>
Answer(G, e, B, dup) ==
    [ack |-> FirstMissing(G), wnd |-> e - FirstMissing(G), sacks |-> PeerBlocks(G, B, dup)]

\* A segment sent earlier arrives, for the first time or again; its answer
\* may be lost.
Arrive ==
    \E i \in 0..(s.nxt - 1), n \in 1..Mss :
        LET B == Span(i, i + n) IN
        /\ i + n <= s.nxt /\ i + n <= edge
        /\ got' = got \cup B
        /\ \/ wire' = wire
           \/ /\ Cardinality(wire) < MaxWire
              /\ wire' = wire \cup {Answer(got', edge, B, B \subseteq got)}
        /\ UNCHANGED <<s, edge>>

\* The peer's application reads: the window opens and an ACK says so.
PeerReads ==
    /\ edge < Total /\ Cardinality(wire) < MaxWire
    /\ \E e \in (edge + 1)..Total :
          /\ edge' = e
          /\ wire' = wire \cup {[ack |-> FirstMissing(got), wnd |-> e - FirstMissing(got), sacks |-> <<>>]}
    /\ UNCHANGED <<s, got>>

LoseAck ==
    /\ \E m \in wire : wire' = wire \ {m}
    /\ UNCHANGED <<s, got, edge>>

Next ==
    \/ \E n \in 1..Total : Write(n)
    \/ ReceiveAck \/ FlushRecovery \/ FlushNew \/ FlushIdle \/ Timeout
    \/ Arrive \/ PeerReads \/ LoseAck

Spec == Init /\ [][Next]_vars

----------------------------------------------------------------------------
(* Properties *)

TypeOK ==
    /\ 0 <= s.una /\ s.una <= s.nxt /\ s.nxt <= s.end /\ s.end <= Total
    /\ s.mode \in {"NORMAL", "SACK", "NEWRENO", "RTO"} /\ s.dup \in 0..DupThresh
    /\ s.retries \in 0..MaxRetries /\ s.cwnd \in Cwnds
    /\ s.pend # Null => s.pend.seq < s.pend.end /\ s.pend.end - s.pend.seq <= Mss
    /\ NumRanges(s.sacked) + NumRanges(s.rexmit) <= ScoreMax
    /\ got \subseteq 0..(Total - 1) /\ edge \in 1..Total /\ Cardinality(wire) <= MaxWire

\* The scoreboard tells the truth under lost, reordered and duplicate ACKs:
\* a byte marked SACKed is in flight and held by the peer, and only bytes the
\* peer holds have left the send buffer (tcp_sack_update, tcp_sack_trim).
ScoreTrue ==
    /\ s.sacked \subseteq got \cap Span(s.una, s.nxt)
    /\ s.rexmit \subseteq Span(s.una, s.nxt)
    /\ Span(0, s.una) \subseteq got

\* While a recovery lasts its recovery point lies ahead of SND.UNA, inside
\* the flight, so an ACK can still end it; HighData is SND.NXT, and a
\* scheduled retransmission lies in the flight (tcp_sack_enter_recovery).
RecoveryShape ==
    /\ s.high = s.nxt /\ s.highRxt <= s.nxt
    /\ s.mode # "NORMAL" => s.una < s.recPoint /\ s.recPoint <= s.nxt
    /\ s.pend # Null /\ ~s.pend.new => s.una < s.pend.end /\ s.pend.end <= s.nxt

\* At most one rescue retransmission per recovery (NextSeg rule 4).
RescueOnce == s.rescues <= 1

\* No byte is sent beyond the window the peer has opened, whatever order its
\* window updates arrive in (tcp_tx_flush_sndbuf).
WithinWindow == s.nxt <= edge

\* Bytes in flight always have a running timer, the only thing that recovers
\* from a lost tail (tcp_tx_flush_sndbuf, tcp_process_peer_ack_ex).
TimerCovers == s.alive /\ s.una < s.nxt => s.armed

\* Unsent bytes are never forgotten: with the socket off the dirty queue and
\* no timer running, the peer's window is what holds them back (need_tx).
NoForgottenData == s.alive /\ ~s.dirty /\ ~s.armed /\ s.nxt < s.end => s.wnd = 0

\* Karn's rule: while a retransmitted byte is in flight no RTT probe is
\* outstanding and none can start (tcp_rtt_on_retransmit).
KarnSafe == s.resent # {} => s.karn /\ s.probe = Null

\* The recovery loop of tcp_tx_flush makes progress: a retransmission inside
\* a SACK recovery moves HighRxt on or uses up the rescue, so no byte is
\* resent twice by the NextSeg rules and the loop ends.
ResendsAdvance ==
    (s.mode = "SACK" /\ s'.mode = "SACK" /\ s'.rexmit # s.rexmit /\ s'.una = s.una)
        => s'.highRxt > s.highRxt \/ s'.rescueRxt > s.rescueRxt

=============================================================================
