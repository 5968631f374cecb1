----------------------------- MODULE TcpReceive -----------------------------
(***************************************************************************)
(* The receive half of one TCP connection on its owner core: window test   *)
(* and clipping, the out-of-order (OFO) queue with its limits and memory   *)
(* pressure, in-order delivery, short reads, end of stream, and the        *)
(* acknowledgements with their SACK and D-SACK blocks (tcp.c, tcp_ofo.c,   *)
(* tcp_options.c).                                                         *)
(* The peer sends a fixed stream; its segments arrive in any order, any    *)
(* number of times, cut anywhere, inside the window or not.  A byte is its *)
(* position in the stream; sequence numbers wrap modulo SeqSpace.          *)
(***************************************************************************)
EXTENDS Integers, Sequences, FiniteSets, SequencesExt, FiniteSetsExt

CONSTANTS
    SeqSpace, Isn,          \* 2^32, and the sequence number of byte 0
    StreamLen, MaxSeg,      \* bytes before the FIN; longest segment
    RcvBuf, Scale,          \* rcvbuf_size and rcv_wscale
    QueueCap,               \* blobs recv_buf holds
    Limits,                 \* OFO limits without pressure: [segs, bytes]
    Tiers,                  \* under pressure: sequence of [upTo, segs, bytes]
    OwnerMax, Enter, Exit,  \* OFO bytes of the owner core: cap and pressure marks
    LowWater, HighWater,    \* free pool objects that enter and leave pressure
    Pool,                   \* free pool objects a handler may find
    Others,                 \* OFO bytes other connections of the core may hold
    SackCap, HistoryMax,    \* SACK blocks per ACK, and remembered
    Null

\* What a configuration satisfies:
\*   /\ {SeqSpace, StreamLen, MaxSeg, RcvBuf, QueueCap, SackCap, HistoryMax} \subseteq Nat \ {0}
\*   /\ 2 * (StreamLen + RcvBuf + 1) < SeqSpace
\*   /\ \A k \in DOMAIN Tiers : Tiers[k].segs <= Limits.segs
\*   /\ Limits.segs * MaxSeg < RcvBuf   \* 32 chunks of 2 KiB do not fill 256 KiB
\*   /\ Pool \subseteq Nat /\ Others \subseteq Nat /\ 0 \in Others

VARIABLES
    b,       \* the connection's receive state, see Init
    read,    \* bytes the application has read
    others   \* OFO bytes of the core's other connections

vars == <<b, read, others>>

Init ==
    /\ b = [rcvNxt |-> Isn,     \* recv_ack
            used |-> 0,         \* rcvbuf_used
            rxq |-> <<>>,       \* recv_buf: blobs [at, len]
            cur |-> Null,       \* rx_current: the unread rest of a blob
            ofo |-> <<>>,       \* ofo list: [seq, at, len, fin], `at` being the first byte held
            eof |-> FALSE,      \* peer_eof
            status |-> "ESTABLISHED",
            peak |-> 0,         \* ofo_reorder_distance_peak
            owner |-> 0,        \* the core's OFO bytes_current
            pressure |-> FALSE,
            dsack |-> Null, recent |-> Null, history |-> <<>>,
            ackPending |-> FALSE,
            wnd |-> RcvBuf \div 2 ^ Scale,  \* window of the last ACK sent
            claimed |-> {},     \* history: bytes above rcvNxt reported in SACK blocks
            phantom |-> {},     \* history: D-SACKed bytes that were not duplicates
            pool |-> 0]         \* free pool objects, during a handler
    /\ read = 0 /\ others = 0

----------------------------------------------------------------------------
\* Serial-number arithmetic and the window.

Plus(s, n) == (s + n) % SeqSpace
Minus(s, t) == (s - t) % SeqSpace
\* tcp_seq_lt: the signed difference is negative.
Lt(s, t) == Minus(s, t) >= SeqSpace \div 2
Leq(s, t) == s = t \/ Lt(s, t)
Gt(s, t) == Lt(t, s)
Later(s, t) == IF Gt(s, t) THEN s ELSE t
Earlier(s, t) == IF Lt(s, t) THEN s ELSE t
End(g) == Plus(g.seq, g.len)

\* tcp_rcv_wnd, and what tcp_wire_rcv_wnd puts in the header.
Wnd(c) == IF c.used >= RcvBuf THEN 0 ELSE RcvBuf - c.used
WireWnd(c) == Wnd(c) \div 2 ^ Scale

SegLen(g) == g.len + (IF g.fin THEN 1 ELSE 0)
\* tcp_segment_acceptable.
Acceptable(c, g) ==
    IF Wnd(c) = 0 THEN SegLen(g) = 0 /\ g.seq = c.rcvNxt
    ELSE IF SegLen(g) = 0
    THEN ~Lt(g.seq, c.rcvNxt) /\ Lt(g.seq, Plus(c.rcvNxt, Wnd(c)))
    ELSE /\ Lt(g.seq, Plus(c.rcvNxt, Wnd(c)))
         /\ Gt(Plus(g.seq, SegLen(g)), c.rcvNxt)

Sub(x, y) == IF y >= x THEN 0 ELSE x - y

----------------------------------------------------------------------------
\* Memory pressure and limits of the out-of-order queue.

\* tcp_ofo_update_pressure: a latch with separate marks to enter and leave.
Pressed(c) ==
    IF c.pressure
    THEN ~(c.pool >= HighWater /\ c.owner <= Exit)
    ELSE c.pool <= LowWater \/ c.owner >= Enter
UpdatePressure(c) == [c EXCEPT !.pressure = Pressed(c)]

\* tcp_ofo_effective_limits for an episode that reached this far.
EffectiveLimits(c, distance) ==
    IF ~c.pressure THEN Limits
    ELSE Tiers[Min({k \in 1..Len(Tiers) : k = Len(Tiers) \/ distance <= Tiers[k].upTo})]

OfoBytes(c) == FoldLeft(LAMBDA n, g : n + g.len, 0, c.ofo)
\* tcp_ofo_metrics_release, tcp_ofo_unlink of the k-th segment.
Unlink(c, k) ==
    LET rest == RemoveAt(c.ofo, k) IN
    [c EXCEPT !.ofo = rest, !.owner = Sub(@, c.ofo[k].len),
              !.peak = IF rest = <<>> THEN 0 ELSE @]

\* tcp_ofo_purge.
Purge(c) ==
    [c EXCEPT !.used = Sub(@, OfoBytes(c)), !.owner = Sub(@, OfoBytes(c)),
              !.ofo = <<>>, !.peak = 0, !.recent = Null, !.history = <<>>, !.dsack = Null]

\* The caps tcp_ofo_link checks, tcp_ofo_owner_can_reserve among them.
Fits(c, len, limits) ==
    /\ len <= Wnd(c) /\ Len(c.ofo) < limits.segs /\ OfoBytes(c) + len <= limits.bytes
    /\ (len = 0 \/ c.owner + len <= OwnerMax)

\* tcp_ofo_link of g before the k-th segment; a node and, for data, a buffer
\* come from the pools.
Link(c, g, k) ==
    IF (g.len = 0 /\ ~g.fin) \/ (k <= Len(c.ofo) /\ c.ofo[k].seq = g.seq)
    THEN [conn |-> c, ok |-> TRUE]
    ELSE LET far == IF Gt(g.seq, c.rcvNxt) THEN Minus(g.seq, c.rcvNxt) ELSE 0
             episode == Max({far, c.peak})
             d == UpdatePressure(c)
         IN IF ~Fits(d, g.len, EffectiveLimits(d, episode)) \/ d.pool = 0
            THEN [conn |-> d, ok |-> FALSE]
            ELSE [conn |-> UpdatePressure(
                    [d EXCEPT !.ofo = InsertAt(@, k, g), !.peak = episode, !.used = @ + g.len,
                              !.owner = @ + g.len, !.pool = @ - 1]),
                  ok |-> TRUE]

\* A segment without its first n bytes.
Skip(g, n) == [g EXCEPT !.seq = Plus(@, n), !.at = @ + n, !.len = @ - n]
\* Nothing of g is left once its first n bytes are dropped.
Spent(g, n) == n > g.len \/ (n = g.len /\ ~g.fin)

RECURSIVE InsertFrom(_, _, _)
\* The loop of tcp_ofo_queue_insert: only the parts of g the queue does not
\* hold are linked, and a refused part ends the insertion.
InsertFrom(c, g, k) ==
    IF k > Len(c.ofo) \/ g.len = 0 THEN Link(c, g, k).conn
    ELSE LET held == c.ofo[k]
             skip == Minus(End(held), g.seq)
         IN IF Leq(End(held), g.seq) THEN InsertFrom(c, g, k + 1)
            ELSE IF Leq(End(g), held.seq) THEN Link(c, g, k).conn
            ELSE IF Lt(g.seq, held.seq)
            THEN LET gap == Link(c, [g EXCEPT !.len = Minus(held.seq, g.seq), !.fin = FALSE], k)
                 IN IF ~gap.ok \/ Spent(g, skip) THEN gap.conn
                    ELSE InsertFrom(gap.conn, Skip(g, skip), k + 2)
            ELSE IF Spent(g, skip) THEN c
            ELSE InsertFrom(c, Skip(g, skip), k + 1)

\* The right edge of the window cuts a segment and its FIN.
Clip(c, g) ==
    LET edge == Plus(c.rcvNxt, Wnd(c)) IN
    IF Gt(End(g), edge) THEN [g EXCEPT !.len = Minus(edge, g.seq), !.fin = FALSE] ELSE g

\* tcp_ofo_queue_insert; tcp_ofo_lower_bound and the overlap of its
\* predecessor only choose where the loop starts.
QueueInsert(c, g) ==
    LET late == Lt(g.seq, c.rcvNxt)
        skip == Minus(c.rcvNxt, g.seq)
        h == Clip(c, IF late THEN Skip(g, skip) ELSE g)
        first == Min({k \in 1..Len(c.ofo) : ~Lt(c.ofo[k].seq, h.seq)} \cup {Len(c.ofo) + 1})
        start == IF first > 1 /\ Gt(End(c.ofo[first - 1]), h.seq) THEN first - 1 ELSE first
    IN IF late /\ Spent(g, skip) THEN c
       ELSE IF ~Lt(IF late THEN c.rcvNxt ELSE g.seq, Plus(c.rcvNxt, Wnd(c))) THEN c
       ELSE IF h.len = 0 /\ ~h.fin THEN c
       ELSE InsertFrom(c, h, start)

----------------------------------------------------------------------------
\* Delivery.

CanDeliver(c) == c.pool > 0 /\ Len(c.rxq) < QueueCap
\* tcp_deliver_payload, where CanDeliver.
Deliver(c, g) ==
    IF g.len = 0 THEN c
    ELSE [c EXCEPT !.rxq = Append(@, [at |-> g.at, len |-> g.len]), !.pool = @ - 1]

RECURSIVE Drain(_)
\* tcp_ofo_drain: stale segments go, an overlap is trimmed off, a blob that
\* cannot be queued stops the drain, and the first FIN ends the stream.
Drain(c) ==
    IF c.ofo = <<>> \/ Gt(c.ofo[1].seq, c.rcvNxt) THEN c
    ELSE LET skip == Minus(c.rcvNxt, c.ofo[1].seq) IN
         IF skip > 0 /\ Spent(c.ofo[1], skip)
         THEN Drain([Unlink(c, 1) EXCEPT !.used = Sub(@, c.ofo[1].len)])
         ELSE LET g == Skip(c.ofo[1], skip)
                  d == [c EXCEPT !.ofo[1] = g, !.owner = Sub(@, skip), !.used = Sub(@, skip)]
                  e == [Unlink(Deliver(d, g), 1) EXCEPT !.rcvNxt = Plus(@, SegLen(g))]
              IN IF g.len > 0 /\ ~CanDeliver(d) THEN d
                 ELSE IF g.fin THEN Purge([e EXCEPT !.eof = TRUE]) ELSE Drain(e)

\* tcp_apply_peer_eof, in the two states an open application side can be in.
ApplyPeerEof(c) ==
    IF c.eof /\ c.status = "ESTABLISHED" THEN [c EXCEPT !.status = "CLOSE_WAIT"] ELSE c

----------------------------------------------------------------------------
\* Selective acknowledgements.

\* The part of [s, t) a held segment covers.
Overlap(g, s, t) == [left |-> Later(g.seq, s), right |-> Earlier(End(g), t)]
\* tcp_sack_note_duplicate: the first range of g received before.
NoteDuplicate(c, g) ==
    LET hits == {k \in 1..Len(c.ofo) :
                    LET o == Overlap(c.ofo[k], g.seq, End(g)) IN Lt(o.left, o.right)}
    IN [c EXCEPT !.dsack =
        IF g.len = 0 THEN Null
        ELSE IF Lt(g.seq, c.rcvNxt) THEN [left |-> g.seq, right |-> Earlier(End(g), c.rcvNxt)]
        ELSE IF hits = {} THEN Null
        ELSE Overlap(c.ofo[Min(hits)], g.seq, End(g))]

\* tcp_sack_note_recent: the last held range the trigger touches.
NoteRecent(c, g) ==
    LET hits == {k \in 1..Len(c.ofo) : /\ c.ofo[k].len > 0
                                       /\ Gt(End(c.ofo[k]), g.seq) /\ Gt(End(g), c.ofo[k].seq)}
    IN [c EXCEPT !.recent = IF g.len = 0 \/ hits = {} THEN Null
                            ELSE Overlap(c.ofo[Max(hits)], g.seq, End(g))]

\* tcp_ofo_insert.
OfoInsert(c, g) == NoteRecent(QueueInsert(NoteDuplicate(c, g), g), g)

Covers(x, y) == Leq(x.left, y.left) /\ Leq(y.right, x.right)

Touches(right, left) == ~Gt(left, right)
\* The held ranges above the cumulative ACK, neighbours merged.
Normalized(c) ==
    FoldLeft(LAMBDA out, g :
        LET left == Later(g.seq, c.rcvNxt)
            n == Len(out)
        IN IF g.len = 0 \/ ~Gt(End(g), c.rcvNxt) THEN out
           ELSE IF n > 0 /\ Touches(out[n].right, left)
           THEN [out EXCEPT ![n].right = Later(@, End(g))]
           ELSE Append(out, [left |-> left, right |-> End(g)]),
        <<>>, c.ofo)

\* tcp_options_add_distinct.
AddDistinct(out, blk) ==
    IF Len(out) >= SackCap \/ \E i \in DOMAIN out : Covers(out[i], blk) THEN out
    ELSE Append(out, blk)

\* tcp_options_history_push: move or add to the front.
HistoryPush(h, blk) ==
    LET same == {i \in DOMAIN h : Covers(h[i], blk) \/ Covers(blk, h[i])}
        rest == IF same = {} THEN h ELSE RemoveAt(h, Min(same))
    IN SubSeq(<<blk>> \o rest, 1, Min({HistoryMax, Len(rest) + 1}))

\* The held range around blk, if there is one.
Holders(norm, blk) == SelectSeq(norm, LAMBDA x : Covers(x, blk))

\* tcp_options_collect_sacks: the one-shot D-SACK and the range around it,
\* the range that triggered this ACK, remembered ranges, then the others.
CollectSacks(c) ==
    LET norm == Normalized(c)
        trig == IF c.recent = Null THEN {}
                ELSE {i \in DOMAIN norm : /\ Gt(norm[i].right, c.recent.left)
                                          /\ Gt(c.recent.right, norm[i].left)}
        history == IF trig = {} THEN c.history ELSE HistoryPush(c.history, norm[Min(trig)])
        duplicate == IF c.dsack = Null THEN <<>>
                     ELSE <<c.dsack>> \o (IF Gt(c.dsack.right, c.rcvNxt)
                                          THEN Holders(norm, c.dsack) ELSE <<>>)
        first == IF trig = {} THEN <<>> ELSE <<norm[Min(trig)]>>
        remembered == FoldLeft(LAMBDA s, blk : s \o Holders(norm, blk), <<>>, history)
    IN [sacks |-> FoldLeft(AddDistinct, <<>>, duplicate \o first \o remembered \o norm),
        history |-> history]

\* History: the stream bytes a block names, and those delivered or held.
BlockBytes(x) == {Minus(x.left, Isn) + k : k \in 0..(Minus(x.right, x.left) - 1)}
Delivered(c) == Minus(c.rcvNxt, Isn)
Held(c) == 0..(Delivered(c) - 1)
           \cup UNION {c.ofo[k].at..(c.ofo[k].at + c.ofo[k].len - 1) : k \in DOMAIN c.ofo}
\* RFC 2883: a first block below the ACK or inside the second one.
IsDsack(ack, s) ==
    s # <<>> /\ (Leq(s[1].right, ack) \/ (Len(s) > 1 /\ Covers(s[2], s[1])))

\* tcp_make_fragment of a pure ACK, with tcp_options_emit_sack, put on the
\* wire; the flush drops a pending ACK this one already carries.  `held` is
\* what the connection held before the segment answered.
SendAck(c, held) ==
    LET silent == c.dsack = Null /\ c.ofo = <<>>
        s == IF silent THEN [sacks |-> <<>>, history |-> c.history] ELSE CollectSacks(c)
    IN [c EXCEPT !.wnd = WireWnd(c), !.ackPending = FALSE, !.dsack = Null,
                 !.recent = IF silent THEN @ ELSE Null, !.history = s.history,
                 !.claimed = @ \cup UNION {BlockBytes(s.sacks[i]) : i \in DOMAIN s.sacks},
                 !.phantom = @ \cup (IF IsDsack(c.rcvNxt, s.sacks)
                                     THEN BlockBytes(s.sacks[1]) \ held ELSE {})]

----------------------------------------------------------------------------
\* The handlers.

\* The clipping of tcp_receive_stream_range: the FIN needs room too.
ClipSegment(c, g) ==
    LET h == Clip(c, g) IN
    [h EXCEPT !.fin = @ /\ Lt(End(h), Plus(c.rcvNxt, Wnd(c)))]

\* Seeded fault: a payload that could not be queued is acknowledged all the same.
InOrderLossy(c, h) ==
    LET d == [(IF CanDeliver(c) THEN Deliver(c, h) ELSE c) EXCEPT
                !.rcvNxt = Plus(@, SegLen(h)), !.used = @ + h.len]
    IN IF h.fin THEN Purge([d EXCEPT !.eof = TRUE]) ELSE Drain(d)
\* A segment at RCV.NXT is queued, or kept out of order when it cannot be.
InOrder(c, h) ==
    LET d == [Deliver(c, h) EXCEPT !.rcvNxt = Plus(@, SegLen(h)), !.used = @ + h.len] IN
    IF h.len > 0 /\ ~CanDeliver(c) THEN OfoInsert(c, h)
    ELSE IF h.fin THEN Purge([d EXCEPT !.eof = TRUE]) ELSE Drain(d)

\* tcp_receive_stream_range.
ReceiveRange(c, g) ==
    LET n == NoteDuplicate(c, g)
        h == ClipSegment(n, g)
    IN IF n.eof \/ ~Acceptable(n, g) THEN n
       ELSE ApplyPeerEof(IF h.seq = n.rcvNxt THEN InOrder(n, h) ELSE Drain(OfoInsert(n, h)))

\* The segment carrying bytes at .. at + len - 1, and the FIN after the last.
Segment(at, len, fin) == [seq |-> Plus(Isn, at), at |-> at, len |-> len, fin |-> fin]
Segments ==
    {Segment(at, len, fin) : at \in 0..StreamLen, len \in 0..MaxSeg, fin \in BOOLEAN}
Sendable == {g \in Segments : /\ g.at + g.len <= StreamLen
                              /\ g.fin => g.at + g.len = StreamLen
                              /\ SegLen(g) > 0}

\* During a handler the pools hold p objects.
Run(p) == [b EXCEPT !.pool = p]
Become(c) == b' = [c EXCEPT !.pool = 0, !.claimed = @ \ 0..(Delivered(c) - 1)]

\* tcp_receive_stream_segment: receive, then ACK now or with the next flush.
\* An ACK needs a fragment of the pools, and is lost without one.
Receive(g, p) ==
    LET c == ReceiveRange(Run(p), g)
        later == /\ ~g.fin /\ g.seq = b.rcvNxt /\ c.rcvNxt # b.rcvNxt
                 /\ c.ofo = <<>> /\ c.dsack = Null /\ ~c.eof
    IN /\ Become(IF later THEN [c EXCEPT !.ackPending = TRUE]
                 ELSE IF c.pool = 0 THEN c ELSE SendAck(c, Held(b)))
       /\ UNCHANGED <<read, others>>

\* tcp_process: PAWS rejects a stale segment, which is acknowledged.
PawsDrop(g) ==
    /\ b.status = "ESTABLISHED" /\ Acceptable(b, g)
    /\ Become(SendAck(NoteDuplicate(b, g), Held(b)))
    /\ UNCHANGED <<read, others>>

\* A read makes room: the queue is drained and the window announced.
AfterRead(c) == [ApplyPeerEof(Drain(c)) EXCEPT !.ackPending = TRUE]

\* tcp_recv of n bytes with something queued; a short read keeps the rest.
Recv(n, p) ==
    LET c == Run(p)
        blob == IF c.cur # Null THEN c.cur ELSE Head(c.rxq)
        m == Min({n, blob.len})
        rest == [at |-> blob.at + m, len |-> blob.len - m]
        d == [c EXCEPT !.rxq = IF c.cur # Null THEN @ ELSE Tail(@),
                       !.cur = rest, !.used = Sub(@, m)]
        e == AfterRead(d)
    IN /\ b.cur # Null \/ b.rxq # <<>>
       /\ Become(IF rest.len = 0 THEN [e EXCEPT !.cur = Null] ELSE e)
       /\ read' = read + m
       /\ UNCHANGED others

\* The end of tcp_tx_flush: an ACK still pending is sent by itself.
Flush ==
    /\ b.ackPending
    /\ Become(SendAck(b, Held(b)))
    /\ UNCHANGED <<read, others>>

\* Other connections of the core queue or release out-of-order bytes.
OthersMove ==
    \E n \in Others :
        /\ n # others /\ (n < others \/ b.owner - others + n <= OwnerMax)
        /\ others' = n
        /\ Become(UpdatePressure([b EXCEPT !.owner = Sub(@ + n, others), !.pool = Max(Pool)]))
        /\ UNCHANGED read

Next ==
    \/ \E g \in Sendable, p \in Pool : Receive(g, p)
    \/ \E g \in Sendable : PawsDrop(g)
    \/ \E n \in 1..MaxSeg, p \in Pool : Recv(n, p)
    \/ Flush
    \/ OthersMove

Spec == Init /\ [][Next]_vars

----------------------------------------------------------------------------
(* Properties *)

TypeOK ==
    /\ b.rcvNxt \in 0..(SeqSpace - 1) /\ b.used \in 0..RcvBuf
    /\ Len(b.rxq) <= QueueCap /\ Len(b.ofo) <= Limits.segs
    /\ b.eof \in BOOLEAN /\ b.pressure \in BOOLEAN /\ b.ackPending \in BOOLEAN
    /\ b.status = (IF b.eof THEN "CLOSE_WAIT" ELSE "ESTABLISHED")
    /\ b.pool = 0 /\ Len(b.history) <= HistoryMax
    /\ read \in 0..StreamLen /\ others \in Others

Pieces == (IF b.cur = Null THEN <<>> ELSE <<b.cur>>) \o b.rxq
Total(s) == FoldLeft(LAMBDA n, x : n + x.len, 0, s)

\* The application reads the peer's stream and nothing else: what it has not
\* read yet is queued in order, without a gap or a byte twice, from the next
\* byte it reads up to RCV.NXT, and the end of stream is declared only with
\* every byte delivered or queued (tcp_receive_stream_range, tcp_ofo_drain).
StreamExact ==
    /\ \A i \in DOMAIN Pieces : Pieces[i].at = read + Total(SubSeq(Pieces, 1, i - 1))
    /\ read + Total(Pieces) = (IF b.eof THEN StreamLen ELSE Delivered(b))
    /\ b.eof => Delivered(b) = StreamLen + 1

\* The out-of-order queue is strictly ordered, its segments are disjoint and
\* hold the bytes their sequence numbers name, across the wrap of the
\* sequence space (tcp_ofo_queue_insert, tcp_ofo_rekey_after_trim).
QueueSound ==
    /\ \A i \in DOMAIN b.ofo : b.ofo[i].seq = Plus(Isn, b.ofo[i].at)
    /\ \A i \in 1..(Len(b.ofo) - 1) :
          Lt(b.ofo[i].seq, b.ofo[i + 1].seq) /\ Leq(End(b.ofo[i]), b.ofo[i + 1].seq)

\* rcvbuf_used is the sum of the unread and the out-of-order bytes, and the
\* core's out-of-order account is the sum over its connections, so no path
\* (trim, stale drop, purge, short read) leaks or double-counts a byte.
BufferBooks ==
    /\ b.used = Total(Pieces) + OfoBytes(b)
    /\ b.owner = others + OfoBytes(b)

\* The out-of-order bytes of a core never exceed its cap, whichever
\* connections hold them (tcp_ofo_owner_can_reserve).
OwnerCap == b.owner <= OwnerMax

\* Out-of-order bytes shrink the window but never so far that the missing
\* bytes before them would be refused, and the window is never closed while
\* the application has nothing to read: a retransmission always gets in.
HoleFits ==
    /\ b.ofo # <<>> => Minus(b.ofo[1].seq, b.rcvNxt) <= Wnd(b)
    /\ Pieces = <<>> /\ ~b.eof => Wnd(b) > 0

\* No reneging: a byte that an ACK reported in a SACK block is delivered or
\* still held, so the peer may forget it (tcp_options_collect_sacks).
SacksHeld == b.claimed \subseteq Held(b)

\* A D-SACK block names only bytes that had already arrived before the
\* segment it answers (tcp_sack_note_duplicate runs before the insertion).
DsackReal == b.phantom = {}

\* A window that reopened after a zero window was announced is announced: no
\* other event would make the peer send (the end of tcp_recv).
WindowAnnounced == b.wnd = 0 /\ WireWnd(b) > 0 => b.ackPending

=============================================================================
