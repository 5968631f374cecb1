---------------------------- MODULE TcpListener -----------------------------
(***************************************************************************)
(* Passive open in tcp.c: a listener's backlog credit (syn_pending), its   *)
(* list of half-open and unaccepted children, its accept queue and parked  *)
(* ACCEPTs, from the SYN to accept, reset, time-out, close and the forced  *)
(* cleanup of owner_io.c.                                                  *)
(* Control blocks come from the pool Kids and are reused after nsock_free. *)
(* The FIN states of an accepted child are one state, FIN; segments and    *)
(* sequence numbers are in TcpConn.                                        *)
(***************************************************************************)
EXTENDS Integers, Sequences, SequencesExt, FiniteSets

CONSTANTS
    Listeners, Kids, Peers,
    Backlogs,       \* arguments of nlisten
    Relisten,       \* nlisten is called on a listening socket too
    MaxRetries,     \* TCP_SYN_MAX_RETRIES
    MaxWaiters,     \* ACCEPTs parked at once
    None

\* What a configuration satisfies:
\*   /\ Backlogs \subseteq 0..7 /\ Backlogs # {} /\ Relisten \in BOOLEAN
\*   /\ {MaxRetries, MaxWaiters} \subseteq Nat

VARIABLES
    lst,    \* listener -> socket, accept queue, children and waiters
    kid,    \* child control blocks
    uaf     \* history: a freed control block was used
vars == <<lst, kid, uaf>>

\* Operators take and return the whole owner state.
W == [lst |-> lst, kid |-> kid, uaf |-> uaf]
Become(w) == lst' = w.lst /\ kid' = w.kid /\ uaf' = w.uaf

NoListener == [st |-> "NONE", backlog |-> 0, ring |-> 0, queue |-> <<>>, kids |-> <<>>,
               pending |-> 0, waiters |-> 0]
FreeKid == [st |-> "FREE", lsn |-> None, tuple |-> None, visible |-> FALSE,
            closed |-> FALSE, retries |-> 0]

Init ==
    /\ lst = [l \in Listeners |-> NoListener]
    /\ kid = [c \in Kids |-> FreeKid]
    /\ uaf = FALSE

----------------------------------------------------------------------------
\* tcp_listener_child_detach and _attach.
Detach(w, c) ==
    IF w.kid[c].lsn = None THEN w
    ELSE [w EXCEPT !.lst[w.kid[c].lsn].kids = SelectSeq(@, LAMBDA d : d # c),
                   !.kid[c].lsn = None]
Attach(w, l, c) == [w EXCEPT !.lst[l].kids = Append(@, c), !.kid[c].lsn = l]

\* Touching a control block after nsock_free.
Touch(w, c) == [w EXCEPT !.uaf = @ \/ w.kid[c].st = "FREE"]

\* nsock_free of a child.
Free(w, c) == [Detach(Touch(w, c), c) EXCEPT !.kid[c] = FreeKid]

\* Seeded fault: the credit of a half-open child is not returned.
ReturnCreditNever(w, c) == w
\* syn_pending-- for a half-open child with a listener.
ReturnCredit(w, c) ==
    LET l == w.kid[c].lsn IN
    IF w.kid[c].st = "SYN_RECV" /\ l # None /\ w.lst[l].pending > 0
    THEN [w EXCEPT !.lst[l].pending = @ - 1] ELSE w

\* tcp_abort_stream.
AbortStream(w, c) ==
    LET v == [ReturnCredit(Touch(w, c), c) EXCEPT !.kid[c].st = "CLOSED"]
    IN IF w.kid[c].closed \/ w.kid[c].st = "SYN_RECV" THEN Free(v, c) ELSE v

----------------------------------------------------------------------------
\* Listening.

\* nsocket: the listener's slot is allocated.
Create(l) ==
    /\ lst[l].st = "NONE"
    /\ Become([W EXCEPT !.lst[l].st = "CLOSED"])

Pow2(n) == CHOOSE p \in {1, 2, 4, 8, 16} : p >= n /\ (p > 1 => p \div 2 < n)
AtLeastOne(b) == IF b < 1 THEN 1 ELSE b
\* Usable entries of the ring made for a backlog.
RingRoom(b) == Pow2(AtLeastOne(b) + 1) - 1

\* tcp_listen; a failure to make the ring or to register leaves it closed.
Listen(l, b) ==
    \/ /\ lst[l].st = "CLOSED"
       /\ Become([W EXCEPT !.lst[l].st = "LISTEN", !.lst[l].backlog = AtLeastOne(b),
                           !.lst[l].ring = RingRoom(b), !.lst[l].pending = 0])
    \/ /\ lst[l].st = "LISTEN" /\ Relisten
       /\ Become([W EXCEPT !.lst[l].backlog = AtLeastOne(b)])

Registered(w, t) == \E c \in Kids : w.kid[c].st \notin {"FREE", "CLOSED"} /\ w.kid[c].tuple = t

HasRoom(s) == s.pending + Len(s.queue) < s.backlog

\* tcp_stream_create.
StreamCreate(w, l, p, c) ==
    [w EXCEPT !.kid[c] = [FreeKid EXCEPT !.st = "SYN_RECV", !.tuple = <<p, l>>]]

\* tcp_state_listen: no descriptor for the SYN+ACK, no timer, or half open.
Syn(l, p, c, outcome) ==
    LET v == [Attach(StreamCreate(W, l, p, c), l, c) EXCEPT !.lst[l].pending = @ + 1] IN
    /\ lst[l].st = "LISTEN" /\ HasRoom(lst[l])
    /\ ~Registered(W, <<p, l>>) /\ kid[c].st = "FREE"
    /\ CASE outcome = "nofragment" -> Become([Free(v, c) EXCEPT !.lst[l].pending = @ - 1])
         [] outcome = "notimer" -> Become(AbortStream(v, c))
         [] outcome = "sent" -> Become(v)

----------------------------------------------------------------------------
\* Accepting.

RECURSIVE WakeAccept(_, _)
\* socket_owner_wake_accept over tcp_accept_owned: serve parked ACCEPTs from
\* the queue, discarding children that were reset while they waited.
WakeAccept(w, l) ==
    IF w.lst[l].waiters = 0 \/ w.lst[l].queue = <<>> THEN w
    ELSE LET c == Head(w.lst[l].queue)
             v == [Touch(w, c) EXCEPT !.lst[l].queue = Tail(@)]
         IN IF v.kid[c].st = "CLOSED" THEN WakeAccept(Free(v, c), l)
            ELSE WakeAccept([Detach(v, c) EXCEPT !.kid[c].visible = TRUE,
                                                 !.lst[l].waiters = @ - 1], l)

\* ACCEPT, of a blocking and of a nonblocking socket (a nonblocking one behind
\* parked ones is in SocketOwner).
Accept(l, blocking) ==
    LET v == WakeAccept([W EXCEPT !.lst[l].waiters = @ + 1], l) IN
    /\ lst[l].st = "LISTEN" /\ lst[l].waiters < MaxWaiters
    /\ blocking \/ lst[l].waiters = 0
    /\ Become(IF blocking THEN v ELSE [v EXCEPT !.lst[l].waiters = 0])

\* A parked ACCEPT times out or is cancelled.
CancelAccept(l) ==
    /\ lst[l].waiters > 0
    /\ Become([W EXCEPT !.lst[l].waiters = @ - 1])

Enqueue(w, l, c) ==
    IF Len(w.lst[l].queue) < w.lst[l].ring
    THEN WakeAccept([w EXCEPT !.lst[l].queue = Append(@, c)], l)
    ELSE Free(w, c)

\* The final ACK in tcp_state_syn_recv.
FinalAck(c) ==
    LET v == [ReturnCredit(W, c) EXCEPT !.kid[c].st = "ESTABLISHED"] IN
    /\ kid[c].st = "SYN_RECV"
    /\ Become(IF kid[c].lsn = None THEN v ELSE Enqueue(v, kid[c].lsn, c))

----------------------------------------------------------------------------
\* What else happens to a child.

GiveUp(w, c) == Free(ReturnCredit(w, c), c)
\* The SYN_RECV branch of tcp_timer_cb: repeat, without a timer abort, give up.
SynTimer(c) ==
    /\ kid[c].st = "SYN_RECV"
    /\ \/ kid[c].retries < MaxRetries /\ Become([W EXCEPT !.kid[c].retries = @ + 1])
       \/ kid[c].retries < MaxRetries /\ Become(AbortStream(W, c))
       \/ kid[c].retries >= MaxRetries /\ Become(GiveUp(W, c))

\* The peer's RST (tcp_abort_on_rst), or its silence to an accepted child.
Reset(c) == kid[c].st \notin {"FREE", "CLOSED"} /\ Become(AbortStream(W, c))

PeerFin(c) == kid[c].st = "ESTABLISHED" /\ Become([W EXCEPT !.kid[c].st = "CLOSE_WAIT"])

\* tcp_close of an accepted child, at once or by FIN, and the end of the FIN.
CloseKid(c) ==
    LET v == [W EXCEPT !.kid[c].closed = TRUE] IN
    /\ kid[c].visible /\ ~kid[c].closed
    /\ \/ kid[c].st = "CLOSED" /\ Become(Free(v, c))
       \/ kid[c].st # "CLOSED" /\ Become(AbortStream(v, c))
       \/ kid[c].st # "CLOSED" /\ Become([v EXCEPT !.kid[c].st = "FIN"])
FinDone(c) == kid[c].st = "FIN" /\ Become(Free(W, c))

----------------------------------------------------------------------------
\* The end of a listener.

\* tcp_close_listener: the queue's children, then those left in the list;
\* a visible one is only detached.
CloseListener(w, l) ==
    LET u == FoldLeft(Free, w, w.lst[l].queue)
        v == FoldLeft(LAMBDA x, c : IF x.kid[c].visible THEN Detach(x, c) ELSE Free(x, c),
                      u, u.lst[l].kids)
    IN [v EXCEPT !.lst[l] = NoListener]

Close(l) ==
    \/ lst[l].st = "CLOSED" /\ Become([W EXCEPT !.lst[l] = NoListener])
    \/ lst[l].st = "LISTEN" /\ Become(CloseListener(W, l))

\* Seeded fault: children are aborted before their listeners.
ForceCleanupKidsFirst(w, ls, cs) ==
    LET u == FoldLeft(LAMBDA x, c : IF x.kid[c].st = "FREE" THEN x
                                    ELSE AbortStream([x EXCEPT !.kid[c].closed = TRUE], c), w, cs)
    IN FoldLeft(CloseListener, u, ls)
\* owner_io_tcp_force_cleanup: the listeners, then every other TCP socket.
ForceCleanup(w, ls, cs) ==
    LET u == FoldLeft(CloseListener, w, ls) IN
    FoldLeft(LAMBDA x, c : IF x.kid[c].st = "FREE" THEN x
                           ELSE AbortStream([x EXCEPT !.kid[c].closed = TRUE], c), u, cs)
Cleanup ==
    /\ (\E l \in Listeners : lst[l].st # "NONE") \/ (\E c \in Kids : kid[c].st # "FREE")
    /\ Become(ForceCleanup(W, SetToSeq(Listeners), SetToSeq(Kids)))

KidStep(c) == FinalAck(c) \/ SynTimer(c) \/ Reset(c) \/ PeerFin(c) \/ CloseKid(c) \/ FinDone(c)
Next ==
    \/ \E l \in Listeners :
        \/ Create(l) \/ CancelAccept(l) \/ Close(l)
        \/ \E b \in Backlogs : Listen(l, b)
        \/ \E x \in BOOLEAN : Accept(l, x)
        \/ \E p \in Peers, c \in Kids, o \in {"nofragment", "notimer", "sent"} : Syn(l, p, c, o)
    \/ \E c \in Kids : KidStep(c)
    \/ Cleanup

Spec == Init /\ [][Next]_vars

----------------------------------------------------------------------------
(* Properties *)

KidsOf(l, states) == {c \in Kids : kid[c].lsn = l /\ kid[c].st \in states}

\* Types, and a queue that fits its ring.
TypeOK ==
    /\ \A l \in Listeners :
        /\ lst[l].st \in {"NONE", "CLOSED", "LISTEN"} /\ lst[l].waiters \in 0..MaxWaiters
        /\ lst[l].queue \in Seq(Kids) /\ Len(lst[l].queue) <= lst[l].ring
        /\ lst[l].st = "LISTEN" => lst[l].backlog > 0
    /\ \A c \in Kids :
        /\ kid[c].st \in {"FREE", "SYN_RECV", "ESTABLISHED", "CLOSE_WAIT", "FIN", "CLOSED"}
        /\ kid[c].retries \in 0..MaxRetries /\ (kid[c].closed => kid[c].visible)

\* The backlog credit is exact: syn_pending is the number of half-open
\* children of the listener, on every path that ends a handshake
\* (tcp_state_listen, tcp_state_syn_recv, tcp_timer_cb, tcp_abort_stream).
PendingExact == \A l \in Listeners : lst[l].pending = Cardinality(KidsOf(l, {"SYN_RECV"}))

\* The accept queue holds exactly the listener's children that completed
\* their handshake, each once, reset or not, and none of them is accepted:
\* no queue entry dangles and no connection is lost (tcp_state_syn_recv,
\* tcp_abort_stream, tcp_accept_owned).
QueueExact ==
    \A l \in Listeners :
        /\ IsInjective(lst[l].queue) /\ IsInjective(lst[l].kids)
        /\ {lst[l].queue[i] : i \in DOMAIN lst[l].queue}
             = KidsOf(l, {"ESTABLISHED", "CLOSE_WAIT", "CLOSED"})
        /\ {lst[l].kids[i] : i \in DOMAIN lst[l].kids} = {c \in Kids : kid[c].lsn = l}
        /\ \A c \in KidsOf(l, {"ESTABLISHED", "CLOSE_WAIT", "CLOSED"}) : ~kid[c].visible

\* A child that no application holds belongs to a listening socket: nothing
\* survives its listener that only a listener could reclaim
\* (tcp_close_listener, "Destroy a listener and every passive child it still owns").
NoOrphans ==
    \A c \in Kids :
        kid[c].st # "FREE" /\ ~kid[c].visible
            => kid[c].lsn # None /\ lst[kid[c].lsn].st = "LISTEN"

\* No control block is used or freed again after nsock_free, whichever of
\* timer, reset, accept, close and forced cleanup comes first.
NoUseAfterFree == ~uaf

\* No wake-up is missed: while an ACCEPT is parked, the queue holds no
\* connection that could satisfy it (socket_owner_wake_accept).
NoMissedAccept ==
    \A l \in Listeners :
        lst[l].waiters > 0 =>
            \A i \in DOMAIN lst[l].queue : kid[lst[l].queue[i]].st = "CLOSED"

\* Half-open and waiting connections never exceed the largest backlog the
\* application asked for (the gate of tcp_state_listen).
BacklogBounds ==
    \A l \in Listeners :
        lst[l].pending + Len(lst[l].queue) <= AtLeastOne(Max(Backlogs))

=============================================================================
