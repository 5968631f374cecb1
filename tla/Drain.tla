------------------------------- MODULE Drain --------------------------------
(***************************************************************************)
(* How a traffic-generator run ends (main_tg.c): every scheduling shard    *)
(* stops admitting, waits for its transactions, closes idle connections,   *)
(* waits for its sockets under a drain timer, and the last shard to drain  *)
(* stops all workers.  Nothing else stops a run.                           *)
(* Sockets are counted: `active' carry a transaction, `idle' wait in the   *)
(* connection pool, `closing' are on their way through TCP.                *)
(***************************************************************************)
EXTENDS Naturals, FiniteSets

CONSTANTS
    Workers,
    Scheduling,     \* workers with scheduling_enabled
    MaxStarts       \* flows a shard starts

ASSUME DrainAssumption ==
    Scheduling \subseteq Workers /\ Scheduling # {} /\ IsFiniteSet(Workers) /\ MaxStarts \in Nat

VARIABLES
    shard,          \* worker -> tg_shard
    remaining,      \* runtime.remaining_shards
    stop,           \* g_stop_requested
    main            \* "loop", "join" or "done"

vars == <<shard, remaining, stop, main>>

Fresh ==
    [pc |-> "turn", stopped |-> FALSE, active |-> 0, idle |-> 0, closing |-> 0, starts |-> 0,
     draining |-> FALSE, timer |-> FALSE, started |-> FALSE, expired |-> FALSE,
     forced |-> FALSE, drained |-> FALSE, clean |-> FALSE]

Init ==
    /\ shard = [w \in Workers |-> Fresh]
    /\ remaining = Cardinality(Scheduling)
    /\ stop = FALSE /\ main = "loop"

Live(h) == h.active + h.idle + h.closing
Shard(w, h) == shard' = [shard EXCEPT ![w] = h]
Runs(w) == shard[w].pc = "turn" /\ ~stop

----------------------------------------------------------------------------
\* Between ticks: socket events and timers of the worker's turn.

\* The end of a transaction leaves its connection idle, closing or gone.
Ended(h, to) ==
    [h EXCEPT !.active = @ - 1,
              !.idle = IF to = "idle" THEN @ + 1 ELSE @,
              !.closing = IF to = "closing" THEN @ + 1 ELSE @]

FlowEnds(w) ==
    /\ Runs(w) /\ shard[w].active > 0
    /\ \E to \in {"idle", "closing", "gone"} :
           /\ to = "idle" => ~shard[w].draining
           /\ Shard(w, Ended(shard[w], to))
    /\ UNCHANGED <<remaining, stop, main>>

\* The peer closes an idle connection.
IdleCloses(w) ==
    /\ Runs(w) /\ shard[w].idle > 0
    /\ Shard(w, [shard[w] EXCEPT !.idle = @ - 1, !.closing = @ + 1])
    /\ UNCHANGED <<remaining, stop, main>>

SocketReleased(w) ==
    /\ Runs(w) /\ shard[w].closing > 0
    /\ Shard(w, [shard[w] EXCEPT !.closing = @ - 1])
    /\ UNCHANGED <<remaining, stop, main>>

\* tg_drain_timer_cb.
DrainTimer(w) ==
    /\ Runs(w) /\ shard[w].timer
    /\ Shard(w, [shard[w] EXCEPT !.timer = FALSE, !.expired = TRUE])
    /\ UNCHANGED <<remaining, stop, main>>

----------------------------------------------------------------------------
\* tg_shard_tick.

\* tg_flow_expire: overdue transactions are failed and their sockets closed.
Expire(h, n) == [h EXCEPT !.active = @ - n, !.closing = @ + n]

\* tg_scheduler_tick: starts on idle or new connections, or the end of the plan.
Admit(h, reused, fresh) ==
    [h EXCEPT !.active = @ + reused + fresh, !.idle = @ - reused, !.starts = @ + reused + fresh]
MayAdmit(h, reused, fresh) ==
    /\ h.stopped => reused + fresh = 0
    /\ h.starts + reused + fresh <= MaxStarts
    /\ reused <= h.idle

\* tg_close_idle_connections, once no transaction is left.
CloseIdle(h) ==
    IF h.stopped /\ h.active = 0 /\ ~h.draining
    THEN [h EXCEPT !.draining = TRUE, !.idle = 0, !.closing = @ + h.idle]
    ELSE h

Busy(h) == h.drained \/ ~h.stopped \/ h.active # 0

\* tg_resources_zero: no socket is left, and nothing else is held: a packet, a
\* timer other than the drain timer, memory of a pool, a resource the snapshot
\* could not count.
Zero(h, held) == Live(h) = 0 /\ ~held

StartDrain(h, armed, held) ==
    IF Zero(h, held) \/ h.started THEN h
    ELSE [h EXCEPT !.started = TRUE, !.timer = armed, !.expired = @ \/ ~armed]

\* owner_io_tcp_force_cleanup.
ForceCleanup(h) ==
    IF h.expired /\ ~h.forced THEN [h EXCEPT !.forced = TRUE, !.idle = 0, !.closing = 0] ELSE h

Finish(h) == [h EXCEPT !.drained = TRUE, !.timer = FALSE, !.clean = ~h.forced /\ Live(h) = 0]

Before(h, expired, reused, fresh, ends) ==
    CloseIdle([Admit(Expire(h, expired), reused, fresh) EXCEPT !.stopped = @ \/ ends])

\* Seeded fault: the last shard but one stops the run.
LastEarly(left) == left <= 2
Last(left) == left = 1

Tick(w, ends) ==
    /\ Runs(w) /\ w \in Scheduling
    /\ \E expired \in 0..shard[w].active, reused, fresh \in 0..MaxStarts, armed, held \in BOOLEAN :
           LET h == Before(shard[w], expired, reused, fresh, ends)
               d == ForceCleanup(StartDrain(h, armed, held))
               zero == Zero(h, held)
           IN  /\ MayAdmit(Expire(shard[w], expired), reused, fresh)
               /\ ends => ~shard[w].stopped /\ reused + fresh = 0
               /\ IF Busy(h)
                  THEN Shard(w, h) /\ UNCHANGED remaining
                  ELSE IF zero \/ d.forced
                       THEN /\ Shard(w, [Finish(d) EXCEPT !.pc = IF Last(remaining) THEN "stop" ELSE @])
                            /\ remaining' = remaining - 1
                       ELSE Shard(w, d) /\ UNCHANGED remaining
    /\ UNCHANGED <<stop, main>>

\* stack_runtime_request_stop, by the shard whose decrement was the last.
RequestStop(w) ==
    /\ shard[w].pc = "stop"
    /\ stop' = TRUE /\ Shard(w, [shard[w] EXCEPT !.pc = "turn"])
    /\ UNCHANGED <<remaining, main>>

----------------------------------------------------------------------------
\* stack_runtime_worker_entry leaves its loop; main waits for all workers.

WorkerExit(w) ==
    /\ shard[w].pc = "turn" /\ stop
    /\ Shard(w, [shard[w] EXCEPT !.pc = "exit"])
    /\ UNCHANGED <<remaining, stop, main>>

MainStops ==
    /\ main = "loop" /\ stop /\ main' = "join"
    /\ UNCHANGED <<shard, remaining, stop>>

MainJoins ==
    /\ main = "join" /\ \A w \in Workers : shard[w].pc = "exit"
    /\ main' = "done"
    /\ UNCHANGED <<shard, remaining, stop>>

Done == main = "done" /\ UNCHANGED vars

Next ==
    \/ \E w \in Workers : \/ FlowEnds(w) \/ IdleCloses(w) \/ SocketReleased(w) \/ DrainTimer(w)
                          \/ Tick(w, FALSE) \/ Tick(w, TRUE) \/ RequestStop(w) \/ WorkerExit(w)
    \/ MainStops \/ MainJoins \/ Done

Spec == Init /\ [][Next]_vars

----------------------------------------------------------------------------
(* Properties *)

\* tg_shard; a shard never has more sockets than flows it started.
ShardType ==
    [pc : {"turn", "stop", "exit"}, stopped : BOOLEAN, active : Nat, idle : Nat, closing : Nat,
     starts : 0..MaxStarts, draining : BOOLEAN, timer : BOOLEAN, started : BOOLEAN, expired : BOOLEAN,
     forced : BOOLEAN, drained : BOOLEAN, clean : BOOLEAN]

TypeOK ==
    /\ shard \in [Workers -> ShardType]
    /\ \A w \in Workers : Live(shard[w]) <= shard[w].starts
    /\ remaining \in Nat /\ stop \in BOOLEAN /\ main \in {"loop", "join", "done"}

\* A drained shard stays empty: no transaction, connection or timer is there
\* again while the run goes on; sockets are reclaimed by force only as the last
\* step of a drain, which is then not reported clean (tg_shard_tick).
DrainedStaysEmpty ==
    \A w \in Workers :
        /\ shard[w].drained => /\ w \in Scheduling /\ shard[w].stopped
                               /\ Live(shard[w]) = 0 /\ ~shard[w].timer
                               /\ shard[w].clean = ~shard[w].forced
        /\ shard[w].forced => shard[w].drained

\* No shard decides to stop the run, no worker leaves its loop and main does not
\* join before every scheduling shard has drained, and the counter that
\* decides it is the number of those that have not (remaining_shards).
StopJustified ==
    /\ remaining = Cardinality({w \in Scheduling : ~shard[w].drained})
    /\ (stop \/ main # "loop" \/ \E w \in Workers : shard[w].pc # "turn")
           => \A w \in Scheduling : shard[w].drained

\* How a run ends is right: it is stopped only by the last shard to drain, and a
\* shard that counted as drained has nothing left (tg_shard_tick, main_tg.c).
DrainSound == TypeOK /\ DrainedStaysEmpty /\ StopJustified

=============================================================================
