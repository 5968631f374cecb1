------------------------------- MODULE Report -------------------------------
(***************************************************************************)
(* The statistics of a run (main_tg.c, stats.c): owners count, capture     *)
(* interval snapshots into their channels and a final one at exit; the     *)
(* main core counts drops for them, writes the rows and, after the workers *)
(* joined, the totals.  A channel is the queue LossyQueue specifies.       *)
(* A snapshot carries one counter of each kind: `starts' counted by the    *)
(* owner since its last capture (scheduler_starts), `drops' counted by the *)
(* main core (rx_ring_drops) and `fails', which the memory pools never     *)
(* reset (tx_alloc_fail).  A capture is two steps: the exchange of the     *)
(* counter the main core shares, and the rest, which only the owner sees.  *)
(***************************************************************************)
EXTENDS Integers, Sequences

CONSTANTS
    N,              \* workers, 1..N
    Cap,            \* TG_STATS_CHANNEL_CAP
    MaxEvents,      \* events an owner counts, and drops main counts for it
    MaxCaptures,    \* worker -> its periodic captures
    WriteErrors     \* whether a row may fail to be written

\* What a configuration satisfies:
\*   N \in Nat \ {0} /\ Cap \in Nat \ {0} /\ WriteErrors \in BOOLEAN

VARIABLES
    own,            \* worker -> owner state: interval counters, runtime_totals, the
                    \* capture under way and the drops it has taken
    drops,          \* worker -> the atomic counter main adds to
    queue, lost,    \* worker -> stats_channel
    final,          \* worker -> final_snapshot
    exited,         \* workers that have left
    stop,
    main, at,       \* place of the main core, and the worker it has reached
    written,        \* worker -> its periodic rows: their number and their sum
    finals, summary,    \* worker -> its final row; the aggregate row
    csvFailed,
    aggregate,
    seen            \* history: worker -> events of each kind, captures

out == <<written, finals, summary>>
vars == <<own, drops, queue, lost, final, exited, stop, main, at, out, csvFailed, aggregate, seen>>

Workers == 1..N
Kinds == {"starts", "drops", "fails"}
None == [k \in Kinds |-> 0]
Plus(a, b) == [k \in Kinds |-> a[k] + b[k]]
Row(v, qdrops) == [v |-> v, qdrops |-> qdrops]
NoRow == <<>>

Init ==
    /\ own = [w \in Workers |-> [starts |-> 0, fails |-> 0, total |-> None,
                              phase |-> "run", taken |-> 0]]
    /\ drops = [w \in Workers |-> 0]
    /\ queue = [w \in Workers |-> <<>>] /\ lost = [w \in Workers |-> 0]
    /\ final = [w \in Workers |-> None]
    /\ exited = {} /\ stop = FALSE
    /\ main = "turn" /\ at = 1
    /\ written = [w \in Workers |-> [n |-> 0, v |-> None]]
    /\ finals = [w \in Workers |-> NoRow] /\ summary = NoRow /\ csvFailed = FALSE
    /\ aggregate = [v |-> None, qdrops |-> 0]
    /\ seen = [w \in Workers |-> [ev |-> None, captures |-> 0]]

Count(w, k) == seen' = [seen EXCEPT ![w].ev[k] = @ + 1]

----------------------------------------------------------------------------
\* A worker.

OwnEvents(w) == seen[w].ev.starts + seen[w].ev.fails
OwnerCounts(w) ==
    /\ w \notin exited /\ own[w].phase = "run" /\ OwnEvents(w) < MaxEvents
    /\ own' = [own EXCEPT ![w].starts = @ + 1] /\ Count(w, "starts")
    /\ UNCHANGED <<drops, queue, lost, final, exited, stop, main, at, out, csvFailed, aggregate>>

AllocFails(w) ==
    /\ w \notin exited /\ own[w].phase = "run" /\ OwnEvents(w) < MaxEvents
    /\ own' = [own EXCEPT ![w].fails = @ + 1] /\ Count(w, "fails")
    /\ UNCHANGED <<drops, queue, lost, final, exited, stop, main, at, out, csvFailed, aggregate>>

\* The atomic_exchange of tg_capture_stats_snapshot, periodic or final: what the
\* main core counts from here on is for the next capture.
TakeDrops(w, phase) ==
    /\ w \notin exited /\ own[w].phase = "run"
    /\ IF phase = "final" THEN stop ELSE seen[w].captures < MaxCaptures[w]
    /\ own' = [own EXCEPT ![w].phase = phase, ![w].taken = drops[w]]
    /\ drops' = [drops EXCEPT ![w] = 0]
    /\ UNCHANGED <<queue, lost, final, exited, stop, main, at, out, csvFailed, aggregate, seen>>

Captured(w) == [starts |-> own[w].starts, drops |-> own[w].taken, fails |-> own[w].fails]
AfterCapture(w) ==
    own' = [own EXCEPT ![w].total = Plus(@, Captured(w)), ![w].starts = 0, ![w].phase = "run", ![w].taken = 0]

\* tg_stats_channel_publish.
Publishes(w, v) ==
    IF Len(queue[w]) < Cap
    THEN queue' = [queue EXCEPT ![w] = Append(@, v)] /\ UNCHANGED lost
    ELSE lost' = [lost EXCEPT ![w] = @ + 1] /\ UNCHANGED queue

Capture(w) ==
    /\ own[w].phase = "interval"
    /\ AfterCapture(w) /\ Publishes(w, Captured(w))
    /\ seen' = [seen EXCEPT ![w].captures = @ + 1]
    /\ UNCHANGED <<drops, final, exited, stop, main, at, out, csvFailed, aggregate>>

\* tg_worker_finalize: the final snapshot holds the totals of the run.
Finalize(w) ==
    /\ own[w].phase = "final" /\ w \notin exited
    /\ own' = [own EXCEPT ![w].total = Plus(@, Captured(w))]
    /\ final' = [final EXCEPT ![w] = own'[w].total]
    /\ exited' = exited \cup {w}
    /\ UNCHANGED <<drops, queue, lost, stop, main, at, out, csvFailed, aggregate, seen>>

\* The last shard has drained (Drain).
RequestStop ==
    /\ ~stop /\ stop' = TRUE
    /\ UNCHANGED <<own, drops, queue, lost, final, exited, main, at, out, csvFailed, aggregate, seen>>

----------------------------------------------------------------------------
\* The main core: the polling loop.

\* tg_dispatch_rx_burst and tg_replicate_arp count what a full ring refused.
MainDrops(w) ==
    /\ main = "turn" /\ seen[w].ev.drops < MaxEvents
    /\ drops' = [drops EXCEPT ![w] = @ + 1] /\ Count(w, "drops")
    /\ UNCHANGED <<own, queue, lost, final, exited, stop, main, at, out, csvFailed, aggregate>>

\* tg_stats_csv_write: nothing is written after a failure.
Writes(ok) == (ok \/ WriteErrors) /\ ~csvFailed /\ csvFailed' = ~ok

\* tg_drain_stats_csv: one record of the worker at hand, or on to the next.
DrainRow ==
    /\ main \in {"csv", "lastcsv"} /\ at <= N /\ ~csvFailed /\ queue[at] # <<>>
    /\ queue' = [queue EXCEPT ![at] = Tail(@)]
    /\ \E ok \in BOOLEAN :
           /\ Writes(ok)
           /\ written' = IF ok THEN [written EXCEPT ![at].n = @ + 1, ![at].v = Plus(@, Head(queue[at]))]
                         ELSE written
    /\ UNCHANGED <<own, drops, lost, final, exited, stop, main, at, finals, summary, aggregate, seen>>
DrainNext ==
    /\ main \in {"csv", "lastcsv"} /\ at <= N /\ ~csvFailed /\ queue[at] = <<>>
    /\ at' = at + 1
    /\ UNCHANGED <<own, drops, queue, lost, final, exited, stop, main, out, csvFailed, aggregate, seen>>
Drained == csvFailed \/ at > N

\* One turn of the loop: packets, then the CSV, then the test of the stop flag.
MainCsv ==
    /\ main = "turn" /\ main' = "csv" /\ at' = 1
    /\ UNCHANGED <<own, drops, queue, lost, final, exited, stop, out, csvFailed, aggregate, seen>>
MainTop ==
    /\ main = "csv" /\ Drained
    /\ main' = IF stop THEN "join" ELSE "turn"
    /\ at' = 1
    /\ UNCHANGED <<own, drops, queue, lost, final, exited, stop, out, csvFailed, aggregate, seen>>

----------------------------------------------------------------------------
\* The main core: stages 10 and 11.

\* Seeded fault: the workers are not waited for.
JoinedAnyway == TRUE
Joined == exited = Workers

MainJoin ==
    /\ main = "join" /\ Joined
    /\ main' = "merge" /\ at' = 1
    /\ UNCHANGED <<own, drops, queue, lost, final, exited, stop, out, csvFailed, aggregate, seen>>

\* tg_drain_tx_ring may drop what is left; the counters join the final snapshot.
Merge ==
    /\ main = "merge" /\ at <= N
    /\ \E d \in 0..1 :
           /\ seen[at].ev.drops + d <= MaxEvents
           /\ seen' = [seen EXCEPT ![at].ev.drops = @ + d]
           /\ final' = [final EXCEPT ![at].drops = @ + drops[at] + d]
    /\ drops' = [drops EXCEPT ![at] = 0]
    /\ at' = at + 1
    /\ UNCHANGED <<own, queue, lost, exited, stop, main, out, csvFailed, aggregate>>
Merged ==
    /\ main = "merge" /\ at > N
    /\ main' = "lastcsv" /\ at' = 1
    /\ UNCHANGED <<own, drops, queue, lost, final, exited, stop, out, csvFailed, aggregate, seen>>
LastDrained ==
    /\ main = "lastcsv" /\ Drained
    /\ main' = "report" /\ at' = 1
    /\ UNCHANGED <<own, drops, queue, lost, final, exited, stop, out, csvFailed, aggregate, seen>>

Added(w) == [v |-> Plus(aggregate.v, final[w]), qdrops |-> aggregate.qdrops + lost[w]]

\* tg_report_aggregate: a final row for each worker, then the sum of all.
ReportWorker ==
    /\ main = "report" /\ at <= N
    /\ lost' = [lost EXCEPT ![at] = 0]
    /\ \/ Writes(TRUE) /\ finals' = [finals EXCEPT ![at] = Row(final[at], lost[at])] /\ aggregate' = Added(at)
       \/ Writes(FALSE) /\ UNCHANGED <<finals, aggregate>>
       \/ csvFailed /\ aggregate' = Added(at) /\ UNCHANGED <<finals, csvFailed>>
    /\ at' = at + 1
    /\ UNCHANGED <<own, drops, queue, final, exited, stop, main, written, summary, seen>>
ReportAggregate ==
    /\ main = "report" /\ at > N
    /\ \/ Writes(TRUE) /\ summary' = Row(aggregate.v, aggregate.qdrops)
       \/ Writes(FALSE) /\ UNCHANGED summary
       \/ csvFailed /\ UNCHANGED <<summary, csvFailed>>
    /\ main' = "done"
    /\ UNCHANGED <<own, drops, queue, lost, final, exited, stop, at, written, finals, aggregate, seen>>

Done == main = "done" /\ UNCHANGED vars

MainStep ==
    \/ DrainRow \/ DrainNext \/ MainCsv \/ MainTop \/ MainJoin \/ Merge \/ Merged
    \/ LastDrained \/ ReportWorker \/ ReportAggregate

Next ==
    \/ \E w \in Workers : \/ OwnerCounts(w) \/ AllocFails(w)
                          \/ TakeDrops(w, "interval") \/ TakeDrops(w, "final")
                          \/ Capture(w) \/ Finalize(w) \/ MainDrops(w)
    \/ RequestStop \/ MainStep \/ Done

Spec == Init /\ [][Next]_vars

----------------------------------------------------------------------------
(* Properties *)

SumOver(f(_)) == LET sum[n \in 0..N] == IF n = 0 THEN 0 ELSE f(n) + sum[n - 1] IN sum[N]

TypeOK ==
    /\ exited \subseteq Workers /\ at \in 1..(N + 1)
    /\ exited # {} => stop
    /\ \A w \in Workers : /\ own[w].phase \in {"run", "interval", "final"}
                          /\ drops[w] <= seen[w].ev.drops /\ own[w].starts <= seen[w].ev.starts
                          /\ Len(queue[w]) <= Cap

\* Of the counters the owner resets (starts) and of those the main core adds to
\* (drops), the final snapshot of a worker counts every event of the run exactly
\* once, those included that the main core counts during a capture or after the
\* worker left.  The failures of the pools are cumulative and summed at every
\* capture: they are counted at least once, and again after each capture
\* (tg_capture_stats_snapshot, stage 10 of main).
FinalExact ==
    main \in {"lastcsv", "report", "done"} =>
        \A w \in Workers : /\ \A k \in {"starts", "drops"} : final[w][k] = seen[w].ev[k]
                           /\ final[w].fails >= seen[w].ev.fails

\* Every periodic snapshot became a row, or its final row counts it as lost; the
\* rows that were written add up to no more than the final row, in every kind,
\* and where none was lost exactly the starts before the final capture are in
\* them (tg_drain_stats_csv, tg_report_aggregate).
RowsAccounted ==
    main = "done" /\ ~csvFailed =>
        \A w \in Workers :
            /\ finals[w] # NoRow
            /\ written[w].n + finals[w].qdrops = seen[w].captures
            /\ \A k \in Kinds : written[w].v[k] <= finals[w].v[k]
            /\ finals[w].qdrops = 0 =>
                   written[w].v.starts + own[w].starts = finals[w].v.starts

\* A written aggregate row is the sum over all workers: of the starts and drops
\* of the run, of the failures the workers report, and of the lost rows.
AggregateExact ==
    summary # NoRow =>
        /\ \A k \in {"starts", "drops"} :
               summary.v[k] = SumOver(LAMBDA w : seen[w].ev[k])
        /\ summary.v.fails = SumOver(LAMBDA w : finals[w].v.fails)
        /\ summary.qdrops = SumOver(LAMBDA w : finals[w].qdrops)

=============================================================================
