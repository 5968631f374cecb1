------------------------------ MODULE MCStats -------------------------------
(***************************************************************************)
(* Statistics: the channel of a worker, the report the main core writes,   *)
(* and latency histograms.  A behaviour plays one scenario; the other      *)
(* components stay in their initial states.                                *)
(***************************************************************************)
EXTENDS StatsChannel

VARIABLES
    scenario,
    own, drops, queue, lost, final, exited, stop, main, at, written, finals, summary, csvFailed, aggregate, events,
    group, open, merged, toMerge, log, starts

\* Two workers with channels of one record, one of which can overflow, and rows
\* that fail to be written.
Reporting == INSTANCE Report WITH
    N <- 2, Cap <- 1, MaxEvents <- 1, MaxCaptures <- <<2, 1>>, WriteErrors <- TRUE, seen <- events

\* Two slots for each power of two of 6-bit durations: lengths at the edges of
\* buckets and at both ends, and ranks among three samples.
Edges == INSTANCE Latency WITH
    Groups <- {"g", "h"}, SlotBits <- 1, Bits <- 6, PerUs <- 2, Plans <- {1, 4}, Delays <- {0, 9},
    Lengths <- {0, 1, 23, 117}, Permilles <- {1, 500, 501, 1000}, MaxStarts <- 2, left <- toMerge
Ranks == INSTANCE Latency WITH
    Groups <- {"g", "h"}, SlotBits <- 1, Bits <- 6, PerUs <- 2, Plans <- {1}, Delays <- {9},
    Lengths <- {7, 9, 41}, Permilles <- {250, 500, 667, 900, 999}, MaxStarts <- 3, left <- toMerge

channelVars == <<writeSeq, readSeq, dropped, records, number, ppc, seen, left, cpc, got, rest, sent, out, taken>>
reportVars == <<own, drops, queue, lost, final, exited, stop, main, at, written, finals, summary, csvFailed,
                aggregate, events>>
latencyVars == <<group, open, merged, toMerge, log, starts>>
runVars == <<scenario, channelVars, reportVars, latencyVars>>

RunInit ==
    /\ scenario \in {"channel", "reporting", "edges", "ranks"}
    /\ Init /\ Reporting!Init
    /\ IF scenario = "ranks" THEN Ranks!Init ELSE Edges!Init

RunNext ==
    \/ scenario = "channel" /\ Next /\ UNCHANGED <<scenario, reportVars, latencyVars>>
    \/ scenario = "reporting" /\ Reporting!Next /\ UNCHANGED <<scenario, channelVars, latencyVars>>
    \/ scenario = "edges" /\ Edges!Next /\ UNCHANGED <<scenario, channelVars, reportVars>>
    \/ scenario = "ranks" /\ Ranks!Next /\ UNCHANGED <<scenario, channelVars, reportVars>>

RunSpec == RunInit /\ [][RunNext]_runVars

----------------------------------------------------------------------------
(* Properties; ImplementsQueue and IInv are those of StatsChannel *)

\* The final report counts every start and every drop of the run once, those
\* included that the main core counted during a capture or after the worker left
\* (allocation failures are cumulative and counted more than once); every
\* periodic snapshot is a row or counted as lost; and the aggregate row is the
\* sum over all workers (tg_capture_stats_snapshot, tg_drain_stats_csv,
\* tg_report_aggregate).
\* A percentile of merged histograms lies within one part in the number of slots
\* of the nearest-rank sample of all workers, merging loses no sample and splits
\* none between outcomes, and the span is that of all admissions
\* (tg_histogram_quantile, tg_group_merge, tg_latency_on_finished).
ReportExact ==
    /\ scenario = "reporting" => /\ Reporting!TypeOK /\ Reporting!FinalExact
                                 /\ Reporting!RowsAccounted /\ Reporting!AggregateExact
    /\ scenario = "edges" => Edges!TypeOK /\ Edges!QuantileBound /\ Edges!BinsComplete /\ Edges!SpanExact
    /\ scenario = "ranks" => Ranks!QuantileBound
=============================================================================
