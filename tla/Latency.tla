------------------------------ MODULE Latency -------------------------------
(***************************************************************************)
(* Latency groups of latency.c: log-linear histograms that owners fill and *)
(* the main core merges after the workers joined, and the percentiles read *)
(* from a merged group.  2^SlotBits slots divide each power of two and     *)
(* durations have Bits bits; the code has SlotBits = 4 and Bits = 64.      *)
(* A group is that of one worker and class.                                *)
(***************************************************************************)
EXTENDS Integers, FiniteSets, Functions

CONSTANTS
    Groups,         \* the groups of a merged row
    SlotBits, Bits,
    PerUs,          \* clock cycles in a microsecond
    Plans,          \* planned times of transactions, in cycles
    Delays,         \* scheduling lags and connection times, in cycles
    Lengths,        \* durations of transactions, in cycles
    Permilles,
    MaxStarts       \* arrivals of the run

\* What a configuration satisfies:
\*   /\ SlotBits \in Nat /\ Bits \in Nat /\ SlotBits + 1 < Bits /\ PerUs \in Nat \ {0}
\*   /\ Plans \subseteq Nat \ {0} /\ Permilles \subseteq 1..1000
\*   /\ \A c \in Delays, d \in Lengths : c + d \in 0..((2 ^ Bits - 1) * PerUs)

VARIABLES
    group,          \* owner state: tg_latency_group
    open,           \* group -> transactions admitted and not finished
    merged, left,   \* the merged row, the groups not yet merged
    log,            \* history: metric -> samples <<group, transaction, cycles>>
    starts          \* history: planned and actual times of all admissions

vars == <<group, open, merged, left, log, starts>>

Slots == 2 ^ SlotBits
Exact == 2 * Slots
LastBucket == Exact + (Bits - SlotBits - 1) * Slots - 1
Buckets == 0..LastBucket
MaxUs == 2 ^ Bits - 1

\* first_rx is recorded as connect is.
Metrics == {"schedule", "connect", "complete", "scheduled", "success", "failure"}

----------------------------------------------------------------------------
\* Histograms.

\* tg_us rounds up.
Us(cycles) == (cycles + PerUs - 1) \div PerUs

Exponent(us) == CHOOSE e \in 0..(Bits - 1) : 2 ^ e <= us /\ us < 2 ^ (e + 1)

\* tg_hist_index.
Index(us) ==
    IF us < Exact THEN us
    ELSE LET e == Exponent(us)
         IN  Exact + (e - SlotBits - 1) * Slots + (us \div 2 ^ (e - SlotBits)) - Slots

\* tg_hist_upper.
Upper(i) ==
    IF i < Exact THEN i
    ELSE LET e == (i - Exact) \div Slots + SlotBits + 1
             slot == (i - Exact) % Slots
         IN  IF e = Bits - 1 /\ slot = Slots - 1 THEN MaxUs
             ELSE (Slots + 1 + slot) * 2 ^ (e - SlotBits) - 1

Empty == [buckets |-> [i \in Buckets |-> 0], count |-> 0, max |-> 0]
Larger(a, b) == IF a > b THEN a ELSE b
Smaller(a, b) == IF a < b THEN a ELSE b

\* tg_histogram_record, tg_histogram_merge.
Record(h, us) ==
    [buckets |-> [h.buckets EXCEPT ![Index(us)] = @ + 1],
     count |-> h.count + 1, max |-> Larger(us, h.max)]
MergeHist(d, s) ==
    [buckets |-> [i \in Buckets |-> d.buckets[i] + s.buckets[i]],
     count |-> d.count + s.count, max |-> Larger(d.max, s.max)]

\* tg_histogram_quantile.
Rank(n, permille) == (n * permille + 999) \div 1000
UpTo(h, i) == FoldFunctionOnSet(+, 0, h.buckets, 0..i)
Quantile(h, permille) ==
    IF h.count = 0 THEN 0
    ELSE LET i == CHOOSE i \in Buckets : /\ UpTo(h, i) >= Rank(h.count, permille)
                                         /\ \A j \in 0..(i - 1) : UpTo(h, j) < Rank(h.count, permille)
         IN  Smaller(Upper(i), h.max)

----------------------------------------------------------------------------
\* Groups.

EmptyGroup == [hist |-> [m \in Metrics |-> Empty],
               admitted |-> 0, success |-> 0, failed |-> 0, startFailed |-> 0,
               plannedFirst |-> 0, plannedLast |-> 0, actualFirst |-> 0, actualLast |-> 0]

Init ==
    /\ group = [g \in Groups |-> EmptyGroup] /\ open = [g \in Groups |-> {}]
    /\ merged = EmptyGroup /\ left = Groups
    /\ log = [m \in Metrics |-> {}] /\ starts = {}

Running == left = Groups
Arrivals == FoldFunction(+, 0, [g \in Groups |-> group[g].admitted + group[g].startFailed])
MayStart == Running /\ Arrivals < MaxStarts

\* tg_latency_on_start_failed.
StartFailed(g) ==
    /\ MayStart
    /\ group' = [group EXCEPT ![g].startFailed = @ + 1]
    /\ UNCHANGED <<open, merged, left, log, starts>>

\* tg_latency_on_admitted.  An owner admits in the order of the schedule.
Started(d, planned, actual) ==
    [d EXCEPT !.hist["schedule"] = Record(@, Us(actual - planned)),
              !.plannedFirst = IF d.admitted = 0 THEN planned ELSE @,
              !.actualFirst = IF d.admitted = 0 THEN actual ELSE @,
              !.plannedLast = planned, !.actualLast = actual,
              !.admitted = @ + 1]
Admitted(g) ==
    /\ MayStart
    /\ \E planned \in Plans, lag \in Delays :
           /\ planned >= group[g].plannedLast /\ planned + lag >= group[g].actualLast
           /\ group' = [group EXCEPT ![g] = Started(@, planned, planned + lag)]
           /\ open' = [open EXCEPT ![g] = @ \cup {[id |-> group[g].admitted, lag |-> lag]}]
           /\ log' = [log EXCEPT !["schedule"] = @ \cup {<<g, group[g].admitted, lag>>}]
           /\ starts' = starts \cup {<<planned, planned + lag>>}
    /\ UNCHANGED <<merged, left>>

\* tg_latency_on_finished.  Connections that never opened leave no sample.
Outcome(ok) == IF ok THEN "success" ELSE "failure"
SamplesOf(lag, elapsed, ok, connect) ==
    [m \in {"complete", Outcome(ok), "scheduled"} \cup (IF connect = {} THEN {} ELSE {"connect"}) |->
        CASE m = "connect" -> CHOOSE c \in connect : TRUE
          [] m = "scheduled" -> lag + elapsed
          [] OTHER -> elapsed]
Ended(d, samples, ok) ==
    [d EXCEPT !.hist = [m \in Metrics |-> IF m \in DOMAIN samples THEN Record(@[m], Us(samples[m])) ELSE @[m]],
              !.success = IF ok THEN @ + 1 ELSE @,
              !.failed = IF ok THEN @ ELSE @ + 1]
Finished(g) ==
    /\ Running
    /\ \E f \in open[g], elapsed \in Lengths, ok \in BOOLEAN, connect \in SUBSET Delays :
           /\ Cardinality(connect) <= 1 /\ \A c \in connect : c <= elapsed
           /\ LET samples == SamplesOf(f.lag, elapsed, ok, connect)
              IN  /\ group' = [group EXCEPT ![g] = Ended(@, samples, ok)]
                  /\ log' = [m \in Metrics |-> log[m] \cup
                                (IF m \in DOMAIN samples THEN {<<g, f.id, samples[m]>>} ELSE {})]
           /\ open' = [open EXCEPT ![g] = @ \ {f}]
    /\ UNCHANGED <<merged, left, starts>>

\* tg_group_merge.
MergedHists(d, s) == [m \in Metrics |-> MergeHist(d.hist[m], s.hist[m])]

First(d, s, field) ==
    CASE s.admitted = 0 -> d[field]
      [] s.admitted > 0 /\ d.admitted = 0 -> s[field]
      [] OTHER -> Smaller(s[field], d[field])
Last(d, s, field) == IF s.admitted = 0 THEN d[field] ELSE Larger(s[field], d[field])

MergeGroup(d, s) ==
    [hist |-> MergedHists(d, s),
     admitted |-> d.admitted + s.admitted, success |-> d.success + s.success,
     failed |-> d.failed + s.failed, startFailed |-> d.startFailed + s.startFailed,
     plannedFirst |-> First(d, s, "plannedFirst"), plannedLast |-> Last(d, s, "plannedLast"),
     actualFirst |-> First(d, s, "actualFirst"), actualLast |-> Last(d, s, "actualLast")]

\* tg_latency_csv_write, once every worker has joined.  The code takes the
\* groups of a row in a fixed order, the model in any.
Merge(g) ==
    /\ g \in left /\ \A w \in Groups : open[w] = {}
    /\ merged' = MergeGroup(merged, group[g]) /\ left' = left \ {g}
    /\ UNCHANGED <<group, open, log, starts>>

Done == left = {} /\ UNCHANGED vars

Next == (\E g \in Groups : StartFailed(g) \/ Admitted(g) \/ Finished(g) \/ Merge(g)) \/ Done

Spec == Init /\ [][Next]_vars

----------------------------------------------------------------------------
(* Properties *)

\* Every group is a tg_latency_group, and a group's finished transactions were
\* admitted to it.
TypeOK ==
    /\ left \subseteq Groups
    /\ \A g \in Groups :
           /\ DOMAIN group[g] = DOMAIN EmptyGroup
           /\ group[g].admitted = Cardinality(open[g]) + group[g].success + group[g].failed

Durations(m) == {Us(x[3]) : x \in log[m]}
NotAbove(m, us) == Cardinality({x \in log[m] : Us(x[3]) <= us})

Nearest(n, permille) == CHOOSE r \in 1..n : r * 1000 >= n * permille /\ (r - 1) * 1000 < n * permille

\* The sample of rank r among all samples of a metric: the reference.
Ranked(m, r) == CHOOSE us \in Durations(m) : /\ NotAbove(m, us) >= r
                                             /\ \A v \in Durations(m) : v < us => NotAbove(m, v) < r

\* A percentile of a merged row is at least the nearest-rank sample of all
\* workers, exceeds it by at most one part in the number of slots, and never
\* exceeds the longest sample (tg_histogram_quantile over tg_histogram_merge;
\* latency.h promises 6.25 % with 16 slots).
QuantileBound ==
    left = {} =>
        \A m \in Metrics, p \in Permilles : log[m] # {} =>
            LET us == Ranked(m, Nearest(Cardinality(log[m]), p))
                q == Quantile(merged.hist[m], p)
            IN  us <= q /\ (q - us) * Slots <= us /\ \E v \in Durations(m) : q <= v

\* A merged row has the samples of all workers, and bin by bin its completed
\* transactions are the successful and the failed ones (tg_group_merge,
\* tg_latency_on_finished).
BinsComplete ==
    left = {} =>
        /\ \A m \in Metrics : UpTo(merged.hist[m], LastBucket) = Cardinality(log[m])
        /\ \A i \in Buckets : merged.hist["complete"].buckets[i] =
                                  merged.hist["success"].buckets[i] + merged.hist["failure"].buckets[i]
        /\ UpTo(merged.hist["failure"], LastBucket) = merged.failed

\* A merged row begins with the earliest and ends with the latest admission of
\* any worker, planned and actual, whichever workers admitted none
\* (tg_group_merge).
SpanExact ==
    left = {} /\ starts # {} =>
        /\ merged.plannedFirst \in {t[1] : t \in starts} /\ merged.plannedLast \in {t[1] : t \in starts}
        /\ merged.actualFirst \in {t[2] : t \in starts} /\ merged.actualLast \in {t[2] : t \in starts}
        /\ \A t \in starts : /\ merged.plannedFirst <= t[1] /\ t[1] <= merged.plannedLast
                             /\ merged.actualFirst <= t[2] /\ t[2] <= merged.actualLast
=============================================================================
