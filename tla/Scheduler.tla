----------------------------- MODULE Scheduler -----------------------------
(***************************************************************************)
(* The open-loop scheduler (scheduler.c), one instance per worker over the *)
(* same plan: phases with constant or ramping rates, each arrival owned by *)
(* one shard, a bounded backlog whose excess is skipped but counted, and a *)
(* weighted rotation of request classes.  Time is in clock cycles.         *)
(***************************************************************************)
EXTENDS Integers, Sequences, FiniteSets, FiniteSetsExt, Functions

CONSTANTS Shards,        \* number of workers sharing the arrivals
          Phases,        \* sequence of [sec, start, target]: duration and rates
          Weights,       \* sequence of class weights
          Hz, MaxConcurrency, Budget,
          Cursor0,       \* selection_phase of each shard
          MaxNow         \* bound on the clock

\* What a configuration satisfies:
\*   /\ {Shards, Hz, MaxConcurrency, Budget, MaxNow} \subseteq Nat \ {0}
\*   /\ Len(Phases) > 0 /\ Len(Weights) > 0
\*   /\ Cursor0 \in [0..Shards-1 -> Nat]

Ids == 0..Shards-1
Classes == DOMAIN Weights
TotalWeight == FoldFunction(+, 0, Weights)

VARIABLES
    now,
    started, stopped, last,      \* last_cycles
    phase, start, consumed, seen, \* phase_index, phase_start_cycles, phase_*
    offset,                      \* global_arrival_offset
    cursor,                      \* selection_cursor
    active, paused,
    planned, attempted, skipped, \* planned_total, and the counts per class
    issued,                      \* history: ordinals dispatched
    early                         \* history: an arrival was dispatched before it was due

vars == <<now, started, stopped, last, phase, start, consumed, seen, offset, cursor,
          active, paused, planned, attempted, skipped, issued, early>>

Zero == [s \in Ids |-> 0]

Init ==
    /\ now = 0
    /\ started = [s \in Ids |-> FALSE] /\ stopped = started /\ paused = started
    /\ last = Zero /\ phase = [s \in Ids |-> 1] /\ start = Zero
    /\ consumed = Zero /\ seen = Zero /\ offset = Zero /\ cursor = Cursor0
    /\ active = Zero /\ planned = Zero
    /\ attempted = [s \in Ids |-> [c \in Classes |-> 0]] /\ skipped = attempted
    /\ issued = [s \in Ids |-> {}] /\ early = FALSE

----------------------------------------------------------------------------
\* Arithmetic of the plan.

Duration(p) == Phases[p].sec * Hz

\* Twice the integral of the rate over the first t cycles, times duration * Hz.
Integral(p, t) ==
    t * (2 * Phases[p].start * Duration(p) + (Phases[p].target - Phases[p].start) * t)
Scale(p) == 2 * Duration(p) * Hz

\* Arrivals of all shards strictly before t.
GlobalDue(p, t) == (Integral(p, t) + Scale(p) - 1) \div Scale(p)

\* tg_due_count: those of shard s.
DueCount(s, p, t) ==
    IF GlobalDue(p, t) <= s THEN 0 ELSE (GlobalDue(p, t) - s + Shards - 1) \div Shards

\* tg_due_cycles relative to the phase: the last cycle by which at most n arrivals
\* were due.  (The code inverts the ramp in floating point.)
DueOffset(p, n) == IF n = 0 THEN 0 ELSE Max({t \in 0..Duration(p) : Integral(p, t) <= n * Scale(p)})

\* tg_select: the class at position k of the rotation.
RECURSIVE WeightUpTo(_)
WeightUpTo(c) == IF c = 0 THEN 0 ELSE Weights[c] + WeightUpTo(c - 1)
ClassAt(k) == Min({c \in Classes : k % TotalWeight < WeightUpTo(c)})

Overlap(lo, hi, a, b) == IF Min({hi, b}) > Max({lo, a}) THEN Min({hi, b}) - Max({lo, a}) ELSE 0
\* tg_skip: how many of `count` positions from k belong to class c.
SkipHits(k, count, c) ==
    LET cur == k % TotalWeight
        end == cur + (count % TotalWeight)
    IN (count \div TotalWeight) * Weights[c]
       + Overlap(cur, end, WeightUpTo(c - 1), WeightUpTo(c))
       + Overlap(cur, end, WeightUpTo(c - 1) + TotalWeight, WeightUpTo(c) + TotalWeight)

\* The arrivals of a phase, as tg_scheduler_tick adds them to the offset.
PhaseArrivals(p) == (Phases[p].sec * (Phases[p].start + Phases[p].target) + 1) \div 2

----------------------------------------------------------------------------
\* The first part of tg_scheduler_tick, on a record r of one shard's fields:
\* count what has become due, and leave every phase that has ended, skipping
\* what it did not start.

\* Seeded fault: arrivals a phase leaves unstarted are forgotten.
SkipNothing(r, count) == [r EXCEPT !.consumed = @ + count]
Skip(r, count) ==
    [r EXCEPT !.consumed = @ + count, !.cursor = @ + count,
              !.skipped = [c \in Classes |-> @[c] + SkipHits(r.cursor, count, c)]]

CountDue(s, r, t) ==
    LET due == DueCount(s, r.phase, t) IN [r EXCEPT !.planned = @ + due - r.seen, !.seen = due]

NextPhase(r) ==
    [r EXCEPT !.offset = @ + PhaseArrivals(r.phase), !.start = @ + Duration(r.phase),
              !.phase = @ + 1, !.consumed = 0, !.seen = 0]

RECURSIVE AdvancePhases(_, _, _)
AdvancePhases(s, r, t) ==
    IF r.phase > Len(Phases) THEN [r EXCEPT !.stopped = TRUE]
    ELSE IF t - r.start < Duration(r.phase) THEN CountDue(s, r, t - r.start)
    ELSE LET counted == CountDue(s, r, Duration(r.phase)) IN
         AdvancePhases(s, NextPhase(Skip(counted, counted.seen - counted.consumed)), t)

\* A backlog beyond max_concurrency is skipped.
Trim(r) ==
    IF r.seen - r.consumed > MaxConcurrency THEN Skip(r, r.seen - r.consumed - MaxConcurrency) ELSE r

Ordinal(s, r) == r.offset + r.consumed * Shards + s

\* One start attempt; `ok` is whether the start callback took it.
Attempt(s, r, t, ok) ==
    LET c == ClassAt(r.cursor) IN
    [r EXCEPT !.cursor = @ + 1, !.consumed = @ + 1, !.attempted[c] = @ + 1,
              !.issued = @ \cup {Ordinal(s, r)},
              !.early = @ \/ r.start + DueOffset(r.phase, r.consumed * Shards + s) > t,
              !.active = IF ok THEN @ + 1 ELSE @]

MayStart(r, left) ==
    left > 0 /\ r.seen > r.consumed /\ ~r.paused /\ r.active < MaxConcurrency

\* The results of a tick's attempts, whichever of them are taken.
RECURSIVE Attempts(_, _, _, _)
Attempts(s, r, t, left) ==
    IF ~MayStart(r, left) THEN {r}
    ELSE UNION {Attempts(s, Attempt(s, r, t, ok), t, left - 1) : ok \in BOOLEAN}

State(s) ==
    [phase |-> phase[s], start |-> start[s], consumed |-> consumed[s], seen |-> seen[s],
     offset |-> offset[s], cursor |-> cursor[s], active |-> active[s], paused |-> paused[s],
     planned |-> planned[s], attempted |-> attempted[s], skipped |-> skipped[s],
     stopped |-> stopped[s], issued |-> issued[s], early |-> early]

Results(s, t) ==
    LET r == AdvancePhases(s, State(s), t) IN
    IF r.stopped THEN {r} ELSE Attempts(s, Trim(r), t, Budget)

\* tg_scheduler_tick with the first reading of the clock.
FirstTick(s) ==
    /\ ~started[s] /\ started' = [started EXCEPT ![s] = TRUE]
    /\ UNCHANGED <<now, stopped, last, phase, start, consumed, seen, offset, cursor,
                   active, paused, planned, attempted, skipped, issued, early>>

Running(s) == started[s] /\ ~stopped[s]

\* tg_scheduler_tick with a reading t.
Tick(s, t) ==
    /\ Running(s) /\ t >= last[s] /\ last' = [last EXCEPT ![s] = t]
    /\ \E r \in Results(s, t) :
         /\ phase' = [phase EXCEPT ![s] = r.phase] /\ start' = [start EXCEPT ![s] = r.start]
         /\ consumed' = [consumed EXCEPT ![s] = r.consumed] /\ seen' = [seen EXCEPT ![s] = r.seen]
         /\ offset' = [offset EXCEPT ![s] = r.offset] /\ cursor' = [cursor EXCEPT ![s] = r.cursor]
         /\ active' = [active EXCEPT ![s] = r.active] /\ stopped' = [stopped EXCEPT ![s] = r.stopped]
         /\ planned' = [planned EXCEPT ![s] = r.planned]
         /\ attempted' = [attempted EXCEPT ![s] = r.attempted]
         /\ skipped' = [skipped EXCEPT ![s] = r.skipped]
         /\ issued' = [issued EXCEPT ![s] = r.issued] /\ early' = r.early
    /\ UNCHANGED <<now, started, paused>>

\* A reading older than the last one ends the schedule.
ClockBackwards(s, t) ==
    /\ Running(s) /\ t < last[s] /\ stopped' = [stopped EXCEPT ![s] = TRUE]
    /\ UNCHANGED <<now, started, last, phase, start, consumed, seen, offset, cursor,
                   active, paused, planned, attempted, skipped, issued, early>>

\* tg_scheduler_on_flow_finished and tg_scheduler_set_resource_available
FlowFinished(s) ==
    /\ active[s] > 0 /\ active' = [active EXCEPT ![s] = @ - 1]
    /\ UNCHANGED <<now, started, stopped, last, phase, start, consumed, seen, offset, cursor,
                   paused, planned, attempted, skipped, issued, early>>

SetResource(s, available) ==
    /\ paused[s] = available /\ paused' = [paused EXCEPT ![s] = ~available]
    /\ UNCHANGED <<now, started, stopped, last, phase, start, consumed, seen, offset, cursor,
                   active, planned, attempted, skipped, issued, early>>

AdvanceClock ==
    /\ now < MaxNow /\ \A s \in Ids : started[s]
    /\ now' = now + 1
    /\ UNCHANGED <<started, stopped, last, phase, start, consumed, seen, offset, cursor,
                   active, paused, planned, attempted, skipped, issued, early>>

Next ==
    \/ \E s \in Ids : FirstTick(s) \/ Tick(s, now) \/ FlowFinished(s)
    \/ \E s \in Ids : ClockBackwards(s, now - 1)
    \/ \E s \in Ids, b \in BOOLEAN : SetResource(s, b)
    \/ AdvanceClock

Spec == Init /\ [][Next]_vars

----------------------------------------------------------------------------
\* Properties

Total(counts) == FoldFunction(+, 0, counts)
Ended(s) == stopped[s] /\ phase[s] > Len(Phases)

TypeOK ==
    /\ now \in 0..MaxNow /\ early \in BOOLEAN
    /\ \A s \in Ids : /\ phase[s] \in 1..Len(Phases) + 1 /\ consumed[s] <= seen[s]
                      /\ active[s] \in 0..MaxConcurrency

\* Every planned arrival is started, skipped or still waiting, across phase
\* boundaries and overload.
ArrivalsAccounted ==
    \A s \in Ids : planned[s] = Total(attempted[s]) + Total(skipped[s]) + seen[s] - consumed[s]

\* When the schedule has run to its end, the shards together planned exactly the
\* arrivals of the plan: none is lost or doubled by dividing them among workers.
PlanCompleted ==
    (\A s \in Ids : Ended(s)) =>
        MapThenSumSet(LAMBDA s : planned[s], Ids) = MapThenSumSet(PhaseArrivals, DOMAIN Phases)

\* An ordinal, which selects the data record of a request, is used once, by one
\* shard, whatever the shards skip.
OrdinalsUnique ==
    /\ \A s \in Ids : Cardinality(issued[s]) = Total(attempted[s])
    /\ \A s, q \in Ids : s # q => issued[s] \cap issued[q] = {}

\* Skipping counts classes exactly as starting them one by one would.
ClassMixKept ==
    \A s \in Ids, c \in Classes :
        attempted[s][c] + skipped[s][c] = Cardinality({k \in Cursor0[s]..cursor[s] - 1 : ClassAt(k) = c})

\* The planned time of an arrival, from which its latency is measured, is never
\* later than the tick that starts it.
NeverBeforeDue == ~early
=============================================================================
