------------------------------ MODULE Capacity ------------------------------
(***************************************************************************)
(* The capacity search of snowtg_capacity.py: repeated fixed-rate runs     *)
(* double the rate until one fails, bisect, save the result after every    *)
(* run, and compare it with a baseline.  A rate is an integer of           *)
(* transactions per second.  The service under test sustains every rate up *)
(* to truth, or answers at random if truth is Noisy.                       *)
(***************************************************************************)
EXTENDS Integers

CONSTANTS
    Limits,         \* [minimum, maximum, precision, repeats] of searches
    Truths, Noisy,
    Baselines,      \* [truth, capacity, repeats, same] of earlier results
    Factors         \* 100 - max_drop_percent

\* What a configuration satisfies:
\*   \A l \in Limits : /\ l.minimum \in Nat \ {0} /\ l.maximum \in Nat /\ l.minimum <= l.maximum
\*                     /\ l.precision \in Nat \ {0} /\ l.repeats \in Nat \ {0}

VARIABLES
    limits, truth, baseline, factor,    \* the search and the service
    pc, low, high, cps,                 \* search: its place, bounds and current rate
    repeat, passed,                     \* probe
    result,                             \* capacity and status in memory
    file,                               \* result.json; None before the first save
    runs                                \* history: <<cps, repeat, passed>> in memory

None == "none"
NoBaseline == [truth |-> 0, capacity |-> [status |-> None, passed |-> 0, failed |-> 0], repeats |-> 0, same |-> FALSE]
vars == <<limits, truth, baseline, factor, pc, low, high, cps, repeat, passed, result, file, runs>>

Bounds(status, p, f) == [status |-> status, passed |-> p, failed |-> f]
Running == [valid |-> FALSE, capacity |-> Bounds("running", 0, 0), verdict |-> None]

Init ==
    /\ limits \in Limits /\ truth \in Truths \cup {Noisy} /\ baseline \in Baselines \cup {NoBaseline} /\ factor \in Factors
    /\ pc = "first" /\ low = 0 /\ high = limits.minimum /\ cps = limits.minimum
    /\ repeat = 1 /\ passed = TRUE
    /\ result = Running /\ file = Running /\ runs = {}

Probing == pc \in {"first", "double", "bisect"}
Keep == UNCHANGED <<limits, truth, baseline, factor>>

----------------------------------------------------------------------------
\* compare_capacity; 0 stands for an absent bound, same for everything else
\* that makes two results comparable.
Comparable == baseline.same /\ baseline.repeats = limits.repeats
Accepts(old, new) == old.failed # 0 /\ new.passed # 0 /\ new.passed * 100 >= old.failed * factor
Rejects(old, new) == new.failed # 0 /\ new.failed * 100 <= old.passed * factor
Verdict(old, new) ==
    IF ~Comparable \/ old.passed = 0 THEN "inconclusive"
    ELSE IF Accepts(old, new) THEN "accept"
    ELSE IF Rejects(old, new) THEN "reject"
    ELSE "inconclusive"

\* validate_result, on bounds and configuration.
InLimits(r) == r = 0 \/ r \in limits.minimum..limits.maximum
Validates(c) ==
    /\ InLimits(c.passed) /\ InLimits(c.failed)
    /\ CASE c.status = "bracketed" -> 0 < c.passed /\ c.passed < c.failed /\ c.failed - c.passed <= limits.precision
         [] c.status = "lower_bound_only" -> c.passed = limits.maximum /\ c.failed = 0
         [] c.status = "below_minimum" -> c.passed = 0 /\ c.failed = limits.minimum
         [] OTHER -> FALSE

\* The end of run_capacity: search has returned bounds.
Invalid == [valid |-> FALSE, capacity |-> Bounds("invalid", 0, 0), verdict |-> None]
Compared(c) ==
    IF baseline = NoBaseline THEN [valid |-> TRUE, capacity |-> c, verdict |-> None]
    ELSE IF ~Validates(c) THEN Invalid
    ELSE [valid |-> TRUE, capacity |-> c, verdict |-> Verdict(baseline.capacity, c)]
Finish(c) ==
    /\ pc' = "done" /\ result' = Compared(c) /\ file' = Compared(c)
    /\ UNCHANGED <<low, high, cps>>

----------------------------------------------------------------------------
\* search, after a probe of cps that passed or failed.

ProbeNext(at, l, h, rate) ==
    pc' = at /\ low' = l /\ high' = h /\ cps' = rate /\ UNCHANGED result /\ file' = result
Smaller(a, b) == IF a < b THEN a ELSE b
Double(l) ==
    IF l >= limits.maximum THEN Finish(Bounds("lower_bound_only", l, 0))
    ELSE ProbeNext("double", l, Smaller(limits.maximum, l * 2), Smaller(limits.maximum, l * 2))

Middle(l, h) == (l + h) \div 2
Narrow(l, h) == h - l <= limits.precision
Bisect(l, h) ==
    IF Narrow(l, h) THEN Finish(Bounds("bracketed", l, h))
    ELSE ProbeNext("bisect", l, h, Middle(l, h))

Search(ok) ==
    CASE pc = "first" -> IF ok THEN Double(cps) ELSE Finish(Bounds("below_minimum", 0, cps))
      [] pc = "double" -> IF ok THEN Double(cps) ELSE Bisect(low, cps)
      [] OTHER -> IF ok THEN Bisect(cps, high) ELSE Bisect(low, cps)

----------------------------------------------------------------------------
\* probe: one run of a rate.  Every rate is run repeats times, failed or not.

Outcomes == IF truth = Noisy THEN BOOLEAN ELSE {cps <= truth}
\* Seeded fault: the last run of a rate decides.
AllPassedLast(ok) == ok
AllPassed(ok) == passed /\ ok
Measure ==
    /\ Probing
    /\ \E ok \in Outcomes :
           /\ runs' = runs \cup {<<cps, repeat, ok>>}
           /\ IF repeat < limits.repeats
              THEN /\ repeat' = repeat + 1 /\ passed' = AllPassed(ok)
                   /\ file' = result /\ UNCHANGED <<pc, low, high, cps, result>>
              ELSE repeat' = 1 /\ passed' = TRUE /\ Search(AllPassed(ok))
    /\ Keep

\* A run is invalid, differs in environment or build, or is interrupted.
Abort ==
    /\ Probing
    /\ pc' = "done" /\ result' = Invalid /\ file' = Invalid
    /\ UNCHANGED <<low, high, cps, repeat, passed, runs>> /\ Keep

\* The search is killed: what was saved last stays.
Kill ==
    /\ Probing /\ pc' = "killed"
    /\ UNCHANGED <<low, high, cps, repeat, passed, result, file, runs>> /\ Keep

Done == ~Probing /\ UNCHANGED vars

Next == Measure \/ Abort \/ Kill \/ Done

Spec == Init /\ [][Next]_vars

----------------------------------------------------------------------------
(* Properties *)

\* Bounds are those of a search and a run is valid only with a finished one.
TypeOK ==
    /\ pc \in {"first", "double", "bisect", "done", "killed"}
    /\ cps \in limits.minimum..limits.maximum /\ repeat \in 1..limits.repeats
    /\ file.valid => pc = "done" /\ file.capacity.status \in {"bracketed", "lower_bound_only", "below_minimum"}

Passing(r) == \A k \in 1..limits.repeats : <<r, k, TRUE>> \in runs
Failing(r) == \E k \in 1..limits.repeats : <<r, k, FALSE>> \in runs

\* A saved valid result is what was measured, whatever the service answered:
\* all runs at the passing rate passed and one at the failing rate failed
\* (probe, search), wherever the search was stopped.
ResultMeasured ==
    file.valid => /\ file.capacity.passed # 0 => Passing(file.capacity.passed)
                  /\ file.capacity.failed # 0 => Failing(file.capacity.failed)

\* No run is made twice, so none finds its directory taken and the search
\* ends: the run to come is never a recorded one (search, probe).
RunOnce == Probing => \A ok \in BOOLEAN : <<cps, repeat, ok>> \notin runs

\* A result the search calls valid is one validate_result accepts, as a
\* baseline of the next search (search, validate_result).
AcceptedLater == file.valid => Validates(file.capacity)

\* For services that sustain exactly the rates up to their capacity the gate
\* is never wrong: it accepts only a capacity that
\* dropped by no more than allowed and rejects only one that dropped by more
\* (compare_capacity).
GateSound ==
    truth # Noisy =>
        /\ file.verdict = "accept" => truth * 100 >= baseline.truth * factor
        /\ file.verdict = "reject" => truth * 100 < baseline.truth * factor
=============================================================================
