---------------------------- MODULE TimerService ----------------------------
(***************************************************************************)
(* What owner_timer.h promises, whatever the backend: a bounded set of     *)
(* one-shot timers owned by one core.  A timer fires only when its         *)
(* deadline has passed, once per arming, and not after a cancel; a poll    *)
(* fires every timer that was due at its start (to the resolution of the   *)
(* clock) unless a callback cancels or re-arms it first.  With the rte     *)
(* backend owner_timer.c is this module: rte_timer keeps the set.          *)
(***************************************************************************)
EXTENDS Integers, FiniteSets

CONSTANTS Timers, Limit, MaxCycle, Hz, PerSecond, Unarmed

VARIABLES now, due, owed, polling, polled

svars == <<now, due, owed, polling, polled>>

Armed == {t \in Timers : due[t] # Unarmed}
\* The clock in ticks of one millisecond, rounded down or up.
FloorTick(c) == (c * PerSecond) \div Hz
CeilTick(c) == (c * PerSecond + Hz - 1) \div Hz
TargetTick(c) == IF c = MaxCycle THEN CeilTick(c) ELSE FloorTick(c)

Passed(c) == {t \in Armed : due[t] <= c}
Owing(c) == {t \in Armed : CeilTick(due[t]) <= TargetTick(c) /\ due[t] <= c}

Init ==
    /\ now \in 0..MaxCycle /\ polled = now
    /\ due = [t \in Timers |-> Unarmed]
    /\ owed = {} /\ polling = FALSE

Advance == /\ now < MaxCycle /\ now' \in (now + 1)..MaxCycle
           /\ UNCHANGED <<due, owed, polling, polled>>

Arm(t) ==
    /\ due[t] # Unarmed \/ Cardinality(Armed) < Limit
    /\ \E d \in 0..MaxCycle : due' = [due EXCEPT ![t] = d]
    /\ owed' = owed \ {t}
    /\ UNCHANGED <<now, polling, polled>>

Cancel(t) ==
    /\ due' = [due EXCEPT ![t] = Unarmed] /\ owed' = owed \ {t}
    /\ UNCHANGED <<now, polling, polled>>

\* A poll that finds nothing to do.
PollIdle ==
    /\ ~polling /\ Owing(now) = {} /\ polled' = now
    /\ UNCHANGED <<now, due, owed, polling>>

PollBegin ==
    /\ ~polling /\ polling' = TRUE
    /\ owed' \in SUBSET Passed(now) /\ Owing(now) \subseteq owed'
    /\ polled' = now
    /\ UNCHANGED <<now, due>>

Fire(t) ==
    /\ polling /\ t \in owed
    /\ due' = [due EXCEPT ![t] = Unarmed] /\ owed' = owed \ {t}
    /\ UNCHANGED <<now, polling, polled>>

PollEnd == /\ polling /\ owed = {} /\ polling' = FALSE
           /\ UNCHANGED <<now, due, owed, polled>>

Next == \/ Advance \/ PollIdle \/ PollBegin \/ PollEnd
        \/ \E t \in Timers : Arm(t) \/ Cancel(t) \/ Fire(t)

Spec == Init /\ [][Next]_svars
=============================================================================
