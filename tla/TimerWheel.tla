----------------------------- MODULE TimerWheel -----------------------------
(***************************************************************************)
(* The hierarchical timing wheel of owner_timer.c: Levels levels of Slots  *)
(* slots, a cursor in ticks, a queue of timers already due when armed, and *)
(* a poll that moves the cursor from boundary to boundary, cascading the   *)
(* buckets it meets, before it runs the callbacks.                         *)
(*                                                                         *)
(* The doubly linked lists are sets: place tells which list a timer is on. *)
(* Callbacks arm and cancel timers; they are the Arm and Cancel steps      *)
(* between two Fire steps.                                                 *)
(***************************************************************************)
EXTENDS Integers, FiniteSets

CONSTANTS Timers, Limit, MaxCycle, Hz, PerSecond, Levels, Slots, Delays, Unarmed

\* What a configuration satisfies:
\*   /\ {Levels, Slots, Limit, MaxCycle, Hz, PerSecond} \subseteq Nat \ {0}
\*   /\ Slots > 1 /\ Delays \subseteq Nat /\ Unarmed \notin Int
\*   /\ (MaxCycle * PerSecond + Hz - 1) \div Hz < Slots ^ Levels - 1

VARIABLES
    now,       \* the clock
    due,       \* deadline_cycles of an armed timer, else Unarmed
    tick,      \* backend.wheel.tick
    place,     \* the list the timer is linked on
    cursor, nextTick,
    phase,     \* "rest", or the stage of a poll: "cascade", "fire"
    at, target \* the poll's reading of the clock

vars == <<now, due, tick, place, cursor, nextTick, phase, at, target>>

\* A list is a bucket, by level and slot, or one of three outside the wheel.
Off == <<-1, 0>>
Immediate == <<-1, 1>>
Ready == <<-1, 2>>
Buckets == (0..(Levels - 1)) \X (0..(Slots - 1))
Armed == {t \in Timers : due[t] # Unarmed}
NoTick == Slots ^ Levels - 1

----------------------------------------------------------------------------
\* Conversions.

FloorTick(c) == (c * PerSecond) \div Hz
CeilTick(c) == (c * PerSecond + Hz - 1) \div Hz
TargetTick(c) == IF c = MaxCycle THEN CeilTick(c) ELSE FloorTick(c)
\* wheel_cache_next.
Cycles(tk) == LET c == (tk * Hz + PerSecond - 1) \div PerSecond
              IN IF c > MaxCycle THEN MaxCycle ELSE c

\* owner_timer_ms_to_cycles, with every overflow check of the code; MaxCycle
\* is the largest value of the word.
MsToCycles(ms) ==
    LET seconds == ms \div PerSecond
        remainder == ms % PerSecond
        cycles == seconds * Hz
        whole == remainder * (Hz \div PerSecond)
        part == (remainder * (Hz % PerSecond)) \div PerSecond
    IN IF \/ seconds > MaxCycle \div Hz
          \/ remainder # 0 /\ Hz \div PerSecond > MaxCycle \div remainder
          \/ part > MaxCycle - whole
          \/ whole + part > MaxCycle - cycles
       THEN MaxCycle ELSE cycles + whole + part

\* owner_timer_arm_after_ms.
Deadline(ms) == IF MsToCycles(ms) > MaxCycle - now THEN MaxCycle ELSE now + MsToCycles(ms)

----------------------------------------------------------------------------
\* Placement.

\* wheel_boundary: the first tick of slot s of level l, as seen from cursor c.
Boundary(c, l, s) == (c \div Slots ^ (l + 1)) * Slots ^ (l + 1) + s * Slots ^ l

\* The bucket of a tick after the cursor: the highest digit that differs.
Bucket(tk, c) ==
    LET l == CHOOSE k \in 0..(Levels - 1) :
               /\ tk \div Slots ^ k # c \div Slots ^ k
               /\ tk \div Slots ^ (k + 1) = c \div Slots ^ (k + 1)
    IN <<l, (tk \div Slots ^ l) % Slots>>

\* wheel_schedule: the list of a timer with tick tk when the cursor is at c,
\* and the cached next boundary.
Placed(tk, c) == IF tk <= c THEN Immediate ELSE Bucket(tk, c)
Earlier(nt, c, p) ==
    IF p \in Buckets /\ Boundary(c, p[1], p[2]) < nt THEN Boundary(c, p[1], p[2]) ELSE nt

\* wheel_next: the occupied bucket with the least boundary, scanning levels
\* upwards and taking the first occupied slot of each.
Occupied(pl) == {b \in Buckets : \E t \in Timers : pl[t] = b}
FirstOf(pl) == {b \in Occupied(pl) : \A b2 \in Occupied(pl) : b2[1] = b[1] => b[2] <= b2[2]}
NextBucket(pl, c) ==
    CHOOSE b \in FirstOf(pl) : \A b2 \in FirstOf(pl) :
        \/ Boundary(c, b[1], b[2]) < Boundary(c, b2[1], b2[2])
        \/ Boundary(c, b[1], b[2]) = Boundary(c, b2[1], b2[2]) /\ b[1] <= b2[1]
NextTickOf(pl, c) ==
    IF Occupied(pl) = {} THEN NoTick
    ELSE LET b == NextBucket(pl, c) IN Boundary(c, b[1], b[2])

----------------------------------------------------------------------------
Init ==
    /\ now \in {0, MaxCycle \div 2}
    /\ due = [t \in Timers |-> Unarmed] /\ tick = [t \in Timers |-> 0]
    /\ place = [t \in Timers |-> Off]
    /\ cursor = FloorTick(now) /\ nextTick = NoTick
    /\ phase = "rest" /\ at = now /\ target = 0

Advance ==
    /\ now < MaxCycle
    /\ now' \in (now + 1)..MaxCycle
    /\ UNCHANGED <<due, tick, place, cursor, nextTick, phase, at, target>>

Room == Cardinality(Armed) < Limit
DueList == Immediate

\* owner_timer_arm_at; a timer that is armed moves, also from the ready list of
\* the poll under way.
ArmAt(t, d) ==
    /\ phase # "cascade"
    /\ t \in Armed \/ Room
    /\ LET tk == CeilTick(d)
           p == IF d <= now THEN DueList ELSE Placed(tk, cursor)
       IN /\ due' = [due EXCEPT ![t] = d]
          /\ tick' = [tick EXCEPT ![t] = tk]
          /\ place' = [place EXCEPT ![t] = p]
          /\ nextTick' = Earlier(nextTick, cursor, p)
    /\ UNCHANGED <<now, cursor, phase, at, target>>

\* owner_timer_arm_after_ms, and an absolute deadline in the past.
Arm(t) == \/ \E ms \in Delays : ArmAt(t, Deadline(ms))
          \/ ArmAt(t, now \div 2)

\* owner_timer_cancel; the cached boundary stays.
Cancel(t) ==
    /\ phase # "cascade" /\ t \in Armed
    /\ due' = [due EXCEPT ![t] = Unarmed] /\ tick' = [tick EXCEPT ![t] = 0]
    /\ place' = [place EXCEPT ![t] = Off]
    /\ UNCHANGED <<now, cursor, nextTick, phase, at, target>>

NothingDue ==
    \/ Armed = {}
    \/ (\A t \in Timers : place[t] # Immediate) /\ now < Cycles(nextTick)

PollIdle ==
    /\ phase = "rest" /\ NothingDue
    /\ at' = now
    /\ UNCHANGED <<now, due, tick, place, cursor, nextTick, phase, target>>

\* The poll reads the clock and takes the immediate queue.
PollBegin ==
    /\ phase = "rest" /\ ~NothingDue
    /\ phase' = "cascade" /\ at' = now /\ target' = TargetTick(now)
    /\ place' = [t \in Timers |-> IF place[t] = Immediate THEN Ready ELSE place[t]]
    /\ UNCHANGED <<now, due, tick, cursor, nextTick>>

\* Seeded fault: every timer of the bucket is taken for due.
DueInBucketAll(t) == TRUE
DueInBucket(t) == tick[t] <= target /\ due[t] <= at

Relinked(t, c) == Placed(tick[t], c)

\* One iteration of the cascade: the bucket at the next boundary is emptied to
\* the ready list and to lower levels.
Cascade ==
    /\ phase = "cascade" /\ nextTick <= target
    /\ NextTickOf(place, cursor) <= target /\ Occupied(place) # {}
    /\ LET b == NextBucket(place, cursor)
           c == NextTickOf(place, cursor)
           pl == [t \in Timers |-> IF place[t] # b THEN place[t]
                                   ELSE IF DueInBucket(t) THEN Ready ELSE Relinked(t, c)]
       IN /\ cursor' = c /\ place' = pl
          /\ nextTick' = NextTickOf(pl, c)
    /\ UNCHANGED <<now, due, tick, phase, at, target>>

CascadeEnd ==
    /\ phase = "cascade"
    /\ nextTick > target \/ NextTickOf(place, cursor) > target \/ Occupied(place) = {}
    /\ nextTick' = IF nextTick > target THEN nextTick ELSE NextTickOf(place, cursor)
    /\ cursor' = IF target > cursor THEN target ELSE cursor
    /\ phase' = "fire"
    /\ UNCHANGED <<now, due, tick, place, at, target>>

\* A ready timer is detached, then its callback runs.
Fire(t) ==
    /\ phase = "fire" /\ place[t] = Ready
    /\ due' = [due EXCEPT ![t] = Unarmed] /\ tick' = [tick EXCEPT ![t] = 0]
    /\ place' = [place EXCEPT ![t] = Off]
    /\ UNCHANGED <<now, cursor, nextTick, phase, at, target>>

PollEnd ==
    /\ phase = "fire" /\ \A t \in Timers : place[t] # Ready
    /\ phase' = "rest" /\ target' = 0
    /\ UNCHANGED <<now, due, tick, place, cursor, nextTick, at>>

Next ==
    \/ Advance \/ PollIdle \/ PollBegin \/ Cascade \/ CascadeEnd \/ PollEnd
    \/ \E t \in Timers : Arm(t) \/ Cancel(t) \/ Fire(t)

Spec == Init /\ [][Next]_vars

----------------------------------------------------------------------------
\* Properties

TypeOK ==
    /\ now \in 0..MaxCycle /\ due \in [Timers -> 0..MaxCycle \cup {Unarmed}]
    /\ tick \in [Timers -> 0..NoTick]
    /\ place \in [Timers -> Buckets \cup {Off, Immediate, Ready}]
    /\ cursor \in 0..NoTick /\ nextTick \in 0..NoTick
    /\ phase \in {"rest", "cascade", "fire"} /\ at \in 0..MaxCycle /\ target \in 0..NoTick
    /\ Cardinality(Armed) <= Limit

\* A timer is linked exactly when it is armed, and a bucketed timer is where
\* wheel_schedule would put it from the cursor as it is now, however far the
\* cursor has moved since: the slots in use are ahead of the cursor.
PlacedForCursor ==
    \A t \in Timers :
        /\ (place[t] = Off) = (t \notin Armed)
        /\ place[t] \in Buckets => tick[t] > cursor /\ place[t] = Bucket(tick[t], cursor)

\* The cached boundary is never later than the first occupied one, so the early
\* return of wheel_poll skips nothing.
NextIsBound == nextTick <= NextTickOf(place, cursor)

\* A delay in milliseconds gives the exact deadline, saturated at the largest
\* clock value: no product or sum of owner_timer_ms_to_cycles and
\* owner_timer_arm_after_ms wraps.
ConversionExact ==
    \A ms \in 0..(2 * MaxCycle) :
        LET exact == now + (ms * Hz) \div PerSecond
        IN Deadline(ms) = IF exact > MaxCycle THEN MaxCycle ELSE exact

\* The wheel is a timer service: nothing fires early, twice or after a cancel,
\* and a poll leaves no timer behind that was due when it began.
Owed == IF phase = "rest" THEN {}
        ELSE {t \in Armed : \/ place[t] = Ready
                            \/ phase = "cascade" /\ tick[t] <= target /\ due[t] <= at}
Service == INSTANCE TimerService WITH owed <- Owed, polling <- (phase # "rest"), polled <- at
ServiceSpec == Service!Init /\ [][Service!Next]_(Service!svars)

=============================================================================
