---------------------------- MODULE NepollProofs ----------------------------
(***************************************************************************)
(* Proofs about the poll sets (Nepoll) and, with the lemmas of             *)
(* PublicFdProofs, about the descriptor table they wait on, for any number *)
(* of threads, waiters, descriptors, sockets and pollers.                  *)
(*                                                                         *)
(* A step keeps the wake-ups of every waiter it leaves where it is as long *)
(* as it wakes it, shows it nothing new, or leaves somebody who will       *)
(* notify (WaiterKept).                                                    *)
(***************************************************************************)
EXTENDS Nepoll, PublicFdProofs, FiniteSetTheorems

Sub     == [handle : Handles \cup {Null}, read : BOOLEAN]
Poller  == [life : {"none", "open", "closed", "freed"}, refs : Nat, cursor : Fds,
            sub : [Fds -> Sub]]
Waiting == [pc : {"idle", "load", "lock", "scan", "sleep", "leave"},
            poller : Pollers \cup {Null}, i : 0..NSOCK_FD_MAX, start : Fds,
            out : SUBSET Fds]

PollTypes == poller \in [Pollers -> Poller] /\ wait \in [Waiters -> Waiting]

LEMMA PollFacts ==
  /\ PollTypeOK <=> TypeOK /\ PollTypes
  /\ Null \notin Pollers
<1>1. Null \notin Pollers
  BY FdAssumption, PollAssumption DEF Pollers
<1> QED BY Zenon, <1>1 DEF PollTypeOK, PollTypes, Poller, Waiting, Sub

\* What ScanSound and NoLostWakeup say of one waiter.
Sound(w) ==
  /\ wait[w].pc = "scan" =>
       /\ Open(wait[w].poller)
       /\ ~moved[w] =>
            \/ Notified
            \/ \A j \in 0..(wait[w].i - 1) : \/ Position(w, j) \in wait[w].out
                                             \/ Position(w, j) \notin Pending(wait[w].poller)
  /\ wait[w].pc = "sleep" /\ ~moved[w] =>
       \/ Open(wait[w].poller) /\ Pending(wait[w].poller) = {}
       \/ Notified

LEMMA SoundLemma ==
  /\ ScanSound /\ NoLostWakeup <=> \A w \in Waiters : Sound(w)
  /\ ScanSound' /\ NoLostWakeup' <=> \A w \in Waiters : Sound(w)'
  BY Zenon DEF ScanSound, NoLostWakeup, Sound

\* The pollers keep open, and show nothing they did not show before.
KeepsOpen == \A p \in Pollers : Open(p) => Open(p)'
Shrinks   == \A p \in Pollers : Pending(p)' \subseteq Pending(p)

LEMMA WaiterKept ==
  ASSUME NEW w \in Waiters, Sound(w), PollTypes, Waits,
         wait'[w] = wait[w], moved'[w] \/ moved'[w] = moved[w],
         KeepsOpen \/ (Unlocked /\ Notified'), Shrinks \/ Notified', Notified => Notified'
  PROVE  Sound(w)'
<1>1. PICK p, i, s, o : /\ p = wait[w].poller /\ i = wait[w].i /\ s = wait[w].start
                        /\ o = wait[w].out
  BY Zenon
<1>2. p = wait'[w].poller /\ i = wait'[w].i /\ s = wait'[w].start /\ o = wait'[w].out
  BY Zenon, <1>1
<1>3. wait[w].pc \in {"scan", "sleep"} => p \in Pollers
  <2>1. wait[w].poller \in Pollers \cup {Null}
    BY Zenon DEF PollTypes, Waiting
  <2> QED BY Zenon, <1>1, <2>1 DEF Waits
<1>4. wait[w].pc = "scan" =>
        /\ Open(p)'
        /\ ~moved'[w] => \/ Notified'
                         \/ \A j \in 0..(i - 1) : \/ (s + j) % NSOCK_FD_MAX \in o
                                                  \/ (s + j) % NSOCK_FD_MAX \notin Pending(p)'
  <2> SUFFICES ASSUME wait[w].pc = "scan"
               PROVE  /\ Open(p)'
                      /\ ~moved'[w] =>
                           \/ Notified'
                           \/ \A j \in 0..(i - 1) : \/ (s + j) % NSOCK_FD_MAX \in o
                                                    \/ (s + j) % NSOCK_FD_MAX \notin Pending(p)'
    BY Zenon
  <2>1. KeepsOpen /\ Open(p) /\ p \in Pollers
    BY Zenon, <1>1, <1>3 DEF Unlocked, Sound
  <2>2. Open(p)'
    BY Zenon, <2>1 DEF KeepsOpen
  <2>3. ~moved[w] =>
          \/ Notified
          \/ \A j \in 0..(i - 1) : \/ (s + j) % NSOCK_FD_MAX \in o
                                   \/ (s + j) % NSOCK_FD_MAX \notin Pending(p)
    BY Zenon, <1>1 DEF Sound, Position
  <2> QED BY Zenon, <2>1, <2>2, <2>3 DEF Shrinks
<1>5. wait[w].pc = "sleep" /\ ~moved'[w] => (Open(p)' /\ Pending(p)' = {}) \/ Notified'
  <2> SUFFICES ASSUME wait[w].pc = "sleep", ~moved'[w], ~Notified'
               PROVE  Open(p)' /\ Pending(p)' = {}
    BY Zenon
  <2>1. Open(p) /\ Pending(p) = {} /\ p \in Pollers
    BY Zenon, <1>1, <1>3 DEF Sound
  <2> QED BY Zenon, <2>1 DEF KeepsOpen, Shrinks
<1> QED BY Zenon, <1>1, <1>2, <1>4, <1>5 DEF Sound, Position

\* A step of the table leaves the poll sets as they were.
LEMMA FdStepPolls ==
  ASSUME FdInv, Announces, TypeOK', PollTypes, Waits, ScanSound, NoLostWakeup,
         PollerMemory, UNCHANGED pollVars
  PROVE  PollTypes' /\ Waits' /\ ScanSound' /\ NoLostWakeup' /\ PollerMemory'
<1>1. poller' = poller /\ wait' = wait
  BY Zenon DEF pollVars
<1>2. PollTypes' /\ Waits' /\ PollerMemory'
  BY Zenon, <1>1 DEF PollTypes, Waits, PollerMemory, In, Open
<1>3. KeepsOpen
  BY Zenon, <1>1 DEF KeepsOpen, Open
<1>4. CASE moved' = [w \in Waiters |-> TRUE]
  <2>1. ASSUME NEW w \in Waiters PROVE Sound(w)'
    <3>1. moved'[w] /\ wait'[w] = wait[w]
      BY Zenon, <1>1, <1>4
    <3>2. wait[w].pc = "scan" => Open(wait[w].poller)
      BY Zenon DEF ScanSound
    <3> QED BY Zenon, <1>1, <3>1, <3>2 DEF Sound, Open
  <2> QED BY Zenon, <1>2, <2>1, SoundLemma
<1>5. CASE /\ moved' = moved /\ (Notified => Notified')
           /\ \/ Notified'
              \/ \A f \in Fds : fdTable'[f] = fdTable[f] \/ fdTable'[f].ready = "none"
  <2>1. Shrinks \/ Notified'
    <3> SUFFICES ASSUME NEW p \in Pollers, NEW f \in Fds, f \in Pending(p)', ~Notified'
                 PROVE  f \in Pending(p)
      BY Zenon DEF Shrinks, Pending
    <3>1. /\ poller[p].sub[f] # NoSub /\ fdTable'[f].handle = poller[p].sub[f].handle
          /\ fdTable'[f].ready \in {"hup"} \cup IF poller[p].sub[f].read THEN {"read"} ELSE {}
      BY Zenon, <1>1 DEF Pending, Names, Due
    <3>2. fdTable'[f].ready # "none"
      <4>1. "hup" # "none" /\ "read" # "none"
        BY Zenon
      <4> QED BY Zenon, <3>1, <4>1
    <3>3. fdTable'[f] = fdTable[f]
      BY Zenon, <1>5, <3>2
    <3> QED BY Zenon, <3>1, <3>3 DEF Pending, Names, Due
  <2>2. \A w \in Waiters : Sound(w)
    BY Zenon, SoundLemma
  <2>3. ASSUME NEW w \in Waiters PROVE Sound(w)'
    <3>1. /\ Sound(w) /\ wait'[w] = wait[w] /\ moved'[w] = moved[w]
          /\ (Notified => Notified')
      BY Zenon, <1>1, <1>5, <2>2
    <3>2. /\ moved'[w] \/ moved'[w] = moved[w]
          /\ KeepsOpen \/ (Unlocked /\ Notified')
      BY Zenon, <1>3, <3>1
    <3> QED BY Zenon, <2>1, <3>1, <3>2, WaiterKept
  <2> QED BY Zenon, <1>2, <2>3, SoundLemma
<1> QED BY Zenon, <1>2, <1>4, <1>5 DEF Announces

PInv     == /\ FdInv /\ ReadinessShown /\ PollTypes /\ Waits /\ ScanSound /\ NoLostWakeup
            /\ PollerMemory
PollKept == PollTypes' /\ Waits' /\ ScanSound' /\ NoLostWakeup' /\ PollerMemory'

\* A step of the poll sets changes nothing of the table but the call of an idle
\* thread.
LEMMA TableUntouched ==
  ASSUME FdInv, ReadinessShown,
         UNCHANGED <<fdTable, sk, undelivered, known, notifying, down>>,
         moved' \in [Waiters -> BOOLEAN],
         \/ call' = call
         \/ \E t \in Threads, o \in {"idle", "notify"} :
              call[t].op = "idle" /\ call' = [call EXCEPT ![t].op = o]
  PROVE  FdInv' /\ ReadinessShown'
<1>1. /\ call \in [Threads -> Local] /\ down \in BOOLEAN /\ notifying \in BOOLEAN
      /\ sk \in [Handles -> Socket] /\ fdTable \in [Fds -> Entry]
  BY Zenon, TypeFacts DEF FdInv, TypeOK
<1>2. call' \in [Threads -> Local] /\ Calls
  <2>1. CASE call' = call
    BY Zenon, <1>1, <2>1 DEF Calls
  <2>2. ASSUME NEW t \in Threads, NEW o \in {"idle", "notify"}, call[t].op = "idle",
               call' = [call EXCEPT ![t].op = o]
        PROVE  call' \in [Threads -> Local] /\ Calls
    <3>1. o \in Ops
      BY Zenon DEF Ops
    <3>2. /\ call' \in [Threads -> Local] /\ call'[t].op = o
          /\ \A s \in Threads : s # t => call'[s] = call[s]
      BY <1>1, <2>2, <3>1 DEF Local
    <3>3. t \notin Publishers
      BY Zenon, <2>2 DEF Publishers
    <3> QED BY Zenon, <3>2, <3>3 DEF Calls
  <2> QED BY Zenon, <2>1, <2>2
<1>3. Ages /\ Stores
  BY Zenon, <1>1 DEF Ages, Stores
<1>4. Quiet
  <2>1. /\ undelivered' \subseteq undelivered
        /\ \A h \in undelivered \ undelivered' : sk'[h].life # "open"
    BY Zenon
  <2> QED BY Zenon, <1>1, <1>2, <1>3, <2>1 DEF Quiet
<1>5. ReadinessShown'
  BY Zenon DEF ReadinessShown, Resolves
<1> QED BY Zenon, <1>4, <1>5, QuietKeeps

\* The references of one poller.
Inside(p)   == {w \in Waiters : In(w, p)}
MemoryOf(p) == /\ poller[p].refs = Cardinality(Inside(p)) + IF Open(p) THEN 1 ELSE 0
               /\ poller[p].life \in {"none", "freed"} <=> poller[p].refs = 0

LEMMA MemoryLemma ==
  /\ PollerMemory <=> \A p \in Pollers : MemoryOf(p)
  /\ PollerMemory' <=> \A p \in Pollers : MemoryOf(p)'
  BY Zenon DEF PollerMemory, MemoryOf, Inside

LEMMA InsideLemma ==
  ASSUME NEW p
  PROVE  IsFiniteSet(Inside(p)) /\ Cardinality(Inside(p)) \in Nat
<1>1. Inside(p) \in SUBSET Waiters
  BY Zenon DEF Inside
<1> QED BY Zenon, <1>1, PollAssumption, FS_Subset, FS_CardinalityType

\* A poller nobody enters, leaves, opens or closes.
LEMMA MemorySame ==
  ASSUME NEW p \in Pollers, MemoryOf(p), Inside(p)' = Inside(p),
         poller'[p].refs = poller[p].refs, poller'[p].life = poller[p].life
  PROVE  MemoryOf(p)'
<1>1. Open(p)' <=> Open(p)
  BY Zenon DEF Open
<1> QED BY Zenon, <1>1 DEF MemoryOf

\* Where one waiter is.
WaitOf(w) == /\ wait[w].pc = "idle" <=> wait[w].poller = Null
             /\ wait[w].pc # "scan" => wait[w].i = 0
             /\ wait[w].pc \notin {"scan", "leave"} => wait[w].out = {}

LEMMA WaitsKept ==
  ASSUME Waits, NEW w \in Waiters, \A v \in Waiters : v # w => wait'[v] = wait[v],
         WaitOf(w)', wait'[w].pc = "scan" => wait[w].pc = "scan" \/ Unlocked
  PROVE  Waits'
<1>1. ASSUME NEW v \in Waiters PROVE WaitOf(v)'
  <2>1. WaitOf(v)
    BY Zenon DEF Waits, WaitOf
  <2>2. v # w => WaitOf(v)'
    BY Zenon, <2>1 DEF WaitOf
  <2> QED BY Zenon, <2>2
<1>2. ASSUME NEW u \in Waiters, NEW v \in Waiters, wait'[u].pc = "scan", wait'[v].pc = "scan"
      PROVE  u = v
  <2>1. wait[u].pc = "scan" \/ u = w
    BY Zenon, <1>2
  <2>2. wait[v].pc = "scan" \/ v = w
    BY Zenon, <1>2
  <2> QED BY Zenon, <1>2, <2>1, <2>2 DEF Waits, Unlocked
<1> QED BY Zenon, <1>1, <1>2 DEF Waits, WaitOf

\* One waiter takes a step and the pollers stay as they are.
LEMMA WaiterMoves ==
  ASSUME PInv, NEW w \in Waiters, wait' \in [Waiters -> Waiting],
         UNCHANGED <<fdTable, call, notifying, poller>>,
         \A v \in Waiters : v # w => wait'[v] = wait[v] /\ moved'[v] = moved[v],
         wait'[w].poller = wait[w].poller, WaitOf(w)', Sound(w)',
         wait'[w].pc = "scan" => wait[w].pc = "scan" \/ Unlocked
  PROVE  PollKept
<1>1. /\ PollTypes /\ Waits /\ PollerMemory /\ \A v \in Waiters : Sound(v)
  BY Zenon, SoundLemma DEF PInv
<1>2. PollTypes' /\ Waits'
  BY Zenon, <1>1, WaitsKept DEF PollTypes
<1>3. KeepsOpen /\ Shrinks /\ (Notified => Notified')
  <2>1. KeepsOpen
    BY Zenon DEF KeepsOpen, Open
  <2>2. Shrinks
    BY Zenon DEF Shrinks, Pending, Names, Due
  <2>3. Notified => Notified'
    BY Zenon DEF Notified
  <2> QED BY Zenon, <2>1, <2>2, <2>3
<1>4. ASSUME NEW v \in Waiters PROVE Sound(v)'
  <2>1. v # w => wait'[v] = wait[v] /\ (moved'[v] \/ moved'[v] = moved[v])
    BY Zenon
  <2>2. Shrinks \/ Notified'
    BY Zenon, <1>3
  <2>3. KeepsOpen \/ (Unlocked /\ Notified')
    BY Zenon, <1>3
  <2> QED BY Zenon, <1>1, <1>3, <2>1, <2>2, <2>3, WaiterKept
<1>5. ASSUME NEW p \in Pollers PROVE MemoryOf(p)'
  <2>1. Inside(p)' = Inside(p)
    <3>1. \A v \in Waiters : In(v, p)' <=> In(v, p)
      BY Zenon DEF In
    <3> QED BY Zenon, <3>1 DEF Inside
  <2>2. MemoryOf(p)
    BY Zenon, <1>1, MemoryLemma
  <2> QED BY Zenon, <2>1, <2>2, MemorySame
<1> QED BY Zenon, <1>2, <1>4, <1>5, SoundLemma, MemoryLemma DEF PollKept

\* A scan of NSOCK_FD_MAX descriptors from any start passes all of them.
LEMMA RoundLemma ==
  ASSUME NEW s \in Fds, NEW f \in Fds
  PROVE  \E j \in 0..(NSOCK_FD_MAX - 1) : (s + j) % NSOCK_FD_MAX = f
<1> DEFINE N == NSOCK_FD_MAX
<1>1. N \in Nat /\ N > 0 /\ s \in 0..(N - 1) /\ f \in 0..(N - 1)
  BY FdAssumption DEF Fds
<1> HIDE DEF N
<1>2. f % N = f
  BY SMT, <1>1
<1>3. (f + N) % N = f
  BY SMT, <1>1
<1>4. CASE s <= f
  <2>1. f - s \in 0..(N - 1) /\ s + (f - s) = f
    BY <1>1, <1>4
  <2> QED BY Zenon, <1>2, <2>1 DEF N
<1>5. CASE f < s
  <2>1. (f - s) + N \in 0..(N - 1) /\ s + ((f - s) + N) = f + N
    BY <1>1, <1>5
  <2> QED BY Zenon, <1>3, <2>1 DEF N
<1> QED BY <1>1, <1>4, <1>5

LEMMA AwakeSound ==
  ASSUME NEW w, wait'[w].pc \notin {"scan", "sleep"}
  PROVE  Sound(w)'
  BY Zenon DEF Sound

\* A waiter's program counter moves and nothing else of it.
LEMMA PcLemma ==
  ASSUME PInv, NEW w \in Waiters, NEW x \in {"load", "lock", "leave"},
         wait' = [wait EXCEPT ![w].pc = x], wait[w].pc \notin {"idle", "scan"},
         x = "leave" \/ wait[w].pc # "leave",
         UNCHANGED <<fdTable, call, notifying, poller>>,
         \A v \in Waiters : v # w => moved'[v] = moved[v]
  PROVE  PollKept
<1>1. wait \in [Waiters -> Waiting] /\ WaitOf(w)
  BY Zenon DEF PInv, PollTypes, Waits, WaitOf
<1>2. /\ wait' \in [Waiters -> Waiting] /\ wait'[w].pc = x
      /\ wait'[w].poller = wait[w].poller /\ wait'[w].i = wait[w].i
      /\ wait'[w].out = wait[w].out
      /\ \A v \in Waiters : v # w => wait'[v] = wait[v]
  BY Zenon, <1>1 DEF Waiting
<1>3. x # "idle" /\ x # "scan" /\ x # "sleep"
  BY Zenon
<1>4. Sound(w)'
  BY Zenon, <1>2, <1>3, AwakeSound
<1>5. WaitOf(w)'
  BY Zenon, <1>1, <1>2, <1>3 DEF WaitOf
<1> QED BY Zenon, <1>2, <1>3, <1>4, <1>5, WaiterMoves

\* An open scan, and the poller it is about.
LEMMA WaiterFacts ==
  ASSUME PInv, NEW w \in Waiters, wait[w].pc # "idle"
  PROVE  /\ wait[w].poller \in Pollers /\ wait[w] \in Waiting
         /\ w \in Inside(wait[w].poller)
         /\ MemoryOf(wait[w].poller)
         /\ poller[wait[w].poller].life \in {"open", "closed"}
<1>1. wait[w] \in Waiting /\ wait[w].poller # Null /\ PollTypes /\ PollerMemory
  BY Zenon DEF PInv, PollTypes, Waits
<1>2. PICK p : p = wait[w].poller
  BY Zenon
<1>3. p \in Pollers
  BY Zenon, <1>1, <1>2 DEF Waiting
<1>4. w \in Inside(p)
  BY Zenon, <1>2 DEF Inside, In
<1>5. MemoryOf(p)
  BY Zenon, <1>1, <1>3, MemoryLemma
<1>6. Cardinality(Inside(p)) # 0
  BY Zenon, <1>4, InsideLemma, FS_EmptySet
<1>7. Cardinality(Inside(p)) \in Nat
  BY Zenon, InsideLemma
<1>8. poller[p].refs # 0
  BY SMT, <1>5, <1>6, <1>7 DEF MemoryOf
<1>9. poller[p].life \in {"none", "open", "closed", "freed"}
  BY Zenon, <1>1, <1>3 DEF PollTypes, Poller
<1>10. poller[p].life \in {"open", "closed"}
  BY Zenon, <1>5, <1>8, <1>9 DEF MemoryOf
<1> QED BY Zenon, <1>1, <1>2, <1>3, <1>4, <1>5, <1>10

LEMMA BeginScanKept ==
  ASSUME PInv, NEW w \in Waiters, BeginScan(w)
  PROVE  PollKept
<1>1. /\ wait[w].pc = "lock" /\ Unlocked
      /\ UNCHANGED <<fdTable, call, notifying, poller, moved>>
      /\ wait' = [wait EXCEPT ![w].pc = IF poller[wait[w].poller].life = "closed"
                                        THEN "leave" ELSE "scan",
                              ![w].start = poller[wait[w].poller].cursor]
  BY Zenon DEF BeginScan, fdVars
<1>2. PICK p, x : /\ p = wait[w].poller
                  /\ x = IF poller[p].life = "closed" THEN "leave" ELSE "scan"
  BY Zenon
<1>3. p \in Pollers /\ poller[p].life \in {"open", "closed"}
  BY Zenon, <1>1, <1>2, WaiterFacts
<1>4. PollTypes /\ WaitOf(w)
  BY Zenon DEF PInv, Waits, WaitOf
<1>5. PICK c \in Fds : c = poller[p].cursor
  BY Zenon, <1>3, <1>4 DEF PollTypes, Poller
<1>6. x \in {"leave", "scan"}
  BY Zenon, <1>2
<1>7. wait' = [wait EXCEPT ![w].pc = x, ![w].start = c]
  BY Zenon, <1>1, <1>2, <1>5
<1>8. /\ wait' \in [Waiters -> Waiting] /\ wait'[w].pc = x
      /\ wait'[w].poller = wait[w].poller /\ wait'[w].i = wait[w].i
      /\ wait'[w].out = wait[w].out
      /\ \A v \in Waiters : v # w => wait'[v] = wait[v]
  BY Zenon, <1>4, <1>6, <1>7 DEF Waiting, PollTypes
<1>9. WaitOf(w)' /\ wait'[w].i = 0
  BY Zenon, <1>1, <1>2, <1>4, <1>6, <1>8 DEF WaitOf
<1>10. Sound(w)'
  <2>1. CASE x = "leave"
    BY Zenon, <1>8, <2>1, AwakeSound
  <2>2. CASE x = "scan"
    <3>1. Open(p)'
      BY Zenon, <1>1, <1>2, <1>3, <2>2 DEF Open
    <3>2. 0..(0 - 1) = {}
      BY SMT
    <3> QED BY Zenon, <1>2, <1>8, <1>9, <2>2, <3>1, <3>2 DEF Sound, Open
  <2> QED BY Zenon, <1>6, <2>1, <2>2
<1> QED BY Zenon, <1>1, <1>2, <1>8, <1>9, <1>10, WaiterMoves

LEMMA EndScanKept ==
  ASSUME PInv, NEW w \in Waiters, EndScan(w)
  PROVE  PollKept
<1>1. /\ wait[w].pc = "scan" /\ UNCHANGED <<fdTable, call, notifying, poller, moved>>
      /\ wait[w].i = NSOCK_FD_MAX \/ Cardinality(wait[w].out) = MaxEvents
  BY Zenon DEF EndScan, fdVars
<1>2. PICK x \in (IF wait[w].out # {} THEN {"leave"} ELSE {"leave", "sleep"}) :
        wait' = [wait EXCEPT ![w].pc = x, ![w].i = 0, ![w].start = 0]
  BY Zenon DEF EndScan
<1>3. x \in {"leave", "sleep"} /\ (x = "sleep" => wait[w].out = {})
  BY Zenon, <1>2
<1>4. PollTypes /\ WaitOf(w) /\ 0 \in Fds /\ 0 \in 0..NSOCK_FD_MAX
  <2>1. 0 \in Fds /\ 0 \in 0..NSOCK_FD_MAX
    BY FdAssumption DEF Fds
  <2> QED BY Zenon, <2>1 DEF PInv, Waits, WaitOf
<1>5. /\ wait' \in [Waiters -> Waiting] /\ wait'[w].pc = x
      /\ wait'[w].poller = wait[w].poller /\ wait'[w].i = 0 /\ wait'[w].out = wait[w].out
      /\ \A v \in Waiters : v # w => wait'[v] = wait[v]
  BY <1>2, <1>3, <1>4 DEF Waiting, PollTypes
<1>6. WaitOf(w)'
  BY Zenon, <1>1, <1>3, <1>4, <1>5 DEF WaitOf
<1>7. Sound(w)'
  <2>1. CASE x = "leave"
    BY Zenon, <1>5, <2>1, AwakeSound
  <2>2. CASE x = "sleep"
    <3>1. wait[w].out = {} /\ wait[w].i = NSOCK_FD_MAX
      <4>1. Cardinality({}) # MaxEvents
        BY Zenon, FS_EmptySet, PollAssumption
      <4> QED BY Zenon, <1>1, <1>3, <2>2, <4>1
    <3>2. PICK p, s : p = wait[w].poller /\ s = wait[w].start
      BY Zenon
    <3>3. Sound(w) /\ s \in Fds
      BY Zenon, <1>4, <3>2, SoundLemma DEF PInv, PollTypes, Waiting
    <3>4. /\ Open(p)
          /\ moved[w] \/ Notified
             \/ \A j \in 0..(NSOCK_FD_MAX - 1) : (s + j) % NSOCK_FD_MAX \notin Pending(p)
      BY Zenon, <1>1, <3>1, <3>2, <3>3 DEF Sound, Position
    <3>5. moved[w] \/ Notified \/ Pending(p) = {}
      <4>1. \A f \in Pending(p) : f \in Fds
        BY Zenon DEF Pending
      <4> QED BY Zenon, <3>3, <3>4, <4>1, RoundLemma
    <3>6. Open(p)' /\ Pending(p)' = Pending(p) /\ (Notified => Notified')
      BY Zenon, <1>1, <3>4 DEF Open, Pending, Names, Due, Notified
    <3> QED BY Zenon, <1>1, <1>5, <2>2, <3>2, <3>4, <3>5, <3>6 DEF Sound, Open
  <2> QED BY Zenon, <1>3, <2>1, <2>2
<1>8. wait'[w].pc # "scan"
  BY Zenon, <1>3, <1>5
<1> QED BY Zenon, <1>1, <1>5, <1>6, <1>7, <1>8, WaiterMoves

\* The pollers change and no waiter moves.
LEMMA PollersMove ==
  ASSUME PInv, PollTypes', UNCHANGED <<wait, moved>>, KeepsOpen \/ (Unlocked /\ Notified'),
         Shrinks \/ Notified', Notified => Notified', \A p \in Pollers : MemoryOf(p)'
  PROVE  PollKept
<1>1. /\ PollTypes /\ Waits /\ \A v \in Waiters : Sound(v)
  BY Zenon, SoundLemma DEF PInv
<1>2. Waits'
  BY Zenon, <1>1 DEF Waits
<1>3. ASSUME NEW v \in Waiters PROVE Sound(v)'
  <2>1. wait'[v] = wait[v] /\ (moved'[v] \/ moved'[v] = moved[v])
    BY Zenon
  <2> QED BY Zenon, <1>1, <2>1, WaiterKept
<1> QED BY Zenon, <1>2, <1>3, SoundLemma, MemoryLemma DEF PollKept

LEMMA NepollCreateKept ==
  ASSUME PInv, NEW t \in Threads, NepollCreate(t)
  PROVE  PollKept
<1>1. PICK p \in Pollers : /\ poller[p].life = "none"
                           /\ poller' = [poller EXCEPT ![p].life = "open", ![p].refs = 1]
  BY Zenon DEF NepollCreate
<1>2. UNCHANGED <<wait, moved, fdTable, call, notifying>>
  BY Zenon DEF NepollCreate, fdVars
<1>3. PollTypes /\ PollerMemory
  BY Zenon DEF PInv
<1>4. /\ poller' \in [Pollers -> Poller]
      /\ poller'[p].life = "open" /\ poller'[p].refs = 1
      /\ \A q \in Pollers : q # p => poller'[q] = poller[q]
      /\ \A q \in Pollers : poller'[q].sub = poller[q].sub
  BY Zenon, <1>1, <1>3 DEF Poller, PollTypes
<1>5. PollTypes'
  BY Zenon, <1>2, <1>3, <1>4 DEF PollTypes
<1>6. KeepsOpen
  BY Zenon, <1>4 DEF KeepsOpen, Open
<1>7. Shrinks
  BY Zenon, <1>2, <1>4 DEF Shrinks, Pending, Names, Due
<1>8. Notified => Notified'
  BY Zenon, <1>2 DEF Notified
<1>9. ASSUME NEW q \in Pollers PROVE MemoryOf(q)'
  <2>1. Inside(q)' = Inside(q) /\ MemoryOf(q)
    BY Zenon, <1>2, <1>3, MemoryLemma DEF Inside, In
  <2>2. CASE q # p
    BY Zenon, <1>4, <2>1, <2>2, MemorySame
  <2>3. CASE q = p
    <3>1. ~Open(q) /\ poller[q].refs = 0
      BY Zenon, <1>1, <2>1, <2>3 DEF MemoryOf, Open
    <3>2. Cardinality(Inside(q)) = 0
      BY SMT, <2>1, <3>1, InsideLemma DEF MemoryOf
    <3>3. /\ Open(q)' /\ poller'[q].refs = 1 /\ Cardinality(Inside(q)') = 0
          /\ poller'[q].life \notin {"none", "freed"}
      BY Zenon, <1>4, <2>1, <2>3, <3>2 DEF Open
    <3> QED BY SMT, <3>3 DEF MemoryOf
  <2> QED BY Zenon, <2>2, <2>3
<1> QED BY Zenon, <1>2, <1>5, <1>6, <1>7, <1>8, <1>9, PollersMove

LEMMA NepollCtlKept ==
  ASSUME PInv, NEW t \in Threads, NEW p \in Pollers, NEW f \in Fds, NepollCtl(t, p, f)
  PROVE  PollKept
<1>1. /\ call[t].op = "idle" /\ UNCHANGED <<wait, moved, fdTable, notifying>>
  BY Zenon DEF NepollCtl
<1>2. PollTypes /\ PollerMemory /\ fdTable \in [Fds -> Entry] /\ call \in [Threads -> Local]
  BY Zenon, TypeFacts DEF PInv, FdInv
<1>3. PICK sub, o : /\ sub \in Sub /\ poller' = [poller EXCEPT ![p].sub[f] = sub]
                    /\ call' = [call EXCEPT ![t].op = o]
                    /\ o = "notify" \/ (o = "idle" /\ sub = NoSub)
  <2>1. PICK op \in {"add", "mod", "del"}, r \in Interests :
          LET refused == (op = "add") <=> (Current(p, f) # NoSub)
              sub     == IF refused THEN Current(p, f)
                         ELSE IF op = "del" THEN NoSub
                         ELSE [handle |-> fdTable[f].handle, read |-> r]
          IN  /\ sub # poller[p].sub[f]
              /\ poller' = [poller EXCEPT ![p].sub[f] = sub]
              /\ call' = [call EXCEPT ![t].op = IF refused THEN "idle" ELSE "notify"]
    BY Zenon DEF NepollCtl
  <2>2. /\ NoSub \in Sub /\ poller[p].sub[f] \in Sub
        /\ [handle |-> fdTable[f].handle, read |-> r] \in Sub
    BY <1>2, PollAssumption DEF NoSub, Sub, PollTypes, Poller, Entry
  <2>3. Current(p, f) \in Sub /\ (Current(p, f) = poller[p].sub[f] \/ Current(p, f) = NoSub)
    BY Zenon, <2>2 DEF Current
  <2>4. CASE (op = "add") <=> (Current(p, f) # NoSub)
    <3>1. /\ Current(p, f) # poller[p].sub[f]
          /\ poller' = [poller EXCEPT ![p].sub[f] = Current(p, f)]
          /\ call' = [call EXCEPT ![t].op = "idle"]
      BY Zenon, <2>1, <2>4
    <3> QED BY Zenon, <2>3, <3>1
  <2>5. CASE ~((op = "add") <=> (Current(p, f) # NoSub))
    <3>1. call' = [call EXCEPT ![t].op = "notify"]
      BY Zenon, <2>1, <2>5
    <3>2. \/ poller' = [poller EXCEPT ![p].sub[f] = NoSub]
          \/ poller' = [poller EXCEPT ![p].sub[f] = [handle |-> fdTable[f].handle, read |-> r]]
      BY Zenon, <2>1, <2>5
    <3> QED BY Zenon, <2>2, <3>1, <3>2
  <2> QED BY Zenon, <2>4, <2>5
<1>4. /\ poller' \in [Pollers -> Poller]
      /\ \A q \in Pollers : poller'[q].life = poller[q].life /\ poller'[q].refs = poller[q].refs
      /\ poller'[p].sub[f] = sub
      /\ \A q \in Pollers, g \in Fds :
           <<q, g>> = <<p, f>> \/ poller'[q].sub[g] = poller[q].sub[g]
  BY Zenon, <1>2, <1>3 DEF Poller, PollTypes
<1>5. call'[t].op = o /\ \A s \in Threads : s # t => call'[s] = call[s]
  BY Zenon, <1>2, <1>3 DEF Local
<1>6. PollTypes'
  BY Zenon, <1>1, <1>2, <1>4 DEF PollTypes
<1>7. KeepsOpen
  BY Zenon, <1>4 DEF KeepsOpen, Open
<1>8. Notified => Notified'
  BY Zenon, <1>1, <1>5 DEF Notified
<1>9. Shrinks \/ Notified'
  <2>1. CASE o = "notify"
    BY Zenon, <1>5, <2>1 DEF Notified
  <2>2. CASE sub = NoSub
    <3> SUFFICES ASSUME NEW q \in Pollers, NEW g \in Fds, g \in Pending(q)'
                 PROVE  g \in Pending(q)
      BY Zenon DEF Shrinks, Pending
    <3>1. poller'[q].sub[g] # NoSub
      BY Zenon DEF Pending
    <3>2. poller'[q].sub[g] = poller[q].sub[g]
      BY Zenon, <1>4, <2>2, <3>1
    <3> QED BY Zenon, <1>1, <3>2 DEF Pending, Names, Due
  <2> QED BY Zenon, <1>3, <2>1, <2>2
<1>10. ASSUME NEW q \in Pollers PROVE MemoryOf(q)'
  <2>1. Inside(q)' = Inside(q) /\ MemoryOf(q)
    BY Zenon, <1>1, <1>2, MemoryLemma DEF Inside, In
  <2> QED BY Zenon, <1>4, <2>1, MemorySame
<1> QED BY Zenon, <1>1, <1>6, <1>7, <1>8, <1>9, <1>10, PollersMove

LEMMA ReleaseLemma ==
  ASSUME NEW r \in Poller, NEW x \in {"none", "open", "closed", "freed"}, r.refs # 0
  PROVE  /\ Release(r, x) \in Poller
         /\ r.refs = 1 => /\ Release(r, x).life = "freed" /\ Release(r, x).refs = 0
                          /\ \A f \in Fds : Release(r, x).sub[f] = NoSub
         /\ r.refs # 1 => /\ Release(r, x).life = x /\ Release(r, x).refs = r.refs - 1
                          /\ Release(r, x).sub = r.sub
<1>1. NoSub \in Sub /\ 0 \in Fds
  BY FdAssumption DEF NoSub, Sub, Fds
<1>2. CASE r.refs = 1
  <2>1. PICK z \in [Fds -> Sub] : z = [f \in Fds |-> NoSub]
    BY Zenon, <1>1
  <2>2. PICK n : /\ n = Release(r, x)
                 /\ n = [life |-> "freed", refs |-> 0, cursor |-> 0, sub |-> z]
    BY Zenon, <1>2, <2>1 DEF Release
  <2>3. n \in Poller /\ n.life = "freed" /\ n.refs = 0 /\ n.sub = z
    BY SMT, <1>1, <2>1, <2>2 DEF Poller
  <2>4. \A f \in Fds : z[f] = NoSub
    BY Zenon, <2>1
  <2> QED BY Zenon, <1>2, <2>2, <2>3, <2>4
<1>3. CASE r.refs # 1
  <2>1. r.refs - 1 \in Nat
    BY SMT DEF Poller
  <2>2. PICK m \in Nat : m = r.refs - 1
    BY Zenon, <2>1
  <2>3. PICK n : /\ n = Release(r, x)
                 /\ n = [life |-> x, refs |-> m, cursor |-> r.cursor, sub |-> r.sub]
    BY Zenon, <1>3, <2>2 DEF Release
  <2>4. n \in Poller /\ n.life = x /\ n.refs = m /\ n.sub = r.sub
    BY SMT, <2>3 DEF Poller
  <2> QED BY Zenon, <1>3, <2>2, <2>3, <2>4
<1> QED BY Zenon, <1>2, <1>3

LEMMA NepollCloseKept ==
  ASSUME PInv, NEW t \in Threads, NEW p \in Pollers, NepollClose(t, p)
  PROVE  PollKept
<1>1. /\ call[t].op = "idle" /\ UNCHANGED <<wait, moved, fdTable, notifying>>
      /\ Unlocked /\ Open(p) /\ call' = [call EXCEPT ![t].op = "notify"]
      /\ poller' = [poller EXCEPT ![p] = Release(poller[p], "closed")]
  BY Zenon DEF NepollClose
<1>2. PollTypes /\ PollerMemory /\ call \in [Threads -> Local]
  BY Zenon, TypeFacts DEF PInv, FdInv
<1>3. Notified'
  <2>1. call'[t].op = "notify"
    BY Zenon, <1>1, <1>2 DEF Local
  <2> QED BY Zenon, <2>1 DEF Notified
<1>4. poller[p] \in Poller /\ MemoryOf(p)
  BY Zenon, <1>2, MemoryLemma DEF PollTypes
<1>5. Cardinality(Inside(p)) \in Nat /\ poller[p].refs = Cardinality(Inside(p)) + 1
  BY Zenon, <1>1, <1>4, InsideLemma DEF MemoryOf
<1>6. poller[p].refs # 0
  BY SMT, <1>5
<1>7. PICK r \in Poller : /\ r = Release(poller[p], "closed")
                          /\ poller[p].refs = 1 => r.life = "freed" /\ r.refs = 0
                          /\ poller[p].refs # 1 => /\ r.life = "closed"
                                                   /\ r.refs = poller[p].refs - 1
  BY Zenon, <1>4, <1>6, ReleaseLemma
<1>8. /\ poller' \in [Pollers -> Poller] /\ poller'[p] = r
      /\ \A q \in Pollers : q # p => poller'[q] = poller[q]
  BY Zenon, <1>1, <1>2, <1>7 DEF PollTypes
<1>9. PollTypes'
  BY Zenon, <1>1, <1>2, <1>8 DEF PollTypes
<1>10. ASSUME NEW q \in Pollers PROVE MemoryOf(q)'
  <2>1. Inside(q)' = Inside(q) /\ MemoryOf(q)
    BY Zenon, <1>1, <1>2, MemoryLemma DEF Inside, In
  <2>2. CASE q # p
    BY Zenon, <1>8, <2>1, <2>2, MemorySame
  <2>3. CASE q = p
    <3>1. ~Open(p)'
      BY Zenon, <1>7, <1>8 DEF Open
    <3>2. /\ r.refs = Cardinality(Inside(p))
          /\ r.life \in {"none", "freed"} <=> r.refs = 0
      BY SMT, <1>5, <1>7
    <3>3. MemoryOf(p)' = (/\ poller'[p].refs = Cardinality(Inside(p)') + 0
                          /\ poller'[p].life \in {"none", "freed"} <=> poller'[p].refs = 0)
      BY Zenon, <3>1 DEF MemoryOf
    <3>4. Cardinality(Inside(p)) + 0 = Cardinality(Inside(p))
      BY SMT, <1>5
    <3> QED BY Zenon, <1>8, <2>1, <2>3, <3>2, <3>3, <3>4
  <2> QED BY Zenon, <2>2, <2>3
<1> QED BY Zenon, <1>1, <1>3, <1>9, <1>10, PollersMove

\* The pollers change with a step of one waiter.
LEMMA WaiterSteps ==
  ASSUME PInv, PollTypes', NEW w \in Waiters, KeepsOpen, Shrinks, WaitOf(w)', Sound(w)',
         UNCHANGED <<call, notifying, moved>>,
         \A v \in Waiters : v # w => wait'[v] = wait[v],
         wait'[w].pc = "scan" => wait[w].pc = "scan" \/ Unlocked,
         \A p \in Pollers : MemoryOf(p)'
  PROVE  PollKept
<1>1. /\ PollTypes /\ Waits /\ \A v \in Waiters : Sound(v)
  BY Zenon, SoundLemma DEF PInv
<1>2. Waits'
  BY Zenon, <1>1, WaitsKept
<1>3. /\ (Notified => Notified') /\ (Shrinks \/ Notified')
      /\ (KeepsOpen \/ (Unlocked /\ Notified'))
  BY Zenon DEF Notified
<1>4. ASSUME NEW v \in Waiters PROVE Sound(v)'
  <2>1. v # w => wait'[v] = wait[v] /\ (moved'[v] \/ moved'[v] = moved[v])
    BY Zenon
  <2> QED BY Zenon, <1>1, <1>3, <2>1, WaiterKept
<1> QED BY Zenon, <1>2, <1>4, SoundLemma, MemoryLemma DEF PollKept

LEMMA NepollWaitKept ==
  ASSUME PInv, NEW w \in Waiters, NEW p \in Pollers, NepollWait(w, p)
  PROVE  PollKept
<1>1. /\ wait[w].pc = "idle" /\ Open(p) /\ UNCHANGED <<fdTable, call, notifying, moved>>
      /\ poller' = [poller EXCEPT ![p].refs = @ + 1]
      /\ wait' = [wait EXCEPT ![w].pc = "load", ![w].poller = p]
  BY Zenon DEF NepollWait, fdVars
<1>2. PollTypes /\ PollerMemory /\ WaitOf(w) /\ Null \notin Pollers
  BY Zenon, PollFacts DEF PInv, Waits, WaitOf
<1>3. /\ wait' \in [Waiters -> Waiting] /\ wait'[w].pc = "load" /\ wait'[w].poller = p
      /\ wait'[w].i = wait[w].i /\ wait'[w].out = wait[w].out
      /\ \A v \in Waiters : v # w => wait'[v] = wait[v]
  BY Zenon, <1>1, <1>2 DEF Waiting, PollTypes
<1>4. /\ poller' \in [Pollers -> Poller] /\ poller'[p].refs = poller[p].refs + 1
      /\ \A q \in Pollers : poller'[q].life = poller[q].life /\ poller'[q].sub = poller[q].sub
      /\ \A q \in Pollers : q # p => poller'[q] = poller[q]
  BY <1>1, <1>2 DEF Poller, PollTypes
<1>5. PollTypes'
  BY Zenon, <1>3, <1>4 DEF PollTypes
<1>6. KeepsOpen
  BY Zenon, <1>4 DEF KeepsOpen, Open
<1>7. Shrinks
  BY Zenon, <1>1, <1>4 DEF Shrinks, Pending, Names, Due
<1>8. WaitOf(w)'
  BY Zenon, <1>1, <1>2, <1>3 DEF WaitOf
<1>9. Sound(w)'
  BY Zenon, <1>3, AwakeSound
<1>10. ASSUME NEW q \in Pollers PROVE MemoryOf(q)'
  <2>1. MemoryOf(q)
    BY Zenon, <1>2, MemoryLemma
  <2>2. w \notin Inside(q)
    BY Zenon, <1>1, <1>2 DEF Inside, In, WaitOf
  <2>3. CASE q # p
    <3>1. Inside(q)' = Inside(q)
      BY Zenon, <1>3, <2>2, <2>3 DEF Inside, In
    <3> QED BY Zenon, <1>4, <2>1, <2>3, <3>1, MemorySame
  <2>4. CASE q = p
    <3>1. Inside(p)' = Inside(p) \cup {w}
      BY Zenon, <1>3, <2>2, <2>4 DEF Inside, In
    <3>2. Cardinality(Inside(p)') = Cardinality(Inside(p)) + 1
      BY Zenon, <2>2, <2>4, <3>1, InsideLemma, FS_AddElement
    <3>3. Open(p)' /\ Cardinality(Inside(p)) \in Nat
      BY Zenon, <1>1, <1>4, InsideLemma DEF Open
    <3>4. /\ poller[p].refs = Cardinality(Inside(p)) + 1
          /\ poller'[p].life \notin {"none", "freed"}
      BY Zenon, <1>1, <2>1, <2>4, <3>3 DEF MemoryOf, Open
    <3> QED BY SMT, <1>4, <2>4, <3>2, <3>3, <3>4 DEF MemoryOf
  <2> QED BY Zenon, <2>3, <2>4
<1> QED BY Zenon, <1>1, <1>3, <1>5, <1>6, <1>7, <1>8, <1>9, <1>10, WaiterSteps

\* Positions and cursors are descriptors.
LEMMA PositionLemma ==
  ASSUME NEW s \in Nat
  PROVE  s % NSOCK_FD_MAX \in Fds
<1>1. NSOCK_FD_MAX \in Nat /\ NSOCK_FD_MAX > 0
  BY FdAssumption
<1> QED BY SMT, <1>1 DEF Fds

\* One step of a scan: the descriptor it passes is reported or not pending.
LEMMA ScanOneKept ==
  ASSUME PInv, NEW w \in Waiters, ScanOne(w)
  PROVE  PollKept
<1>1. PICK p, i, s, f : /\ p = wait[w].poller /\ i = wait[w].i /\ s = wait[w].start
                        /\ f = (s + i) % NSOCK_FD_MAX
  BY Zenon
<1>2. PICK r : r = (poller[p].sub[f] # NoSub /\ ~Stale(p, f) /\ Due(p, f))
  BY Zenon
<1>3. PICK o, b, c : /\ o = (IF r THEN wait[w].out \cup {f} ELSE wait[w].out)
                     /\ b = (IF Stale(p, f) THEN NoSub ELSE poller[p].sub[f])
                     /\ c = (IF r THEN CursorAfter(f) ELSE poller[p].cursor)
  BY Zenon
<1>4. /\ wait[w].pc = "scan" /\ i < NSOCK_FD_MAX
      /\ UNCHANGED <<fdTable, call, notifying, moved>>
      /\ wait' = [wait EXCEPT ![w].i = i + 1, ![w].out = o]
      /\ poller' = [poller EXCEPT ![p].sub[f] = b, ![p].cursor = c]
  BY Zenon, <1>1, <1>2, <1>3 DEF ScanOne, fdVars
<1>5. /\ PollTypes /\ WaitOf(w) /\ Sound(w) /\ p \in Pollers /\ wait[w] \in Waiting
  BY Zenon, <1>1, <1>4, WaiterFacts, SoundLemma DEF PInv, Waits, WaitOf
<1>6. i \in Nat /\ s \in Nat /\ i + 1 \in 0..NSOCK_FD_MAX /\ s + i \in Nat
  BY SMT, <1>1, <1>4, <1>5, FdAssumption DEF Waiting, Fds
<1>7. f \in Fds /\ CursorAfter(f) \in Fds
  <2>1. f \in Fds
    BY Zenon, <1>1, <1>6, PositionLemma
  <2>2. f + 1 \in Nat
    BY <2>1, FdAssumption DEF Fds
  <2> QED BY Zenon, <2>1, <2>2, PositionLemma DEF CursorAfter
<1>8. NoSub \in Sub /\ poller[p].sub[f] \in Sub /\ poller[p].cursor \in Fds
  <2>1. NoSub \in Sub
    BY Zenon DEF NoSub, Sub
  <2> QED BY Zenon, <1>5, <1>7, <2>1 DEF PollTypes, Poller
<1>9. b \in Sub /\ c \in Fds /\ o \in SUBSET Fds
  BY Zenon, <1>3, <1>5, <1>7, <1>8 DEF Waiting
<1>10. /\ wait' \in [Waiters -> Waiting] /\ wait'[w].pc = "scan"
       /\ wait'[w].poller = p /\ wait'[w].i = i + 1 /\ wait'[w].start = s
       /\ wait'[w].out = o /\ \A v \in Waiters : v # w => wait'[v] = wait[v]
  BY Zenon, <1>1, <1>4, <1>5, <1>6, <1>9 DEF Waiting, PollTypes
<1>11. /\ poller' \in [Pollers -> Poller] /\ poller'[p].sub[f] = b
       /\ \A q \in Pollers : poller'[q].life = poller[q].life /\ poller'[q].refs = poller[q].refs
       /\ \A q \in Pollers, g \in Fds :
            <<q, g>> = <<p, f>> \/ poller'[q].sub[g] = poller[q].sub[g]
  BY <1>4, <1>5, <1>7, <1>9 DEF Poller, PollTypes
<1>12. PollTypes' /\ KeepsOpen
  BY Zenon, <1>10, <1>11 DEF PollTypes, KeepsOpen, Open
<1>13. Shrinks
  <2> SUFFICES ASSUME NEW q \in Pollers, NEW g \in Fds, g \in Pending(q)'
               PROVE  g \in Pending(q)
    BY Zenon DEF Shrinks, Pending
  <2>1. poller'[q].sub[g] # NoSub
    BY Zenon DEF Pending
  <2>2. poller'[q].sub[g] = poller[q].sub[g]
    BY Zenon, <1>3, <1>11, <2>1
  <2> QED BY Zenon, <1>4, <2>2 DEF Pending, Names, Due
<1>14. WaitOf(w)'
  BY Zenon, <1>1, <1>4, <1>5, <1>10 DEF WaitOf
<1>15. f \in o \/ f \notin Pending(p)'
  <2>1. CASE r
    BY Zenon, <1>3, <2>1
  <2>2. CASE ~r
    <3>1. poller[p].sub[f] = NoSub \/ Stale(p, f) \/ ~Due(p, f)
      BY Zenon, <1>2, <2>2
    <3>2. b = NoSub \/ (b = poller[p].sub[f] /\ ~Due(p, f))
      BY Zenon, <1>3, <3>1
    <3> QED BY Zenon, <1>4, <1>11, <3>2 DEF Pending, Due
  <2> QED BY Zenon, <1>2, <2>1, <2>2
<1>16. Sound(w)'
  <2>1. Open(p)'
    BY Zenon, <1>1, <1>4, <1>5, <1>12 DEF Sound, KeepsOpen
  <2>2. ASSUME ~moved'[w], ~Notified', NEW j \in 0..((i + 1) - 1)
        PROVE  (s + j) % NSOCK_FD_MAX \in o \/ (s + j) % NSOCK_FD_MAX \notin Pending(p)'
    <3>1. j \in 0..(i - 1) \/ j = i
      BY SMT, <1>6, <2>2
    <3>2. ~moved[w] /\ ~Notified
      BY Zenon, <1>4, <2>2 DEF Notified
    <3>3. j \in 0..(i - 1) => \/ (s + j) % NSOCK_FD_MAX \in wait[w].out
                              \/ (s + j) % NSOCK_FD_MAX \notin Pending(p)
      BY Zenon, <1>1, <1>4, <1>5, <3>2 DEF Sound, Position
    <3>4. wait[w].out \subseteq o
      BY Zenon, <1>3
    <3> QED BY Zenon, <1>1, <1>5, <1>13, <1>15, <3>1, <3>3, <3>4 DEF Shrinks
  <2> QED BY Zenon, <1>10, <2>1, <2>2 DEF Sound, Position
<1>17. ASSUME NEW q \in Pollers PROVE MemoryOf(q)'
  <2>1. Inside(q)' = Inside(q) /\ MemoryOf(q)
    BY Zenon, <1>1, <1>10, MemoryLemma DEF Inside, In, PInv
  <2> QED BY Zenon, <1>11, <2>1, MemorySame
<1> QED BY Zenon, <1>4, <1>10, <1>12, <1>13, <1>14, <1>16, <1>17, WaiterSteps

LEMMA LeaveKept ==
  ASSUME PInv, NEW w \in Waiters, Leave(w)
  PROVE  PollKept
<1>1. PICK p : p = wait[w].poller
  BY Zenon
<1>2. /\ wait[w].pc = "leave" /\ UNCHANGED <<fdTable, call, notifying, moved>>
      /\ poller' = [poller EXCEPT ![p] = Release(poller[p], poller[p].life)]
      /\ wait' = [wait EXCEPT ![w] = Away]
  BY Zenon, <1>1 DEF Leave, fdVars
<1>3. /\ PollTypes /\ p \in Pollers /\ MemoryOf(p) /\ w \in Inside(p)
      /\ poller[p].life \in {"open", "closed"} /\ Null \notin Pollers
  BY Zenon, <1>1, <1>2, WaiterFacts, PollFacts DEF PInv
<1>4. /\ Away \in Waiting /\ Away.pc = "idle" /\ Away.poller = Null /\ Away.i = 0
      /\ Away.out = {}
  BY FdAssumption DEF Away, Waiting, Fds
<1>5. /\ wait' \in [Waiters -> Waiting] /\ wait'[w] = Away
      /\ \A v \in Waiters : v # w => wait'[v] = wait[v]
  BY Zenon, <1>2, <1>3, <1>4 DEF PollTypes
<1>6. /\ Inside(p)' = Inside(p) \ {w}
      /\ \A q \in Pollers : q # p => Inside(q)' = Inside(q)
  BY Zenon, <1>1, <1>3, <1>4, <1>5 DEF Inside, In
<1>7. PICK n \in Nat : /\ Cardinality(Inside(p)) = n + 1 /\ Cardinality(Inside(p)') = n
  <2>1. Cardinality(Inside(p)) \in Nat /\ Cardinality(Inside(p)) # 0
    BY Zenon, <1>3, InsideLemma, FS_EmptySet
  <2>2. Cardinality(Inside(p)') = Cardinality(Inside(p)) - 1
    BY Zenon, <1>3, <1>6, InsideLemma, FS_RemoveElement
  <2>3. Cardinality(Inside(p)) - 1 \in Nat /\ (Cardinality(Inside(p)) - 1) + 1 = Cardinality(Inside(p))
    BY SMT, <2>1
  <2> QED BY Zenon, <2>2, <2>3
<1>8. poller[p].refs = IF Open(p) THEN n + 2 ELSE n + 1
  BY SMT, <1>3, <1>7 DEF MemoryOf
<1>9. poller[p].refs # 0 /\ (Open(p) => poller[p].refs # 1)
  BY SMT, <1>8
<1>10. PICK r \in Poller :
         /\ r = Release(poller[p], poller[p].life)
         /\ poller[p].refs = 1 => /\ r.life = "freed" /\ r.refs = 0
                                  /\ \A f \in Fds : r.sub[f] = NoSub
         /\ poller[p].refs # 1 => /\ r.life = poller[p].life /\ r.refs = poller[p].refs - 1
                                  /\ r.sub = poller[p].sub
  <2>1. poller[p] \in Poller /\ poller[p].life \in {"none", "open", "closed", "freed"}
    BY Zenon, <1>3 DEF PollTypes
  <2> QED BY Zenon, <1>9, <2>1, ReleaseLemma
<1>11. /\ poller' \in [Pollers -> Poller] /\ poller'[p] = r
       /\ \A q \in Pollers : q # p => poller'[q] = poller[q]
  BY Zenon, <1>2, <1>3, <1>10 DEF PollTypes
<1>12. PollTypes' /\ KeepsOpen
  <2>1. Open(p) => Open(p)'
    BY Zenon, <1>9, <1>10, <1>11 DEF Open
  <2>2. \A q \in Pollers : q # p /\ Open(q) => Open(q)'
    BY Zenon, <1>11 DEF Open
  <2> QED BY Zenon, <1>5, <1>11, <2>1, <2>2 DEF PollTypes, KeepsOpen
<1>13. Shrinks
  <2> SUFFICES ASSUME NEW q \in Pollers, NEW g \in Fds, g \in Pending(q)'
               PROVE  g \in Pending(q)
    BY Zenon DEF Shrinks, Pending
  <2>1. poller'[q].sub[g] # NoSub
    BY Zenon DEF Pending
  <2>2. poller'[q].sub[g] = poller[q].sub[g]
    BY Zenon, <1>10, <1>11, <2>1
  <2> QED BY Zenon, <1>2, <2>2 DEF Pending, Names, Due
<1>14. WaitOf(w)' /\ wait'[w].pc # "scan" /\ Sound(w)'
  <2>1. wait'[w].pc \notin {"scan", "sleep"}
    BY Zenon, <1>4, <1>5
  <2> QED BY Zenon, <1>4, <1>5, <2>1, AwakeSound DEF WaitOf
<1>15. ASSUME NEW q \in Pollers PROVE MemoryOf(q)'
  <2>1. CASE q # p
    <3>1. Inside(q)' = Inside(q) /\ MemoryOf(q)
      BY Zenon, <1>6, <2>1, MemoryLemma DEF PInv
    <3> QED BY Zenon, <1>11, <2>1, <3>1, MemorySame
  <2>2. CASE q = p
    <3>1. CASE poller[p].refs = 1
      <4>1. n = 0 /\ ~Open(p)
        BY SMT, <1>8, <3>1
      <4>2. ~Open(p)' /\ poller'[p].refs = 0 /\ poller'[p].life \in {"none", "freed"}
        BY Zenon, <1>10, <1>11, <3>1 DEF Open
      <4> QED BY SMT, <1>7, <2>2, <4>1, <4>2 DEF MemoryOf
    <3>2. CASE poller[p].refs # 1
      <4>1. poller'[p].refs = IF Open(p) THEN n + 1 ELSE n
        BY SMT, <1>8, <1>10, <1>11, <3>2
      <4>2. poller'[p].refs # 0
        BY SMT, <1>8, <3>2, <4>1
      <4>3. (Open(p)' <=> Open(p)) /\ poller'[p].life \notin {"none", "freed"}
        BY Zenon, <1>3, <1>10, <1>11, <3>2 DEF Open
      <4>4. poller'[p].refs = n + IF Open(p)' THEN 1 ELSE 0
        BY SMT, <4>1, <4>3
      <4> QED BY Zenon, <1>7, <2>2, <4>2, <4>3, <4>4 DEF MemoryOf
    <3> QED BY Zenon, <3>1, <3>2
  <2> QED BY Zenon, <2>1, <2>2
<1> QED BY Zenon, <1>2, <1>5, <1>12, <1>13, <1>14, <1>15, WaiterSteps

-----------------------------------------------------------------------------
(***************************************************************************)
(* The theorems.                                                           *)
(***************************************************************************)

\* The steps of the poll sets, as the table sees them.
LEMMA PollStepTable ==
  ASSUME PInv, Next, ~(FdNext /\ UNCHANGED pollVars)
  PROVE  FdInv' /\ ReadinessShown' /\ fdTable' = fdTable
<1>1. /\ FdInv /\ ReadinessShown /\ moved \in [Waiters -> BOOLEAN]
  BY Zenon DEF PInv, FdInv, TypeOK
<1>2. ASSUME UNCHANGED fdVars PROVE FdInv' /\ ReadinessShown' /\ fdTable' = fdTable
  <2>1. /\ UNCHANGED <<fdTable, sk, undelivered, known, notifying, down>>
        /\ moved' \in [Waiters -> BOOLEAN] /\ call' = call
    BY Zenon, <1>1, <1>2 DEF fdVars
  <2> QED BY Zenon, <1>1, <2>1, TableUntouched
<1>3. ASSUME NEW w \in Waiters, Load(w) PROVE FdInv' /\ ReadinessShown' /\ fdTable' = fdTable
  <2>1. /\ UNCHANGED <<fdTable, sk, undelivered, known, notifying, down>> /\ call' = call
        /\ moved' = [moved EXCEPT ![w] = FALSE]
    BY Zenon, <1>3 DEF Load
  <2>2. moved' \in [Waiters -> BOOLEAN]
    BY Zenon, <1>1, <2>1
  <2> QED BY Zenon, <1>1, <2>1, <2>2, TableUntouched
<1>4. ASSUME NEW t \in Threads, NEW p \in Pollers,
             NepollClose(t, p) \/ \E f \in Fds : NepollCtl(t, p, f)
      PROVE  FdInv' /\ ReadinessShown' /\ fdTable' = fdTable
  <2>1. /\ UNCHANGED <<fdTable, sk, undelivered, known, notifying, down>> /\ moved' = moved
        /\ call[t].op = "idle"
    BY Zenon, <1>4 DEF NepollClose, NepollCtl
  <2>2. \E o \in {"idle", "notify"} : call' = [call EXCEPT ![t].op = o]
    <3>1. CASE NepollClose(t, p)
      BY Zenon, <3>1 DEF NepollClose
    <3>2. CASE \E f \in Fds : NepollCtl(t, p, f)
      <4>1. \E refused : call' = [call EXCEPT ![t].op = IF refused THEN "idle" ELSE "notify"]
        BY Zenon, <3>2 DEF NepollCtl
      <4>2. PICK refused : call' = [call EXCEPT ![t].op = IF refused THEN "idle" ELSE "notify"]
        BY Zenon, <4>1
      <4>3. (IF refused THEN "idle" ELSE "notify") \in {"idle", "notify"}
        BY Zenon
      <4> QED BY Zenon, <4>2, <4>3
    <3> QED BY Zenon, <1>4, <3>1, <3>2
  <2> QED BY Zenon, <1>1, <2>1, <2>2, TableUntouched
<1>5. ASSUME NEW t \in Threads, NepollCreate(t) PROVE UNCHANGED fdVars
  BY Zenon, <1>5 DEF NepollCreate
<1>6. ASSUME NEW w \in Waiters,
             \/ BeginScan(w) \/ ScanOne(w) \/ EndScan(w) \/ Woken(w) \/ Leave(w)
             \/ Timeout(w) \/ Cancel(w) \/ \E p \in Pollers : NepollWait(w, p)
      PROVE  UNCHANGED fdVars
  BY Zenon, <1>6 DEF BeginScan, ScanOne, EndScan, Woken, Leave, Timeout, Cancel, NepollWait
<1> QED BY Zenon, <1>2, <1>3, <1>4, <1>5, <1>6 DEF Next, WaitStep

\* The steps of a waiter that leave its poller alone.
LEMMA PcStepKept ==
  ASSUME PInv, NEW w \in Waiters, Load(w) \/ Woken(w) \/ Timeout(w) \/ Cancel(w)
  PROVE  PollKept
<1>1. moved \in [Waiters -> BOOLEAN]
  BY Zenon DEF PInv, FdInv, TypeOK
<1>2. CASE Load(w)
  <2>1. /\ wait[w].pc = "load" /\ wait' = [wait EXCEPT ![w].pc = "lock"]
        /\ UNCHANGED <<fdTable, call, notifying, poller>>
        /\ \A v \in Waiters : v # w => moved'[v] = moved[v]
    BY Zenon, <1>1, <1>2 DEF Load
  <2>2. wait[w].pc \notin {"idle", "scan"} /\ wait[w].pc # "leave"
    BY Zenon, <2>1
  <2> QED BY Zenon, <2>1, <2>2, PcLemma
<1>3. CASE Woken(w) \/ Timeout(w) \/ Cancel(w)
  <2>1. /\ wait[w].pc = "sleep" /\ UNCHANGED <<fdTable, call, notifying, poller>>
        /\ \E x \in {"load", "lock", "leave"} : wait' = [wait EXCEPT ![w].pc = x]
        /\ moved' = moved
    BY Zenon, <1>3 DEF Woken, Timeout, Cancel, fdVars
  <2>2. wait[w].pc \notin {"idle", "scan"} /\ wait[w].pc # "leave"
    BY Zenon, <2>1
  <2> QED BY Zenon, <2>1, <2>2, PcLemma
<1> QED BY Zenon, <1>2, <1>3

LEMMA PollStepKept ==
  ASSUME PInv, Next, ~(FdNext /\ UNCHANGED pollVars)
  PROVE  PollKept
  BY Zenon, PcStepKept, NepollCreateKept, NepollCloseKept, NepollCtlKept, BeginScanKept,
     ScanOneKept, EndScanKept, LeaveKept, NepollWaitKept DEF Next, WaitStep

LEMMA PollInit == Init => PInv
<1> SUFFICES ASSUME Init PROVE PInv
  BY Zenon
<1>1. FdInv /\ ReadinessShown
  BY Zenon, FdInitLemma DEF Init
<1>2. /\ Away \in Waiting /\ Away.pc = "idle" /\ Away.poller = Null /\ Away.i = 0
      /\ Away.out = {} /\ NoSub \in Sub /\ 0 \in Fds /\ Null \notin Pollers
  BY FdAssumption, PollAssumption DEF Away, Waiting, Fds, NoSub, Sub, Pollers
<1>3. PICK z : z = [life |-> "none", refs |-> 0, cursor |-> 0, sub |-> [f \in Fds |-> NoSub]]
  BY Zenon
<1>4. z \in Poller /\ z.life = "none" /\ z.refs = 0
  <2>1. PICK y \in [Fds -> Sub] : y = [f \in Fds |-> NoSub]
    BY Zenon, <1>2
  <2>2. z = [life |-> "none", refs |-> 0, cursor |-> 0, sub |-> y]
    BY Zenon, <1>3, <2>1
  <2> QED BY SMT, <1>2, <2>2 DEF Poller
<1>5. poller = [p \in Pollers |-> z] /\ wait = [w \in Waiters |-> Away]
  BY Zenon, <1>3 DEF Init
<1>6. PollTypes
  BY Zenon, <1>2, <1>4, <1>5 DEF PollTypes
<1>7. \A w \in Waiters : /\ wait[w].pc = "idle" /\ wait[w].poller = Null
                         /\ wait[w].i = 0 /\ wait[w].out = {}
  BY Zenon, <1>2, <1>5
<1>8. "idle" # "scan" /\ "idle" # "sleep"
  BY Zenon
<1>9. Waits /\ ScanSound /\ NoLostWakeup
  BY Zenon, <1>7, <1>8 DEF Waits, ScanSound, NoLostWakeup
<1>10. ASSUME NEW p \in Pollers PROVE MemoryOf(p)
  <2>1. Inside(p) = {} /\ ~Open(p) /\ poller[p].refs = 0 /\ poller[p].life \in {"none", "freed"}
    BY Zenon, <1>2, <1>4, <1>5, <1>7 DEF Inside, In, Open
  <2>2. Cardinality(Inside(p)) = 0
    BY Zenon, <2>1, FS_EmptySet
  <2> QED BY SMT, <2>1, <2>2 DEF MemoryOf
<1>11. PollerMemory
  BY Zenon, <1>10, MemoryLemma
<1> QED BY Zenon, <1>1, <1>6, <1>9, <1>11 DEF PInv

\* Every step preserves the invariant and withdraws no other socket's descriptor.
LEMMA StepLemma ==
  ASSUME PInv, [Next]_vars
  PROVE  PInv' /\ (WithdrawnAfterClose \/ UNCHANGED vars)
<1>1. CASE UNCHANGED vars
  <2>1. /\ UNCHANGED <<fdTable, sk, undelivered, call, known, notifying, moved, down>>
        /\ UNCHANGED <<poller, wait>>
    BY Zenon, <1>1 DEF vars, fdVars
  <2>2. FdInv /\ ReadinessShown /\ moved' \in [Waiters -> BOOLEAN]
    BY Zenon, <2>1 DEF PInv, FdInv, TypeOK
  <2>3. FdInv' /\ ReadinessShown'
    BY Zenon, <2>1, <2>2, TableUntouched
  <2>4. Announces
    BY Zenon, <2>1 DEF Announces, Notified
  <2>5. PollKept
    BY Zenon, <2>1, <2>3, <2>4, FdStepPolls DEF PInv, PollKept, FdInv, pollVars
  <2> QED BY Zenon, <1>1, <2>3, <2>5 DEF PInv, PollKept
<1>2. CASE FdNext /\ UNCHANGED pollVars
  <2>1. FdInv /\ ReadinessShown
    BY Zenon DEF PInv
  <2>2. Kept /\ WithdrawnAfterClose
    BY Zenon, <1>2, <2>1, FdStepKept, FdStepWithdraws
  <2>3. PollKept
    BY Zenon, <1>2, <2>2, FdStepPolls DEF PInv, PollKept, FdInv, Kept
  <2> QED BY Zenon, <2>2, <2>3 DEF PInv, Kept, PollKept
<1>3. CASE Next /\ ~(FdNext /\ UNCHANGED pollVars)
  <2>1. FdInv' /\ ReadinessShown' /\ fdTable' = fdTable /\ PollKept
    BY Zenon, <1>3, PollStepTable, PollStepKept
  <2>2. WithdrawnAfterClose
    BY Zenon, <2>1 DEF WithdrawnAfterClose
  <2> QED BY Zenon, <2>1, <2>2 DEF PInv, PollKept
<1> QED BY Zenon, <1>1, <1>2, <1>3

LEMMA Invariance == Spec => []PInv
  BY PollInit, StepLemma, PTL DEF Spec

\* What TLC checks of small tables and poll sets holds of all of them: the table
\* names open sockets and only once, a thread's private handles are its own, and
\* a waiter is where nepoll_wait says.
THEOREM PollInvariance == Spec => [](FdInv /\ PollInv)
<1>1. PInv => FdInv /\ PollInv
  BY Zenon, PollFacts DEF PInv, PollInv, FdInv
<1> QED BY <1>1, Invariance, PTL

\* No two descriptors name a socket, no number is returned while it is being
\* published, and while the owner serves commands an open socket has a
\* descriptor, is about to reserve one, or is queued for the owner to close.
THEOREM TableStaysExact == Spec => [](TableExact /\ NoOrphan)
<1>1. PInv => TableExact /\ NoOrphan
  BY Zenon DEF PInv, FdInv
<1> QED BY <1>1, Invariance, PTL

\* However transfers, events, aborts and closes interleave, and even though
\* udp_tx_flush and a blocking accept use readiness up behind the table, a
\* descriptor never hides its socket's readiness or hangup from nepoll_wait.
THEOREM ReadinessNeverHidden == Spec => []ReadinessShown
<1>1. PInv => ReadinessShown
  BY Zenon DEF PInv
<1> QED BY <1>1, Invariance, PTL

\* nclose, and the rollback of a failed publication, withdraw the descriptor of
\* their own socket and never the one another thread got under that number.
THEOREM ClosesWithdrawTheirOwn == Spec => [][WithdrawnAfterClose]_vars
  BY Invariance, StepLemma, PTL DEF Spec

\* A poller is freed with its last reference and never under a waiter,
\* whatever nepoll_close, nepoll_wait and cancellation interleave.
THEOREM PollersOwnTheirMemory == Spec => []PollerMemory
<1>1. PInv => PollerMemory
  BY Zenon DEF PInv
<1> QED BY <1>1, Invariance, PTL

\* nepoll_wait loads the sequence before it scans, so that it never sleeps
\* through an event without somebody about to wake it.
THEOREM NoWakeupIsLost == Spec => []NoLostWakeup
<1>1. PInv => NoLostWakeup
  BY Zenon DEF PInv
<1> QED BY <1>1, Invariance, PTL

\* Only a scan adds to what a waiter will report.
LEMMA EventLemma ==
  ASSUME PInv, [Next]_vars
  PROVE  NoStaleEvent \/ UNCHANGED vars
<1>1. PollTypes
  BY Zenon DEF PInv
<1>2. ASSUME wait' = wait PROVE NoStaleEvent
  BY Zenon, <1>2 DEF NoStaleEvent
<1>3. ASSUME NEW w \in Waiters,
             \/ Load(w) \/ BeginScan(w) \/ EndScan(w) \/ Woken(w) \/ Timeout(w) \/ Cancel(w)
             \/ \E p \in Pollers : NepollWait(w, p)
      PROVE  \A v \in Waiters : wait'[v].out = wait[v].out
  <2>1. CASE Load(w) \/ Woken(w) \/ Timeout(w) \/ Cancel(w)
    <3>1. \E x : wait' = [wait EXCEPT ![w].pc = x]
      BY Zenon, <2>1 DEF Load, Woken, Timeout, Cancel
    <3> QED BY <1>1, <3>1 DEF PollTypes, Waiting
  <2>2. CASE BeginScan(w)
    <3>1. \E x, s : wait' = [wait EXCEPT ![w].pc = x, ![w].start = s]
      BY Zenon, <2>2 DEF BeginScan
    <3> QED BY <1>1, <3>1 DEF PollTypes, Waiting
  <2>3. CASE EndScan(w)
    <3>1. \E x : wait' = [wait EXCEPT ![w].pc = x, ![w].i = 0, ![w].start = 0]
      BY Zenon, <2>3 DEF EndScan
    <3> QED BY <1>1, <3>1 DEF PollTypes, Waiting
  <2>4. CASE \E p \in Pollers : NepollWait(w, p)
    <3>1. \E p : wait' = [wait EXCEPT ![w].pc = "load", ![w].poller = p]
      BY Zenon, <2>4 DEF NepollWait
    <3> QED BY <1>1, <3>1 DEF PollTypes, Waiting
  <2> QED BY Zenon, <1>3, <2>1, <2>2, <2>3, <2>4
<1>4. ASSUME NEW w \in Waiters, Leave(w) PROVE NoStaleEvent
  <2>1. wait' = [wait EXCEPT ![w] = Away]
    BY Zenon, <1>4 DEF Leave
  <2>2. Away.out = {}
    BY Zenon DEF Away
  <2>3. \A v \in Waiters : wait'[v].out = wait[v].out \/ wait'[v].out = {}
    BY Zenon, <1>1, <2>1, <2>2 DEF PollTypes
  <2> QED BY Zenon, <2>3 DEF NoStaleEvent
<1>5. ASSUME NEW w \in Waiters, ScanOne(w) PROVE NoStaleEvent
  <2>1. PICK p, f : p = wait[w].poller /\ f = (wait[w].start + wait[w].i) % NSOCK_FD_MAX
    BY Zenon
  <2>2. PICK r : r = (poller[p].sub[f] # NoSub /\ ~Stale(p, f) /\ Due(p, f))
    BY Zenon
  <2>3. PICK o : o = (IF r THEN wait[w].out \cup {f} ELSE wait[w].out)
    BY Zenon
  <2>4. wait' = [wait EXCEPT ![w].i = wait[w].i + 1, ![w].out = o]
    BY Zenon, <1>5, <2>1, <2>2, <2>3 DEF ScanOne
  <2>5. wait'[w].out = o /\ \A v \in Waiters : v # w => wait'[v] = wait[v]
    BY Zenon, <1>1, <2>4 DEF PollTypes, Waiting
  <2>6. r => poller[p].sub[f].handle = fdTable[f].handle
    BY Zenon, <2>2 DEF Stale, Names
  <2>7. \A g \in o \ wait[w].out : poller[p].sub[g].handle = fdTable[g].handle
    BY Zenon, <2>3, <2>6
  <2> QED BY Zenon, <2>1, <2>5, <2>7 DEF NoStaleEvent
<1>6. ASSUME Next, ~\E w \in Waiters : \/ WaitStep(w) \/ Timeout(w) \/ Cancel(w)
                                       \/ \E p \in Pollers : NepollWait(w, p)
      PROVE  wait' = wait
  BY Zenon, <1>6 DEF Next, pollVars, NepollCreate, NepollClose, NepollCtl
<1>7. (\A v \in Waiters : wait'[v].out = wait[v].out) => NoStaleEvent
  BY Zenon DEF NoStaleEvent
<1> QED BY Zenon, <1>2, <1>3, <1>4, <1>5, <1>6, <1>7 DEF WaitStep

\* An event nepoll_wait reports is about the socket the subscription was made
\* for, although descriptors are closed and reused between the steps of a scan.
THEOREM EventsAreCurrent == Spec => [][NoStaleEvent]_vars
  BY Invariance, EventLemma, PTL DEF Spec

=============================================================================
