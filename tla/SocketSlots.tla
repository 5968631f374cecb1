---------------------------- MODULE SocketSlots ----------------------------
(***************************************************************************)
(* The socket slots and the ready queue of one owner core                  *)
(* (pro-stack/socket_owner.c), as pro-stack/owner_io.c and the reactor of  *)
(* the traffic generator use them.                                         *)
(*                                                                         *)
(* A socket lives in a slot and is named by a handle: slot, generation.    *)
(* Its events are bits of ready_mask; a bounded ring lists the sockets     *)
(* that have some, and retired sockets leave stale entries in it.  When    *)
(* the ring is full the bits stay in the mask, and a flag makes the next   *)
(* bursts scan the slots.                                                  *)
(*                                                                         *)
(* Everything runs on the owner core.  The loops of a burst are steps of   *)
(* their own, during which phase keeps every other operation out.          *)
(***************************************************************************)
EXTENDS Naturals, Sequences, FiniteSets, Functions

CONSTANTS
  Objs,       \* memory for struct nsock
  Null,       \* the null pointer
  Capacity,   \* slot_capacity
  GenCount,   \* number of values of a generation: 2^32 in the source
  Bits,       \* OWNER_IO_EV_*
  Budgets,    \* values of max_events the callers pass
  MaxLives    \* bound: how often one slot may be retired

\* What a configuration satisfies:
\*   Null \notin Objs \cup Nat
\*   Capacity \in Nat \ {0}
\*   GenCount \in Nat /\ GenCount >= 2 /\ MaxLives \in Nat
\*   Budgets \subseteq Nat \ {0}

Ids  == 0..(Capacity - 1)
Gens == 0..(GenCount - 1)

\* socket_owner_capacity_params: the least power of two that is enough.
Powers        == {2^k : k \in 0..(2 * Capacity)}
ReadyCapacity == CHOOSE p \in Powers :
                   /\ p >= 2 * Capacity
                   /\ \A q \in Powers : q >= 2 * Capacity => p <= q

VARIABLES
  slots,        \* owner->slots
  generations,  \* owner->generations
  freeIds,      \* owner->free_ids, used as a stack
  sk,           \* sk[o]: id, generation, ready_mask and ready_queued of o
  readyRing,    \* handles in owner->ready_ring
  overflow,     \* owner->ready_overflow
  scan,         \* owner->ready_scan
  phase,        \* "app", or a loop of socket_owner_ready_burst: "drain", "scan"
  room,         \* max_events - produced
  scanned,      \* local variable of the scan
  events,       \* reported to the reactor and not handled yet
  lives,        \* lives[i]: retirements of slot i so far (history)
  held          \* handles the application was ever given (history)

slotVars  == <<slots, generations, freeIds, lives, held>>
burstVars == <<scan, phase, room, scanned, events>>
vars      == <<slotVars, sk, readyRing, overflow, burstVars>>

NoSock == [id |-> Null, generation |-> 0, mask |-> {}, queued |-> FALSE]
Live   == {o \in Objs : sk[o].id # Null}

\* socket_owner_handle; born tells the sockets of one slot apart and is not
\* part of the program.
Handle(o) == [id |-> sk[o].id, generation |-> sk[o].generation,
              born |-> lives[sk[o].id]]
Handles   == [id : Ids, generation : Gens, born : Nat]

\* owner_lookup.
Names(h, o) == sk[o].id = h.id /\ sk[o].generation = h.generation
Lookup(h)   == IF slots[h.id] # Null /\ sk[slots[h.id]].generation = h.generation
               THEN slots[h.id] ELSE Null

TypeOK ==
  /\ slots \in [Ids -> Objs \cup {Null}]
  /\ generations \in [Ids -> Gens]
  /\ freeIds \in Seq(Ids)
  /\ sk \in [Objs -> [id : Ids \cup {Null}, generation : Gens,
                      mask : SUBSET Bits, queued : BOOLEAN]]
  /\ readyRing \in Seq(Handles)
  /\ overflow \in BOOLEAN
  /\ scan \in Ids
  /\ phase \in {"app", "drain", "scan"}
  /\ room \in Nat
  /\ scanned \in 0..Capacity
  /\ events \in Seq([handle : Handles, mask : SUBSET Bits])
  /\ lives \in [Ids -> Nat]
  /\ held \subseteq Handles

\* socket_owner_init_with_capacity.
Init ==
  /\ slots = [i \in Ids |-> Null]
  /\ generations = [i \in Ids |-> 0]
  /\ freeIds = [n \in 1..Capacity |-> Capacity - n]
  /\ sk = [o \in Objs |-> NoSock]
  /\ readyRing = <<>> /\ overflow = FALSE /\ scan = 0
  /\ phase = "app" /\ room = 0 /\ scanned = 0 /\ events = <<>>
  /\ lives = [i \in Ids |-> 0]
  /\ held = {}

-----------------------------------------------------------------------------
(***************************************************************************)
(* Slots                                                                   *)
(***************************************************************************)

\* Seeded fault: a reused slot keeps its generation.
NextGenerationSame(g) == g

NextGeneration(g) == IF (g + 1) % GenCount = 0 THEN 1 ELSE (g + 1) % GenCount

\* socket_owner_adopt of a zeroed socket.  Without a free slot the socket is
\* freed again and nothing changes.
Adopt(o) ==
  LET id == freeIds[Len(freeIds)]
      g  == IF generations[id] = 0 THEN 1 ELSE generations[id]
  IN  /\ phase = "app"
      /\ o \notin Live
      /\ freeIds # <<>>
      /\ freeIds' = SubSeq(freeIds, 1, Len(freeIds) - 1)
      /\ generations' = [generations EXCEPT ![id] = g]
      /\ slots' = [slots EXCEPT ![id] = o]
      /\ sk' = [sk EXCEPT ![o] = [NoSock EXCEPT !.id = id, !.generation = g]]
      /\ held' = held \cup {[id |-> id, generation |-> g, born |-> lives[id]]}
      /\ UNCHANGED <<lives, readyRing, overflow, burstVars>>

\* nsock_free: socket_owner_retire, then the memory is released.  The slot of a
\* live socket always holds it (SlotsExact).
Retire(o) ==
  LET id == sk[o].id
  IN  /\ phase = "app"
      /\ o \in Live
      /\ lives[id] < MaxLives
      /\ slots[id] = o
      /\ slots' = [slots EXCEPT ![id] = Null]
      /\ generations' = [generations EXCEPT ![id] = NextGeneration(@)]
      /\ freeIds' = IF Len(freeIds) < Capacity THEN Append(freeIds, id) ELSE freeIds
      /\ lives' = [lives EXCEPT ![id] = @ + 1]
      /\ sk' = [sk EXCEPT ![o] = NoSock]
      /\ UNCHANGED <<held, readyRing, overflow, burstVars>>

-----------------------------------------------------------------------------
(***************************************************************************)
(* The ready queue                                                         *)
(***************************************************************************)

\* An entry needs one of ready_capacity pool objects, and a ring of that size
\* holds one entry less.
Room == /\ Len(readyRing) < ReadyCapacity
        /\ Len(readyRing) < ReadyCapacity - 1

\* socket_owner_ready_post.
ReadyPost(o, bits) ==
  /\ phase = "app"
  /\ o \in Live
  /\ bits # {}
  /\ sk' = [sk EXCEPT ![o].mask = @ \cup bits, ![o].queued = @ \/ Room]
  /\ IF sk[o].queued
     THEN UNCHANGED <<readyRing, overflow>>
     ELSE IF Room
     THEN readyRing' = Append(readyRing, Handle(o)) /\ UNCHANGED overflow
     ELSE overflow' = TRUE /\ UNCHANGED readyRing
  /\ UNCHANGED <<slotVars, burstVars>>

Reported(o) == [handle |-> Handle(o), mask |-> sk[o].mask]

\* socket_owner_ready_burst, called by tg_reactor_run when it has handled the
\* previous events.
BeginBurst ==
  /\ phase = "app"
  /\ events = <<>>
  /\ phase' = "drain"
  /\ room' \in Budgets
  /\ UNCHANGED <<slotVars, sk, readyRing, overflow, scan, scanned, events>>

\* One iteration of the first loop: a stale entry is dropped.
DrainOne ==
  LET o == Lookup(Head(readyRing))
  IN  /\ phase = "drain"
      /\ room > 0
      /\ readyRing # <<>>
      /\ readyRing' = Tail(readyRing)
      /\ IF o = Null
         THEN UNCHANGED <<sk, events, room>>
         ELSE /\ sk' = [sk EXCEPT ![o].mask = {}, ![o].queued = FALSE]
              /\ IF sk[o].mask = {}
                 THEN UNCHANGED <<events, room>>
                 ELSE events' = Append(events, Reported(o)) /\ room' = room - 1
      /\ UNCHANGED <<slotVars, overflow, scan, phase, scanned>>

EndDrain ==
  /\ phase = "drain"
  /\ room = 0 \/ readyRing = <<>>
  /\ IF overflow THEN phase' = "scan" /\ UNCHANGED room
                 ELSE phase' = "app" /\ room' = 0
  /\ UNCHANGED <<slotVars, sk, readyRing, overflow, scan, scanned, events>>

\* One iteration of the second loop, which resumes where the last scan ended.
ScanOne ==
  LET o == slots[scan]
  IN  /\ phase = "scan"
      /\ scanned < Capacity
      /\ room > 0
      /\ scan' = (scan + 1) % Capacity
      /\ scanned' = scanned + 1
      /\ IF o # Null /\ sk[o].mask # {} /\ ~sk[o].queued
         THEN /\ events' = Append(events, Reported(o))
              /\ sk' = [sk EXCEPT ![o].mask = {}]
              /\ room' = room - 1
         ELSE UNCHANGED <<events, sk, room>>
      /\ UNCHANGED <<slotVars, readyRing, overflow, phase>>

\* Seeded fault: the flag is cleared although the scan ran out of room.
EndScanClears ==
  /\ phase = "scan"
  /\ scanned = Capacity \/ room = 0
  /\ phase' = "app" /\ overflow' = FALSE
  /\ room' = 0 /\ scanned' = 0
  /\ UNCHANGED <<slotVars, sk, readyRing, scan, events>>

EndScan ==
  /\ phase = "scan"
  /\ scanned = Capacity \/ room = 0
  /\ phase' = "app"
  /\ overflow' = (overflow /\ scanned # Capacity)
  /\ room' = 0 /\ scanned' = 0
  /\ UNCHANGED <<slotVars, sk, readyRing, scan, events>>

\* tg_reactor_run hands the next event to its flow.  What the handler does to
\* sockets are the other actions: it may retire sockets of later events.
HandleEvent ==
  /\ phase = "app"
  /\ events # <<>>
  /\ events' = Tail(events)
  /\ UNCHANGED <<slotVars, sk, readyRing, overflow, scan, phase, room, scanned>>

-----------------------------------------------------------------------------
Reactor == BeginBurst \/ DrainOne \/ EndDrain \/ ScanOne \/ EndScan \/ HandleEvent

Next ==
  \/ \E o \in Objs : Adopt(o) \/ Retire(o)
  \/ \E o \in Objs, bits \in SUBSET Bits : ReadyPost(o, bits)
  \/ Reactor

Spec == Init /\ [][Next]_vars

-----------------------------------------------------------------------------
(***************************************************************************)
(* Properties                                                              *)
(***************************************************************************)

\* The free list holds exactly the empty slots, each once, and a slot holds
\* the socket that knows it by number and current generation: adopting never
\* overwrites a live socket and no slot leaks.
SlotsExact ==
  /\ \A m, n \in DOMAIN freeIds : m # n => freeIds[m] # freeIds[n]
  /\ \A i \in Ids : slots[i] = Null <=> i \in Range(freeIds)
  /\ \A i \in Ids : slots[i] # Null =>
       sk[slots[i]].id = i /\ sk[slots[i]].generation = generations[i]
  /\ \A o \in Live : slots[sk[o].id] = o
  /\ \A i \in Ids : slots[i] # Null => generations[i] # 0

\* "A delayed command carrying an old generation cannot operate on a new socket
\* that reused the same slot": owner_lookup resolves a handle only while the
\* socket it was made for is alive, unless the generation has come round.
StaleNeverResolves ==
  \A h \in held : Lookup(h) # Null => (lives[h.id] - h.born) % (GenCount - 1) = 0

\* No event is lost: as long as ready_mask has bits, an entry of the ready ring
\* names the socket or the overflow flag makes a burst scan for it.  Stale
\* entries, full rings, partial scans and reused slots notwithstanding.
NoLostEvent ==
  \A o \in Live : sk[o].mask # {} =>
    overflow \/ \E n \in DOMAIN readyRing : Names(readyRing[n], o)

=============================================================================
