------------------------------- MODULE Nepoll -------------------------------
(***************************************************************************)
(* Poll sets over the public descriptors (pro-stack/nepoll.c).             *)
(*                                                                         *)
(* A waiter loads socket_public_sequence, scans the subscriptions of its   *)
(* poller against the descriptor table, and sleeps on the sequence if it   *)
(* found nothing.  poll_lock is held for a whole scan, but the descriptor  *)
(* table is locked once per entry, so readiness, closes and reuse of       *)
(* descriptors fall between the steps of a scan.                           *)
(***************************************************************************)
EXTENDS PublicFd

CONSTANTS
  MaxPollers, \* bound: pollers created
  Interests,  \* bound: may a subscription ask for, or leave out, READ
  MaxEvents   \* the maxevents argument of nepoll_wait

ASSUME PollAssumption == /\ IsFiniteSet(Waiters)
                         /\ MaxPollers \in Nat
                         /\ Interests \subseteq BOOLEAN
                         /\ MaxEvents \in Nat \ {0}

Pollers == 1..MaxPollers

VARIABLES
  poller, \* poller[p]: life, refs, cursor and subscriptions
  wait    \* wait[w]: where w is in nepoll_wait, and its locals

pollVars == <<poller, wait>>
vars     == <<fdVars, poller, wait>>

NoSub == [handle |-> Null, read |-> FALSE]
Away  == [pc |-> "idle", poller |-> Null, i |-> 0, start |-> 0, out |-> {}]

PollTypeOK ==
  /\ TypeOK
  /\ poller \in [Pollers -> [life : {"none", "open", "closed", "freed"}, refs : Nat,
                             cursor : Fds,
                             sub : [Fds -> [handle : Handles \cup {Null},
                                            read : BOOLEAN]]]]
  /\ wait \in [Waiters -> [pc : {"idle", "load", "lock", "scan", "sleep", "leave"},
                           poller : Pollers \cup {Null}, i : 0..NSOCK_FD_MAX,
                           start : Fds, out : SUBSET Fds]]

Init ==
  /\ FdInit
  /\ poller = [p \in Pollers |-> [life |-> "none", refs |-> 0, cursor |-> 0,
                                  sub |-> [f \in Fds |-> NoSub]]]
  /\ wait = [w \in Waiters |-> Away]

Unlocked == \A w \in Waiters : wait[w].pc # "scan"

\* The epfd and fd arguments of a call are anything; find fails unless the
\* poller is open, and then the call is EBADF and changes nothing.
Open(p) == poller[p].life = "open"

-----------------------------------------------------------------------------
\* nepoll_create.
NepollCreate(t) ==
  /\ call[t].op = "idle" /\ Unlocked
  /\ \E p \in Pollers :
       /\ poller[p].life = "none"
       /\ \A q \in Pollers : q < p => poller[q].life # "none"
       /\ poller' = [poller EXCEPT ![p].life = "open", ![p].refs = 1]
  /\ UNCHANGED <<fdVars, wait>>

\* The subscription nepoll_ctl sees: one for an earlier socket is dropped.
Current(p, f) == IF poller[p].sub[f].handle = fdTable[f].handle
                 THEN poller[p].sub[f] ELSE NoSub

\* nepoll_ctl: ADD needs no subscription (else EEXIST), MOD and DEL one (else
\* ENOENT); a refused call still drops a stale subscription.
NepollCtl(t, p, f) ==
  /\ call[t].op = "idle" /\ Unlocked
  /\ Open(p) /\ fdTable[f].handle # Null
  /\ \E op \in {"add", "mod", "del"}, r \in Interests :
       LET refused == (op = "add") <=> (Current(p, f) # NoSub)
           sub     == IF refused THEN Current(p, f)
                      ELSE IF op = "del" THEN NoSub
                      ELSE [handle |-> fdTable[f].handle, read |-> r]
       IN  /\ sub # poller[p].sub[f]
           /\ poller' = [poller EXCEPT ![p].sub[f] = sub]
           /\ call' = [call EXCEPT ![t].op = IF refused THEN "idle" ELSE "notify"]
  /\ UNCHANGED <<fdTable, sk, undelivered, known, notifying, moved, down, wait>>

\* One reference less; the memory goes with the last.
Release(r, life) ==
  IF r.refs = 1
  THEN [life |-> "freed", refs |-> 0, cursor |-> 0, sub |-> [f \in Fds |-> NoSub]]
  ELSE [life |-> life, refs |-> r.refs - 1, cursor |-> r.cursor, sub |-> r.sub]

\* Seeded fault: the list's reference is the only one that counts.
NepollCloseFrees(t, p) ==
  /\ call[t].op = "idle" /\ Unlocked
  /\ Open(p)
  /\ poller' = [poller EXCEPT ![p] = Release([@ EXCEPT !.refs = 1], "closed")]
  /\ call' = [call EXCEPT ![t].op = "notify"]
  /\ UNCHANGED <<fdTable, sk, undelivered, known, notifying, moved, down, wait>>

\* nepoll_close.
NepollClose(t, p) ==
  /\ call[t].op = "idle" /\ Unlocked
  /\ Open(p)
  /\ poller' = [poller EXCEPT ![p] = Release(@, "closed")]
  /\ call' = [call EXCEPT ![t].op = "notify"]
  /\ UNCHANGED <<fdTable, sk, undelivered, known, notifying, moved, down, wait>>

-----------------------------------------------------------------------------
(***************************************************************************)
(* nepoll_wait                                                             *)
(***************************************************************************)

NepollWait(w, p) ==
  /\ wait[w].pc = "idle" /\ Unlocked
  /\ Open(p)
  /\ poller' = [poller EXCEPT ![p].refs = @ + 1]
  /\ wait' = [wait EXCEPT ![w].pc = "load", ![w].poller = p]
  /\ UNCHANGED fdVars

\* The sequence is loaded before the lock is taken.
Load(w) ==
  /\ wait[w].pc = "load"
  /\ moved' = [moved EXCEPT ![w] = FALSE]
  /\ wait' = [wait EXCEPT ![w].pc = "lock"]
  /\ UNCHANGED <<fdTable, sk, undelivered, call, known, notifying, down, poller>>

\* The lock is taken.  EBADF if the poller was closed meanwhile.
BeginScan(w) ==
  LET p == wait[w].poller
  IN  /\ wait[w].pc = "lock" /\ Unlocked
      /\ wait' = [wait EXCEPT ![w].pc = IF poller[p].life = "closed" THEN "leave"
                                        ELSE "scan",
                              ![w].start = poller[p].cursor]
      /\ UNCHANGED <<fdVars, poller>>

\* The mask of an event: HUP is reported whatever the interest.
Due(p, f) == fdTable[f].ready \in {"hup"} \cup IF poller[p].sub[f].read THEN {"read"}
                                               ELSE {}

CursorAfter(f) == (f + 1) % NSOCK_FD_MAX

\* Seeded fault: only the descriptor is compared, not the handle.
StaleUnused(p, f) == poller[p].sub[f] # NoSub /\ fdTable[f].handle = Null

\* The descriptor is closed, or names another socket than when it was added.
Stale(p, f) == poller[p].sub[f] # NoSub /\ ~Names(f, poller[p].sub[f].handle)

\* One descriptor of the scan: a stale subscription is dropped, a due one
\* reported and the cursor put behind it.
ScanOne(w) ==
  LET p == wait[w].poller
      f == (wait[w].start + wait[w].i) % NSOCK_FD_MAX
      report == poller[p].sub[f] # NoSub /\ ~Stale(p, f) /\ Due(p, f)
  IN  /\ wait[w].pc = "scan"
      /\ wait[w].i < NSOCK_FD_MAX /\ Cardinality(wait[w].out) < MaxEvents
      /\ wait' = [wait EXCEPT ![w].i = @ + 1, ![w].out = IF report THEN @ \cup {f} ELSE @]
      /\ poller' = [poller EXCEPT
           ![p].sub[f] = IF Stale(p, f) THEN NoSub ELSE @,
           ![p].cursor = IF report THEN CursorAfter(f) ELSE @]
      /\ UNCHANGED fdVars

\* Seeded fault: the sequence is loaded after the scan.
EndScanLoads(w) ==
  /\ wait[w].pc = "scan"
  /\ wait[w].i = NSOCK_FD_MAX \/ Cardinality(wait[w].out) = MaxEvents
  /\ \E pc \in IF wait[w].out # {} THEN {"leave"} ELSE {"leave", "sleep"} :
       wait' = [wait EXCEPT ![w].pc = pc, ![w].i = 0, ![w].start = 0]
  /\ moved' = [moved EXCEPT ![w] = FALSE]
  /\ UNCHANGED <<fdTable, sk, undelivered, call, known, notifying, down, poller>>

\* The lock is released: leave with the events, or at the deadline, or sleep.
EndScan(w) ==
  /\ wait[w].pc = "scan"
  /\ wait[w].i = NSOCK_FD_MAX \/ Cardinality(wait[w].out) = MaxEvents
  /\ \E pc \in IF wait[w].out # {} THEN {"leave"} ELSE {"leave", "sleep"} :
       wait' = [wait EXCEPT ![w].pc = pc, ![w].i = 0, ![w].start = 0]
  /\ UNCHANGED <<fdVars, poller>>

\* FUTEX_WAIT returns at once if the sequence moved, else with the next notify.
Woken(w) ==
  /\ wait[w].pc = "sleep" /\ moved[w]
  /\ wait' = [wait EXCEPT ![w].pc = "load"]
  /\ UNCHANGED <<fdVars, poller>>

\* The 10 ms timeout of the futex.
Timeout(w) ==
  /\ wait[w].pc = "sleep"
  /\ wait' = [wait EXCEPT ![w].pc = "load"]
  /\ UNCHANGED <<fdVars, poller>>

\* release, also when the thread is cancelled in its sleep.
Leave(w) ==
  /\ wait[w].pc = "leave" /\ Unlocked
  /\ poller' = [poller EXCEPT ![wait[w].poller] = Release(@, @.life)]
  /\ wait' = [wait EXCEPT ![w] = Away]
  /\ UNCHANGED fdVars

Cancel(w) ==
  /\ wait[w].pc = "sleep"
  /\ wait' = [wait EXCEPT ![w].pc = "leave"]
  /\ UNCHANGED <<fdVars, poller>>

WaitStep(w) == Load(w) \/ BeginScan(w) \/ ScanOne(w) \/ EndScan(w) \/ Woken(w) \/ Leave(w)

Next ==
  \/ FdNext /\ UNCHANGED pollVars
  \/ \E t \in Threads :
       \/ NepollCreate(t)
       \/ \E p \in Pollers : NepollClose(t, p) \/ \E f \in Fds : NepollCtl(t, p, f)
  \/ \E w \in Waiters :
       WaitStep(w) \/ Timeout(w) \/ Cancel(w) \/ \E p \in Pollers : NepollWait(w, p)

Spec == Init /\ [][Next]_vars

-----------------------------------------------------------------------------
(***************************************************************************)
(* Properties                                                              *)
(***************************************************************************)

In(w, p) == wait[w].poller = p

\* A poller's memory is released with its last reference and never under a
\* waiter: nepoll_close from another thread and cancellation included.
PollerMemory ==
  \A p \in Pollers :
    LET users == Cardinality({w \in Waiters : In(w, p)})
    IN  /\ poller[p].refs = users + IF Open(p) THEN 1 ELSE 0
        /\ poller[p].life \in {"none", "freed"} <=> poller[p].refs = 0

\* An event a scan would report for p.
Pending(p) == {f \in Fds : poller[p].sub[f] # NoSub
                           /\ Names(f, poller[p].sub[f].handle) /\ Due(p, f)}

\* No wake-up is lost: a waiter sleeps on an unmoved sequence only if there is
\* nothing for it, or somebody is about to notify.  The 10 ms timeout of the
\* futex is not needed for this.
NoLostWakeup ==
  \A w \in Waiters :
    wait[w].pc = "sleep" /\ ~moved[w] =>
      \/ Open(wait[w].poller) /\ Pending(wait[w].poller) = {}
      \/ Notified

\* nepoll_wait never reports a descriptor on behalf of a subscription made for
\* an earlier socket of the same number.
NoStaleEvent ==
  \A w \in Waiters, f \in Fds :
    f \in wait'[w].out \ wait[w].out =>
      poller[wait[w].poller].sub[f].handle = fdTable[f].handle

-----------------------------------------------------------------------------
(***************************************************************************)
(* The inductive invariant.                                                *)
(***************************************************************************)

\* Where a waiter is and what it holds; poll_lock admits one scan.
Waits ==
  /\ \A w \in Waiters : /\ wait[w].pc = "idle" <=> wait[w].poller = Null
                        /\ wait[w].pc # "scan" => wait[w].i = 0
                        /\ wait[w].pc \notin {"scan", "leave"} => wait[w].out = {}
  /\ \A v, w \in Waiters : wait[v].pc = "scan" /\ wait[w].pc = "scan" => v = w

Position(w, j) == (wait[w].start + j) % NSOCK_FD_MAX

\* A scan under an unmoved sequence has missed nothing of what it passed.
ScanSound ==
  \A w \in Waiters :
    wait[w].pc = "scan" =>
      /\ Open(wait[w].poller)
      /\ ~moved[w] =>
           \/ Notified
           \/ \A j \in 0..(wait[w].i - 1) :
                Position(w, j) \in wait[w].out \/ Position(w, j) \notin Pending(wait[w].poller)

PollInv == PollTypeOK /\ Waits /\ ScanSound /\ NoLostWakeup
=============================================================================
