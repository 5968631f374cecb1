------------------------------ MODULE PublicFd ------------------------------
(***************************************************************************)
(* The public descriptor table of pro-stack/socket.c.                      *)
(*                                                                         *)
(* Application threads name a socket by a descriptor; the table gives its  *)
(* handle and the last readiness the owner core computed.  Table accesses  *)
(* are critical sections of fd_table_lock, one step each; everything a     *)
(* thread asks of a socket is a command the owner executes, so publishing, *)
(* calling and closing are several steps, between which other threads and  *)
(* the owner run.                                                          *)
(*                                                                         *)
(* How a command travels to the owner is the module SocketOwner, how a     *)
(* handle resolves is the module SocketSlots: here a command is one owner  *)
(* step, and handles are never reused.                                     *)
(***************************************************************************)
EXTENDS Naturals, FiniteSets, FiniteSetsExt

CONSTANTS
  Threads,    \* application threads
  Waiters,    \* threads in nepoll_wait, see the module Nepoll
  NSOCK_FD_MAX,
  MaxSockets, \* bound: sockets created
  EventMasks, \* bound: what the transport may make of the readiness of a socket
  Null

ASSUME FdAssumption == /\ NSOCK_FD_MAX \in Nat \ {0}
                       /\ MaxSockets \in Nat
                       /\ EventMasks \subseteq {"none", "read", "hup"}
                       /\ Null \notin Nat

Fds     == 0..(NSOCK_FD_MAX - 1)
Handles == 1..MaxSockets
Masks   == {"none", "read", "hup"}

VARIABLES
  fdTable,     \* fdTable[f]: handle, Null for an unused entry, and readiness
  sk,          \* sk[h]: life, readiness and public_fd of the socket of h
  undelivered, \* results released unclaimed, which the owner will close
  call,        \* call[t]: the public function t is in and its locals
  known,       \* descriptors returned to the application and not closed
  notifying,   \* the owner is about to call socket_public_notify
  moved,       \* moved[w]: socket_public_sequence is not what w loaded
  down         \* the owner has stopped serving commands

fdVars == <<fdTable, sk, undelivered, call, known, notifying, moved, down>>

Idle  == [op |-> "idle", fd |-> Null, handle |-> Null]
Empty == [handle |-> Null, ready |-> "none"]
Ops   == {"idle", "create", "reserve", "publish", "unpublish", "check", "checked",
          "checkAccept", "accept", "close", "clear", "notify"}

TypeOK ==
  /\ fdTable \in [Fds -> [handle : Handles \cup {Null}, ready : Masks]]
  /\ sk \in [Handles -> [life : {"none", "open", "closing", "gone"},
                         ready : Masks, fd : Fds \cup {Null}]]
  /\ undelivered \subseteq Handles
  /\ call \in [Threads -> [op : Ops, fd : Fds \cup {Null},
                           handle : Handles \cup {Null}]]
  /\ known \subseteq Fds
  /\ notifying \in BOOLEAN
  /\ moved \in [Waiters -> BOOLEAN]
  /\ down \in BOOLEAN

FdInit ==
  /\ fdTable = [f \in Fds |-> Empty]
  /\ sk = [h \in Handles |-> [life |-> "none", ready |-> "none", fd |-> Null]]
  /\ undelivered = {}
  /\ call = [t \in Threads |-> Idle]
  /\ known = {}
  /\ notifying = FALSE
  /\ moved = [w \in Waiters |-> FALSE]
  /\ down = FALSE

-----------------------------------------------------------------------------
(***************************************************************************)
(* Readiness.  The owner computes a mask, stores it under the lock if the  *)
(* entry still names the socket, and notifies after the unlock.            *)
(***************************************************************************)

Resolves(h)  == sk[h].life \in {"open", "closing"}
Accepts(h)   == sk[h].life = "open"
Names(f, h)  == fdTable[f].handle = h

\* What is left of a closed socket: its own readiness no longer shows.
Closing(h) == [sk[h] EXCEPT !.life = "closing", !.ready = "none"]
Gone       == [life |-> "gone", ready |-> "none", fd |-> Null]

MaskOf(s) == IF s.life = "closing" THEN "hup" ELSE s.ready

\* socket_public_refresh of the socket of h, whose state becomes s.
Refresh(h, s) ==
  /\ sk' = [sk EXCEPT ![h] = s]
  /\ IF s.fd # Null /\ Names(s.fd, h)
     THEN /\ fdTable' = [fdTable EXCEPT ![s.fd].ready = MaskOf(s)]
          /\ notifying' = (fdTable[s.fd].ready # MaskOf(s))
     ELSE UNCHANGED <<fdTable, notifying>>

\* socket_owner_complete of a command that was refused: the socket, if the
\* handle still resolves, is refreshed all the same.
Refused(h) == IF Resolves(h) THEN Refresh(h, sk[h])
              ELSE UNCHANGED <<sk, fdTable, notifying>>

\* socket_public_notify: the sequence moves and every sleeper wakes.
Wake == moved' = [w \in Waiters |-> TRUE]

OwnerNotify ==
  /\ notifying
  /\ notifying' = FALSE
  /\ Wake
  /\ UNCHANGED <<fdTable, sk, undelivered, call, known, down>>

Notify(t) ==
  /\ call[t].op = "notify"
  /\ call' = [call EXCEPT ![t] = Idle]
  /\ Wake
  /\ UNCHANGED <<fdTable, sk, undelivered, known, notifying, down>>

\* socket_owner_ready_post, also of a connection that was aborted.  Once the
\* application closed the socket its mask is HUP whatever happens.
Event(h) ==
  /\ ~notifying
  /\ IF Accepts(h)
     THEN \E m \in EventMasks \ {sk[h].ready} : Refresh(h, [sk[h] EXCEPT !.ready = m])
     ELSE Resolves(h) /\ Refresh(h, sk[h])
  /\ UNCHANGED <<undelivered, call, known, moved, down>>

\* Readiness that goes without a refresh: udp_tx_flush puts a datagram back into
\* the slot it had announced as free, or a blocking accept drops the reset
\* children of a listener and waits.
UsedUp(h) ==
  /\ ~notifying
  /\ Accepts(h) /\ sk[h].ready = "read"
  /\ sk' = [sk EXCEPT ![h].ready = "none"]
  /\ UNCHANGED <<fdTable, undelivered, call, known, notifying, moved, down>>

\* nsock_free after the teardown of a closed connection.
Free(h) ==
  /\ ~notifying
  /\ sk[h].life = "closing"
  /\ sk' = [sk EXCEPT ![h] = Gone]
  /\ UNCHANGED <<fdTable, undelivered, call, known, notifying, moved, down>>

\* tcp_abort_stream of a socket the application closed: its descriptor shows the
\* hangup, then it is freed.
Abort(h) ==
  LET f == sk[h].fd
  IN  /\ sk' = [sk EXCEPT ![h] = Gone]
      /\ IF f # Null /\ Names(f, h)
         THEN /\ fdTable' = [fdTable EXCEPT ![f].ready = "hup"]
              /\ notifying' = (fdTable[f].ready # "hup")
         ELSE UNCHANGED <<fdTable, notifying>>

\* The transport's close: datagram sockets and listeners are freed at once, a
\* connection lingers or, with a zero linger time, is aborted.
CloseSocket(h) ==
  \/ Refresh(h, Closing(h)) \/ Abort(h)
  \/ /\ sk' = [sk EXCEPT ![h] = Gone]
     /\ UNCHANGED <<fdTable, notifying>>

\* command_reap closes a socket nobody claimed.
Reap(h) ==
  /\ ~notifying
  /\ h \in undelivered
  /\ undelivered' = undelivered \ {h}
  /\ IF Accepts(h) THEN CloseSocket(h) ELSE UNCHANGED <<sk, fdTable, notifying>>
  /\ UNCHANGED <<call, known, moved, down>>

-----------------------------------------------------------------------------
(***************************************************************************)
(* Creating, accepting and publishing                                      *)
(***************************************************************************)

Goto(t, op) == call' = [call EXCEPT ![t].op = op]
Return(t)   == call' = [call EXCEPT ![t] = Idle]

\* nsocket: the CREATE command is submitted.
NSocket(t) ==
  /\ call[t].op = "idle"
  /\ Goto(t, "create")
  /\ UNCHANGED <<fdTable, sk, undelivered, known, notifying, moved, down>>

\* The owner creates a socket, or hands out a child of a listener.  No slot or
\* no child: the call fails.
NewSocket(t) ==
  /\ ~notifying /\ ~down
  /\ \/ call[t].op = "create"
     \/ call[t].op = "accept" /\ Accepts(call[t].handle)
  /\ \E h \in Handles :
       /\ sk[h].life = "none" /\ \A g \in Handles : g < h => sk[g].life # "none"
       /\ \E m \in EventMasks \ {"hup"} :
            sk' = [sk EXCEPT ![h].life = "open", ![h].ready = m]
       /\ call' = [call EXCEPT ![t] = [op |-> "reserve", fd |-> Null, handle |-> h]]
  /\ UNCHANGED <<fdTable, undelivered, known, notifying, moved, down>>

Unused == {f \in Fds : fdTable[f].handle = Null}

\* Seeded fault: the handle is forgotten when no descriptor is left.
ReserveForgets(t) ==
  /\ call[t].op = "reserve"
  /\ IF Unused # {}
     THEN /\ fdTable' = [fdTable EXCEPT ![Min(Unused)].handle = call[t].handle]
          /\ call' = [call EXCEPT ![t].op = "publish", ![t].fd = Min(Unused)]
     ELSE UNCHANGED fdTable /\ Return(t)
  /\ UNCHANGED <<sk, undelivered, known, notifying, moved, down>>

\* fd_publish up to its command: the lowest unused entry, or EMFILE.
Reserve(t) ==
  /\ call[t].op = "reserve"
  /\ IF Unused # {}
     THEN /\ fdTable' = [fdTable EXCEPT ![Min(Unused)].handle = call[t].handle]
          /\ call' = [call EXCEPT ![t].op = "publish", ![t].fd = Min(Unused)]
          /\ UNCHANGED undelivered
     ELSE /\ undelivered' = undelivered \cup {call[t].handle}
          /\ Return(t)
          /\ UNCHANGED fdTable
  /\ UNCHANGED <<sk, known, notifying, moved, down>>

\* The owner executes PUBLISH, completes it (socket_owner_complete refreshes),
\* and fd_publish claims the result.
Publish(t) ==
  LET h == call[t].handle
  IN  /\ ~notifying /\ ~down
      /\ call[t].op = "publish"
      /\ IF Accepts(h)
         THEN /\ Refresh(h, [sk[h] EXCEPT !.fd = call[t].fd])
              /\ known' = known \cup {call[t].fd}
              /\ Return(t)
         ELSE Goto(t, "unpublish") /\ Refused(h) /\ UNCHANGED known
      /\ UNCHANGED <<undelivered, moved, down>>

\* fd_publish after a failed PUBLISH: the entry is wiped whatever it holds.
Unpublish(t) ==
  /\ call[t].op = "unpublish"
  /\ fdTable' = [fdTable EXCEPT ![call[t].fd] = Empty]
  /\ undelivered' = undelivered \cup {call[t].handle}
  /\ Return(t)
  /\ UNCHANGED <<sk, known, notifying, moved, down>>

-----------------------------------------------------------------------------
(***************************************************************************)
(* Calls and closing.  An application calls with a descriptor it was given *)
(* and that no nclose has taken away; two threads may close the same one.  *)
(***************************************************************************)

\* fd_resolve at the start of a public function.
Resolve(t, f, op) ==
  /\ call[t].op = "idle"
  /\ f \in known
  /\ call' = [call EXCEPT ![t] = [op |-> op, fd |-> f, handle |-> fdTable[f].handle]]
  /\ UNCHANGED <<fdTable, sk, undelivered, known, notifying, moved, down>>

\* nsend, nrecv, nsendto, nrecvfrom, nconnect; and naccept4.
NCall(t, f)   == Resolve(t, f, "check")
NAccept(t, f) == Resolve(t, f, "checkAccept")

\* nsetsockopt, ngetsockopt, nfcntl, nbind and nlisten submit the command at
\* once.
NOption(t, f) == Resolve(t, f, "checked")

NClose(t, f) == Resolve(t, f, "close")

\* public_call: EBADF unless the entry still holds the handle; then the command
\* of a transfer, or of naccept4.
PublicCall(t) ==
  /\ call[t].op \in {"check", "checkAccept"}
  /\ IF Names(call[t].fd, call[t].handle)
     THEN Goto(t, IF call[t].op = "check" THEN "checked" ELSE "accept")
     ELSE Return(t)
  /\ UNCHANGED <<fdTable, sk, undelivered, known, notifying, moved, down>>

\* The owner executes a transfer: it may use up the readiness of the socket.
Transfer(t) ==
  LET h == call[t].handle
  IN  /\ ~notifying /\ ~down
      /\ call[t].op = "checked"
      /\ Return(t)
      /\ IF Accepts(h)
         THEN \E m \in {sk[h].ready, "none"} : Refresh(h, [sk[h] EXCEPT !.ready = m])
         ELSE Refused(h)
      /\ UNCHANGED <<undelivered, known, moved, down>>

\* The owner executes CLOSE; a socket that is closed already answers EBADF.  A
\* connection that cannot queue its FIN is aborted, and nclose returns ENOBUFS
\* with the entry still there.
Close(t) ==
  LET h == call[t].handle
  IN  /\ ~notifying /\ ~down
      /\ call[t].op = "close"
      /\ \/ /\ Goto(t, "clear")
            /\ IF Accepts(h) THEN CloseSocket(h) ELSE Refused(h)
         \/ Return(t) /\ Accepts(h) /\ Abort(h)
      /\ UNCHANGED <<undelivered, known, moved, down>>

\* nclose after the command: the entry is cleared if it still holds the handle.
Clear(t) ==
  LET f == call[t].fd
  IN  /\ call[t].op = "clear"
      /\ IF Names(f, call[t].handle)
         THEN /\ fdTable' = [fdTable EXCEPT ![f] = Empty]
              /\ known' = known \ {f}
         ELSE UNCHANGED <<fdTable, known>>
      /\ Goto(t, "notify")
      /\ UNCHANGED <<sk, undelivered, notifying, moved, down>>

\* socket_owner_call fails before the owner sees the command (ENOMEM), or no
\* child is there to accept.
CallFails(t) ==
  /\ call[t].op \in {"create", "publish", "checked", "accept", "close"}
  /\ IF call[t].op = "publish" THEN Goto(t, "unpublish") ELSE Return(t)
  /\ UNCHANGED <<fdTable, sk, undelivered, known, notifying, moved, down>>

\* The owner stopped: ENETDOWN, on which nclose clears the entry.
CallDown(t) ==
  /\ down
  /\ call[t].op \in {"create", "publish", "checked", "accept", "close"}
  /\ CASE call[t].op = "publish" -> Goto(t, "unpublish")
       [] call[t].op = "close"   -> Goto(t, "clear")
       [] OTHER                  -> Return(t)
  /\ UNCHANGED <<fdTable, sk, undelivered, known, notifying, moved, down>>

\* socket_owner_stop: no command is served any more, then each socket is closed
\* and its last readiness published.
Stop ==
  /\ ~down /\ ~notifying
  /\ down' = TRUE
  /\ UNCHANGED <<fdTable, sk, undelivered, call, known, notifying, moved>>

StopSocket(h) ==
  /\ down /\ ~notifying
  /\ sk[h].life = "open"
  /\ Refresh(h, Closing(h))
  /\ UNCHANGED <<undelivered, call, known, moved, down>>

FdNext ==
  \/ OwnerNotify \/ Stop
  \/ \E h \in Handles : Event(h) \/ UsedUp(h) \/ Free(h) \/ Reap(h) \/ StopSocket(h)
  \/ \E t \in Threads :
       \/ Notify(t) \/ NSocket(t) \/ NewSocket(t) \/ Reserve(t) \/ Publish(t)
       \/ Unpublish(t) \/ PublicCall(t) \/ Transfer(t) \/ Close(t) \/ Clear(t)
       \/ CallFails(t) \/ CallDown(t)
       \/ \E f \in Fds : NCall(t, f) \/ NAccept(t, f) \/ NOption(t, f) \/ NClose(t, f)

-----------------------------------------------------------------------------
(***************************************************************************)
(* Properties                                                              *)
(***************************************************************************)

Publishing(f) == {t \in Threads : call[t].op \in {"publish", "unpublish"}
                                  /\ call[t].fd = f}

\* The table is exact: an entry in use belongs to the application or to the one
\* fd_publish that is still filling it, a descriptor the application holds has
\* an entry, and no two entries name the same socket.
TableExact ==
  /\ \A f \in Fds : (fdTable[f].handle # Null) <=> (f \in known \/ Publishing(f) # {})
  /\ \A f \in Fds : /\ \A s, t \in Publishing(f) : s = t
                    /\ f \in known => Publishing(f) = {}
  /\ \A f, g \in Fds : fdTable[f].handle = fdTable[g].handle
                       => f = g \/ fdTable[f].handle = Null

\* No socket leaks: an open socket is named by a descriptor, is on its way to
\* one, or is queued for the owner to close, whatever publishing ran into.
NoOrphan ==
  \A h \in Handles : sk[h].life = "open" /\ ~down =>
    \/ \E f \in Fds : fdTable[f].handle = h
    \/ \E t \in Threads : call[t].op = "reserve" /\ call[t].handle = h
    \/ h \in undelivered

\* A descriptor is withdrawn only after the owner took the close of its own
\* socket (or when its publication failed): concurrent closes of the same
\* descriptor never withdraw a newer socket that got the same number.
WithdrawnAfterClose ==
  \A f \in Fds :
    LET h == fdTable[f].handle
    IN  h # Null /\ fdTable'[f].handle # h =>
          \/ sk[h].life \in {"closing", "gone"} \/ down
          \/ \E t \in Threads : call[t].op = "unpublish" /\ call[t].fd = f
                                /\ call[t].handle = h

\* What descriptor f may show of its socket s: nothing before PUBLISH has run,
\* then its readiness, or readiness that was used up since.
Shows(m, s, f) ==
  IF s.fd = f THEN m = MaskOf(s) \/ (m = "read" /\ MaskOf(s) = "none")
  ELSE m = "none"

\* Level triggering rests on the table: for as long as the socket exists its
\* descriptor hides no readiness the owner would compute now, and no hangup.
\* The table may lag behind on one side only, still showing readiness that
\* udp_tx_flush or a blocking accept used up.
ReadinessShown ==
  \A f \in Fds :
    LET h == fdTable[f].handle
    IN  h # Null /\ Resolves(h) => Shows(fdTable[f].ready, sk[h], f)

\* Somebody is about to move the sequence.
Notified == notifying \/ \E t \in Threads : call[t].op = "notify"

-----------------------------------------------------------------------------
(***************************************************************************)
(* The inductive invariant.  A thread that publishes a socket is alone in  *)
(* knowing its handle until the descriptor is returned, which is why the   *)
(* entry it wipes after a failure is its own.                              *)
(***************************************************************************)

Publishers == {t \in Threads : call[t].op \in {"reserve", "publish", "unpublish"}}
Users      == {t \in Threads : call[t].op \in {"check", "checked", "checkAccept",
                                               "accept", "close", "clear"}}

\* What a thread remembers across its steps.
Locals ==
  /\ \A t \in Publishers \cup Users : /\ call[t].handle \in Handles
                                      /\ sk[call[t].handle].life # "none"
  /\ \A t \in Publishers : /\ call[t].handle \notin undelivered
                           /\ sk[call[t].handle].fd = Null
  /\ \A t \in Users : /\ call[t].fd \in Fds
                      /\ call[t].op = "clear" =>
                           sk[call[t].handle].life \in {"closing", "gone"} \/ down

\* Nobody else knows the handle of a socket being published.
Private ==
  \A t \in Publishers :
    /\ \A s \in Publishers \cup Users : call[s].handle = call[t].handle => s = t
    /\ call[t].op = "reserve" => \A f \in Fds : fdTable[f].handle # call[t].handle
    /\ call[t].op # "reserve" => call[t].fd \in Fds /\ Names(call[t].fd, call[t].handle)

\* Entries name sockets that were created; an unused one is blank.
Entries ==
  /\ \A f \in Fds : IF fdTable[f].handle = Null THEN fdTable[f].ready = "none"
                    ELSE /\ sk[fdTable[f].handle].life # "none"
                         /\ fdTable[f].handle \notin undelivered
  /\ \A h \in undelivered : sk[h].life # "none"
  /\ \A h \in Handles : sk[h].life = "none" => sk[h].fd = Null

FdInv == TypeOK /\ Locals /\ Private /\ Entries /\ TableExact /\ NoOrphan
=============================================================================
