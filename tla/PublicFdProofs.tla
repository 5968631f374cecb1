--------------------------- MODULE PublicFdProofs ---------------------------
(***************************************************************************)
(* Proofs about the descriptor table (PublicFd), for any number of         *)
(* threads, descriptors and sockets: FdStepKept and FdStepWithdraws, from  *)
(* which NepollProofs concludes.                                           *)
(*                                                                         *)
(* Most steps of the table move no handle: they are Quiet, and QuietKeeps  *)
(* is proved once for all of them.  NewSocket, Reserve, Publish, Unpublish *)
(* and Clear, which give handles away or take them back, are proved apart. *)
(***************************************************************************)
EXTENDS PublicFd, NaturalsInduction, WellFoundedInduction, TLAPS

Entry  == [handle : Handles \cup {Null}, ready : Masks]
Socket == [life : {"none", "open", "closing", "gone"}, ready : Masks, fd : Fds \cup {Null}]
Local  == [op : Ops, fd : Fds \cup {Null}, handle : Handles \cup {Null}]

\* The lowest unused entry is an unused entry.
LEMMA MinLemma ==
  ASSUME NEW S \in SUBSET Fds, S # {}
  PROVE  Min(S) \in S
<1>1. S \subseteq Nat
  BY FdAssumption DEF Fds
<1>2. PICK x \in S : \A y \in S : ~(<<y, x>> \in OpToRel(<, Nat))
  BY Zenon, <1>1, NatLessThanWellFounded, WFMin
<1>3. \A y \in S : x <= y
  <2>1. OpToRel(<, Nat) = {ss \in Nat \X Nat : ss[1] < ss[2]}
    BY Zenon DEF OpToRel
  <2>2. TAKE y \in S
  <2>3. <<y, x>> \notin {ss \in Nat \X Nat : ss[1] < ss[2]}
    BY Zenon, <1>2, <2>1
  <2> QED BY SMT, <1>1, <2>3
<1> QED BY Zenon, <1>3 DEF Min

\* A socket never comes back to life, and a step never makes one.
Ages ==
  \A h \in Handles :
    /\ sk'[h].life = "none" <=> sk[h].life = "none"
    /\ sk[h].life \in {"closing", "gone"} => sk'[h].life \in {"closing", "gone"}
    /\ sk'[h].fd \in {sk[h].fd, Null}

\* Readiness is stored under handles that stay where they are.
Stores ==
  /\ fdTable' \in [Fds -> Entry]
  /\ \A f \in Fds : /\ fdTable'[f].handle = fdTable[f].handle
                    /\ fdTable[f].handle = Null => fdTable'[f].ready = fdTable[f].ready

\* A thread returns, starts a call, or goes on with the handle it has.
Calls ==
  \A t \in Threads :
    \/ call'[t] = call[t]
    \/ call'[t].op \in {"idle", "create", "notify"} /\ t \notin Publishers
    \/ /\ call[t].op = "publish"
       /\ call'[t] = [call[t] EXCEPT !.op = "unpublish"]
    \/ /\ t \notin Publishers
       /\ call'[t].op \in {"check", "checked", "checkAccept", "accept", "close", "clear"}
       /\ \/ t \in Users /\ call'[t].handle = call[t].handle /\ call'[t].fd = call[t].fd
          \/ call'[t].fd \in known /\ call'[t].handle = fdTable[call'[t].fd].handle
       /\ call'[t].op = "clear" => sk'[call'[t].handle].life \in {"closing", "gone"} \/ down'

\* A step that moves no handle.
Quiet ==
  /\ sk' \in [Handles -> Socket] /\ Ages /\ Stores
  /\ call' \in [Threads -> Local] /\ Calls
  /\ undelivered' \subseteq undelivered
  /\ \A h \in undelivered \ undelivered' : sk'[h].life # "open"
  /\ known' = known /\ down' \in BOOLEAN /\ (down => down')
  /\ notifying' \in BOOLEAN /\ moved' \in [Waiters -> BOOLEAN]

\* The state of the table without its steps' effect on it.
LEMMA TypeFacts ==
  ASSUME TypeOK
  PROVE  /\ fdTable \in [Fds -> Entry] /\ sk \in [Handles -> Socket]
         /\ call \in [Threads -> Local]
  BY Zenon DEF TypeOK, Entry, Socket, Local

\* Threads that publish go on publishing the same socket.
LEMMA PublishersKept ==
  ASSUME FdInv, Quiet, NEW t \in Threads
  PROVE  /\ t \in Publishers' <=> t \in Publishers
         /\ t \in Publishers => /\ call'[t].handle = call[t].handle
                                /\ call'[t].fd = call[t].fd
                                /\ call'[t].op = "reserve" <=> call[t].op = "reserve"
<1>1. call \in [Threads -> Local]
  BY Zenon, TypeFacts DEF FdInv
<1>2. CASE call'[t] = call[t]
  BY Zenon, <1>2 DEF Publishers
<1>3. CASE call[t].op = "publish" /\ call'[t] = [call[t] EXCEPT !.op = "unpublish"]
  <2>1. /\ call'[t].op = "unpublish" /\ call'[t].handle = call[t].handle
        /\ call'[t].fd = call[t].fd
    BY Zenon, <1>1, <1>3 DEF Local
  <2> QED BY Zenon, <1>3, <2>1 DEF Publishers
<1>4. CASE /\ t \notin Publishers
           /\ call'[t].op \in {"idle", "create", "notify", "check", "checked", "checkAccept",
                               "accept", "close", "clear"}
  BY Zenon, <1>4 DEF Publishers
<1> QED BY Zenon, <1>2, <1>3, <1>4 DEF Quiet, Calls

\* A thread that uses a handle has it from before, or from the table.
LEMMA UsersKept ==
  ASSUME FdInv, Quiet, NEW t \in Users'
  PROVE  /\ t \in Threads
         /\ \/ t \in Users /\ call'[t].handle = call[t].handle /\ call'[t].fd = call[t].fd
            \/ call'[t].fd \in known /\ call'[t].handle = fdTable[call'[t].fd].handle
         /\ call'[t].op = "clear" =>
              \/ call[t].op = "clear"
              \/ sk'[call'[t].handle].life \in {"closing", "gone"} \/ down'
<1>1. call \in [Threads -> Local] /\ t \in Threads
  BY Zenon, TypeFacts DEF FdInv, Users
<1>2. CASE call'[t] = call[t]
  BY Zenon, <1>1, <1>2 DEF Users
<1>3. CASE call[t].op = "publish" /\ call'[t] = [call[t] EXCEPT !.op = "unpublish"]
  <2>1. call'[t].op = "unpublish"
    BY Zenon, <1>1, <1>3 DEF Local
  <2> QED BY Zenon, <2>1 DEF Users
<1>4. CASE call'[t].op \in {"idle", "create", "notify"}
  BY Zenon, <1>4 DEF Users
<1> QED BY Zenon, <1>1, <1>2, <1>3, <1>4 DEF Quiet, Calls

\* A quiet step preserves the invariant of the table.
LEMMA QuietKeeps ==
  ASSUME FdInv, Quiet
  PROVE  FdInv'
<1>1. /\ TypeOK /\ Locals /\ Private /\ Entries /\ TableExact /\ NoOrphan
      /\ fdTable \in [Fds -> Entry] /\ sk \in [Handles -> Socket]
      /\ call \in [Threads -> Local]
  BY Zenon, TypeFacts DEF FdInv
<1>2. /\ undelivered \subseteq Handles /\ known \subseteq Fds
  BY Zenon, <1>1 DEF TypeOK
<1>3. TypeOK'
  <2>1. undelivered' \subseteq Handles /\ known' \subseteq Fds
    BY Zenon, <1>2 DEF Quiet
  <2> QED BY Zenon, <2>1 DEF TypeOK, Quiet, Stores, Entry, Socket, Local
<1>4. \A f \in Fds : fdTable'[f].handle = fdTable[f].handle
  BY Zenon DEF Quiet, Stores
<1>5. Publishers' = Publishers /\ Publishers \subseteq Threads
  BY Zenon, PublishersKept DEF Publishers
<1>6. \A t \in Publishers : /\ call'[t].handle = call[t].handle
                            /\ call'[t].fd = call[t].fd
                            /\ call'[t].op = "reserve" <=> call[t].op = "reserve"
  BY Zenon, <1>5, PublishersKept
<1>7. ASSUME NEW f \in known
      PROVE  /\ f \in Fds /\ fdTable[f].handle \in Handles
             /\ sk[fdTable[f].handle].life # "none" /\ Publishing(f) = {}
  <2>1. f \in Fds /\ fdTable[f].handle # Null /\ Publishing(f) = {}
    BY Zenon, <1>1, <1>2, <1>7 DEF TableExact
  <2>2. fdTable[f].handle \in Handles \cup {Null}
    BY Zenon, <1>1, <2>1 DEF Entry
  <2> QED BY Zenon, <1>1, <2>1, <2>2 DEF Entries
<1>8. ASSUME NEW t \in Users'
      PROVE  /\ call'[t].handle \in Handles /\ sk[call'[t].handle].life # "none"
             /\ call'[t].fd \in Fds
  BY Zenon, <1>1, <1>7, UsersKept DEF Locals
<1>9. \A h \in Handles : sk[h].life # "none" => sk'[h].life # "none"
  BY Zenon DEF Quiet, Ages
<1>10. Locals'
  <2>1. ASSUME NEW t \in Publishers'
        PROVE  /\ call'[t].handle \in Handles /\ sk'[call'[t].handle].life # "none"
               /\ call'[t].handle \notin undelivered' /\ sk'[call'[t].handle].fd = Null
    <3>1. /\ t \in Publishers /\ call'[t].handle = call[t].handle
      BY Zenon, <1>5, <1>6
    <3>2. /\ call[t].handle \in Handles /\ sk[call[t].handle].life # "none"
          /\ call[t].handle \notin undelivered /\ sk[call[t].handle].fd = Null
      BY Zenon, <1>1, <3>1 DEF Locals
    <3> QED BY Zenon, <3>1, <3>2, <1>9 DEF Quiet, Ages
  <2>2. ASSUME NEW t \in Users', call'[t].op = "clear"
        PROVE  sk'[call'[t].handle].life \in {"closing", "gone"} \/ down'
    <3>1. CASE sk'[call'[t].handle].life \in {"closing", "gone"} \/ down'
      BY Zenon, <3>1
    <3>2. CASE call[t].op = "clear"
      <4>1. t \in Users
        BY Zenon, <3>2, UsersKept DEF Users
      <4>2. call[t].handle \in Handles
            /\ (sk[call[t].handle].life \in {"closing", "gone"} \/ down)
        BY Zenon, <1>1, <3>2, <4>1 DEF Locals
      <4>3. CASE call'[t].handle = call[t].handle
        BY Zenon, <4>2, <4>3 DEF Quiet, Ages
      <4>4. CASE call'[t] = call[t]
        BY Zenon, <4>2, <4>4 DEF Quiet, Ages
      <4> QED BY Zenon, <2>2, <3>2, <4>1, <4>3, <4>4 DEF Quiet, Calls, Users, Publishers
    <3> QED BY Zenon, <2>2, <3>1, <3>2, UsersKept
  <2> QED BY Zenon, <1>8, <1>9, <2>1, <2>2 DEF Locals
<1>11. Private'
  <2> SUFFICES ASSUME NEW t \in Publishers
               PROVE  /\ \A s \in Publishers' \cup Users' :
                           call'[s].handle = call'[t].handle => s = t
                      /\ call'[t].op = "reserve" =>
                           \A f \in Fds : fdTable'[f].handle # call'[t].handle
                      /\ call'[t].op # "reserve" =>
                           call'[t].fd \in Fds /\ Names(call[t].fd, call[t].handle)'
    <3> HIDE DEF Names
    <3> QED BY Zenon, <1>5, <1>6 DEF Private
  <2>1. /\ call[t].op = "reserve" => \A f \in Fds : fdTable[f].handle # call[t].handle
        /\ call[t].op # "reserve" => call[t].fd \in Fds /\ Names(call[t].fd, call[t].handle)
    BY Zenon, <1>1 DEF Private
  <2>2. ASSUME NEW s \in Publishers' \cup Users', call'[s].handle = call[t].handle
        PROVE  s = t
    <3>1. CASE s \in Publishers
      BY Zenon, <1>1, <1>6, <2>2, <3>1 DEF Private
    <3>2. CASE s \in Users /\ call'[s].handle = call[s].handle
      BY Zenon, <1>1, <2>2, <3>2 DEF Private
    <3>3. ASSUME call'[s].fd \in known, call'[s].handle = fdTable[call'[s].fd].handle
          PROVE  FALSE
      <4> DEFINE f == call'[s].fd
      <4>1. f \in Fds /\ Publishing(f) = {} /\ Names(f, call[t].handle)
        BY Zenon, <1>7, <2>2, <3>3 DEF Names
      <4>2. call[t].op # "reserve"
        BY Zenon, <2>1, <4>1 DEF Names
      <4>3. call[t].fd \in Fds /\ Names(call[t].fd, call[t].handle) /\ call[t].handle # Null
        <5>1. call[t].handle \in Handles
          BY Zenon, <1>1 DEF Locals
        <5>2. call[t].handle # Null
          BY <5>1, FdAssumption DEF Handles
        <5> QED BY Zenon, <2>1, <4>2, <5>2
      <4>4. call[t].fd = f
        BY Zenon, <1>1, <4>1, <4>3 DEF TableExact, Names
      <4> QED BY Zenon, <1>5, <4>1, <4>2, <4>4 DEF Publishing, Publishers
    <3> QED BY Zenon, <1>5, <3>1, <3>2, <3>3, UsersKept
  <2> QED BY Zenon, <1>4, <1>6, <2>1, <2>2 DEF Names
<1>12. Entries'
  <2>1. ASSUME NEW f \in Fds
        PROVE  IF fdTable'[f].handle = Null THEN fdTable'[f].ready = "none"
               ELSE /\ sk'[fdTable'[f].handle].life # "none"
                    /\ fdTable'[f].handle \notin undelivered'
    <3>1. CASE fdTable[f].handle = Null
      BY Zenon, <1>1, <3>1 DEF Quiet, Stores, Entries
    <3>2. CASE fdTable[f].handle # Null
      <4>1. fdTable[f].handle \in Handles
        BY Zenon, <1>1, <3>2 DEF Entry
      <4> QED BY Zenon, <1>1, <1>4, <1>9, <3>2, <4>1 DEF Quiet, Entries
    <3> QED BY Zenon, <3>1, <3>2
  <2>2. \A h \in undelivered' : sk'[h].life # "none"
    BY Zenon, <1>1, <1>2, <1>9 DEF Quiet, Entries
  <2>3. \A h \in Handles : sk'[h].life = "none" => sk'[h].fd = Null
    BY Zenon, <1>1 DEF Quiet, Ages, Entries
  <2> QED BY Zenon, <2>1, <2>2, <2>3 DEF Entries
<1>13. TableExact'
  <2>1. \A f \in Fds : Publishing(f)' = Publishing(f)
    <3>1. \A f \in Fds, t \in Threads : t \in Publishing(f)' <=> t \in Publishing(f)
      BY Zenon, <1>5, <1>6 DEF Publishing, Publishers
    <3> QED BY Zenon, <3>1 DEF Publishing
  <2>2. known' = known
    BY Zenon DEF Quiet
  <2>3. ASSUME NEW f \in Fds
        PROVE  /\ (fdTable[f].handle # Null)' <=> (f \in known \/ Publishing(f) # {})'
               /\ (\A s, t \in Publishing(f) : s = t)'
               /\ (f \in known => Publishing(f) = {})'
    <3>1. /\ fdTable[f].handle # Null <=> f \in known \/ Publishing(f) # {}
          /\ \A s, t \in Publishing(f) : s = t
          /\ f \in known => Publishing(f) = {}
      BY Zenon, <1>1 DEF TableExact
    <3>2. /\ fdTable'[f].handle = fdTable[f].handle /\ Publishing(f)' = Publishing(f)
      BY Zenon, <1>4, <2>1
    <3> HIDE DEF Publishing
    <3> QED BY Zenon, <2>2, <3>1, <3>2
  <2>4. \A f, g \in Fds : fdTable'[f].handle = fdTable'[g].handle
                          => f = g \/ fdTable'[f].handle = Null
    BY Zenon, <1>1, <1>4 DEF TableExact
  <2> QED BY Zenon, <2>3, <2>4 DEF TableExact
<1>14. NoOrphan'
  <2> SUFFICES ASSUME NEW h \in Handles, sk'[h].life = "open", ~down'
               PROVE  \/ \E f \in Fds : fdTable'[f].handle = h
                      \/ \E t \in Threads : call'[t].op = "reserve" /\ call'[t].handle = h
                      \/ h \in undelivered'
    BY Zenon DEF NoOrphan
  <2>1. sk[h].life = "open" /\ ~down
    <3>1. sk[h].life \in {"none", "open", "closing", "gone"}
      BY Zenon, <1>1 DEF Socket
    <3>2. "open" \notin {"none", "closing", "gone"}
      BY Zenon
    <3> QED BY Zenon, <3>1, <3>2 DEF Quiet, Ages
  <2>2. CASE h \in undelivered
    BY Zenon, <2>2 DEF Quiet
  <2>3. CASE \E t \in Threads : call[t].op = "reserve" /\ call[t].handle = h
    BY Zenon, <1>5, <1>6, <2>3 DEF Publishers
  <2> QED BY Zenon, <1>1, <1>4, <2>1, <2>2, <2>3 DEF NoOrphan
<1> QED BY Zenon, <1>3, <1>10, <1>11, <1>12, <1>13, <1>14 DEF FdInv

\* What socket_public_refresh does: it moves no handle, announces every change
\* of the table, and leaves the readiness of every entry current.
LEMMA RefreshLemma ==
  ASSUME FdInv, ReadinessShown, NEW h \in Handles, NEW s \in Socket, Refresh(h, s),
         Resolves(h), s.fd = sk[h].fd \/ (s.fd \in Fds /\ Names(s.fd, h))
  PROVE  /\ Stores /\ ReadinessShown'
         /\ sk' \in [Handles -> Socket] /\ sk'[h] = s
         /\ \A g \in Handles : g # h => sk'[g] = sk[g]
         /\ notifying' \in BOOLEAN
         /\ fdTable' = fdTable \/ notifying'
<1>1. /\ fdTable \in [Fds -> Entry] /\ sk \in [Handles -> Socket] /\ Null \notin Handles
      /\ s.fd \in Fds \cup {Null} /\ notifying \in BOOLEAN /\ TableExact
  <2>1. Null \notin Handles
    BY FdAssumption DEF Handles
  <2>2. s.fd \in Fds \cup {Null}
    BY Zenon DEF Socket
  <2> QED BY Zenon, <2>1, <2>2, TypeFacts DEF FdInv, TypeOK
<1>2. MaskOf(s) \in Masks
  <2>1. s.ready \in Masks
    BY Zenon DEF Socket
  <2> QED BY Zenon, <2>1 DEF MaskOf, Masks
<1>3. /\ sk' \in [Handles -> Socket] /\ sk'[h] = s
      /\ \A g \in Handles : g # h => sk'[g] = sk[g]
  BY Zenon, <1>1 DEF Refresh
<1>4. CASE s.fd # Null /\ Names(s.fd, h)
  <2>1. /\ fdTable' = [fdTable EXCEPT ![s.fd].ready = MaskOf(s)]
        /\ notifying' = (fdTable[s.fd].ready # MaskOf(s))
        /\ s.fd \in Fds
    BY Zenon, <1>1, <1>4 DEF Refresh
  <2>2. /\ fdTable' \in [Fds -> Entry]
        /\ fdTable'[s.fd].handle = fdTable[s.fd].handle
        /\ fdTable'[s.fd].ready = MaskOf(s)
    BY Zenon, <1>1, <1>2, <2>1 DEF Entry
  <2>3. \A f \in Fds : f # s.fd => fdTable'[f] = fdTable[f]
    BY Zenon, <1>1, <2>1
  <2>4. fdTable[s.fd].handle = h
    BY Zenon, <1>4 DEF Names
  <2>5. Stores
    <3>1. h # Null
      BY Zenon, <1>1
    <3> QED BY Zenon, <2>2, <2>3, <2>4, <3>1 DEF Stores
  <2>6. fdTable' = fdTable \/ notifying'
    <3>1. CASE fdTable[s.fd].ready = MaskOf(s)
      <4>1. fdTable'[s.fd] = fdTable[s.fd]
        BY Zenon, <1>1, <2>1, <2>2, <3>1 DEF Entry
      <4>2. \A f \in Fds : fdTable'[f] = fdTable[f]
        BY Zenon, <2>3, <4>1
      <4> QED BY SMT, <1>1, <2>2, <4>2
    <3> QED BY Zenon, <2>1, <3>1
  <2>7. ReadinessShown'
    <3> SUFFICES ASSUME NEW f \in Fds, fdTable'[f].handle # Null,
                        Resolves(fdTable[f].handle)'
                 PROVE  Shows(fdTable'[f].ready, sk'[fdTable'[f].handle], f)
      BY Zenon DEF ReadinessShown
    <3>1. CASE f = s.fd
      BY Zenon, <1>3, <2>2, <2>4, <3>1 DEF Shows
    <3>2. CASE f # s.fd
      <4>1. fdTable'[f] = fdTable[f] /\ fdTable[f].handle # h
        BY Zenon, <1>1, <2>1, <2>3, <2>4, <3>2 DEF TableExact
      <4>2. fdTable[f].handle \in Handles
        <5>1. fdTable[f].handle \in Handles \cup {Null}
          BY Zenon, <1>1 DEF Entry
        <5> QED BY Zenon, <4>1, <5>1
      <4>3. sk'[fdTable[f].handle] = sk[fdTable[f].handle]
        BY Zenon, <1>3, <4>1, <4>2
      <4>4. Resolves(fdTable[f].handle)
        BY Zenon, <4>1, <4>3 DEF Resolves
      <4> QED BY Zenon, <4>1, <4>3, <4>4 DEF ReadinessShown
    <3> QED BY Zenon, <3>1, <3>2
  <2>8. notifying' \in BOOLEAN
    BY Zenon, <2>1
  <2> QED BY Zenon, <1>3, <2>5, <2>6, <2>7, <2>8
<1>5. CASE ~(s.fd # Null /\ Names(s.fd, h))
  <2>1. fdTable' = fdTable /\ notifying' = notifying
    BY Zenon, <1>5 DEF Refresh
  <2>2. s.fd = sk[h].fd
    <3>1. s.fd \in Fds => s.fd # Null
      BY FdAssumption DEF Fds
    <3> QED BY Zenon, <1>5, <3>1
  <2>3. ReadinessShown'
    <3> SUFFICES ASSUME NEW f \in Fds, fdTable[f].handle # Null,
                        Resolves(fdTable[f].handle)'
                 PROVE  Shows(fdTable[f].ready, sk'[fdTable[f].handle], f)
      BY Zenon, <2>1 DEF ReadinessShown
    <3>1. CASE fdTable[f].handle = h
      <4>1. s.fd # f
        <5>1. f # Null
          BY FdAssumption DEF Fds
        <5> QED BY Zenon, <1>5, <3>1, <5>1 DEF Names
      <4>2. fdTable[f].ready = "none"
        BY Zenon, <2>2, <3>1, <4>1 DEF ReadinessShown, Shows
      <4> QED BY Zenon, <1>3, <3>1, <4>1, <4>2 DEF Shows
    <3>2. CASE fdTable[f].handle # h
      <4>1. fdTable[f].handle \in Handles
        <5>1. fdTable[f].handle \in Handles \cup {Null}
          BY Zenon, <1>1 DEF Entry
        <5> QED BY Zenon, <5>1
      <4>2. sk'[fdTable[f].handle] = sk[fdTable[f].handle]
        BY Zenon, <1>3, <3>2, <4>1
      <4>3. Resolves(fdTable[f].handle)
        BY Zenon, <2>1, <4>2 DEF Resolves
      <4> QED BY Zenon, <4>2, <4>3 DEF ReadinessShown
    <3> QED BY Zenon, <3>1, <3>2
  <2> QED BY Zenon, <1>1, <1>3, <2>1, <2>3 DEF Stores
<1> QED BY Zenon, <1>4, <1>5

\* What a step of the owner does to the sockets and to the readiness they show.
Tended ==
  /\ sk' \in [Handles -> Socket] /\ Ages /\ Stores /\ ReadinessShown'
  /\ notifying' \in BOOLEAN
  /\ fdTable' = fdTable \/ notifying'

LEMMA SameTended ==
  ASSUME FdInv, ReadinessShown, UNCHANGED <<sk, fdTable, notifying>>
  PROVE  Tended
<1>1. /\ fdTable \in [Fds -> Entry] /\ sk \in [Handles -> Socket] /\ notifying \in BOOLEAN
  BY Zenon, TypeFacts DEF FdInv, TypeOK
<1>2. fdTable' = fdTable /\ sk' = sk /\ notifying' = notifying
  BY Zenon
<1>3. ReadinessShown'
  BY Zenon, <1>2 DEF ReadinessShown, Resolves
<1> QED BY Zenon, <1>1, <1>2, <1>3 DEF Tended, Ages, Stores

\* The readiness of a socket is recomputed, or its close begins.
LEMMA RefreshTended ==
  ASSUME FdInv, ReadinessShown, NEW h \in Handles, NEW s \in Socket, Refresh(h, s),
         Resolves(h), s.fd = sk[h].fd, s.life = sk[h].life \/ s.life = "closing"
  PROVE  Tended /\ sk'[h] = s
<1>1. /\ Stores /\ ReadinessShown' /\ sk' \in [Handles -> Socket] /\ sk'[h] = s
      /\ \A g \in Handles : g # h => sk'[g] = sk[g]
      /\ notifying' \in BOOLEAN /\ (fdTable' = fdTable \/ notifying')
  BY Zenon, RefreshLemma
<1>2. sk[h].life \in {"open", "closing"} /\ "none" \notin {"open", "closing"}
  BY Zenon DEF Resolves
<1>3. Ages
  <2>1. ASSUME NEW g \in Handles
        PROVE  /\ sk'[g].life = "none" <=> sk[g].life = "none"
               /\ sk[g].life \in {"closing", "gone"} => sk'[g].life \in {"closing", "gone"}
               /\ sk'[g].fd \in {sk[g].fd, Null}
    <3>1. CASE g # h
      BY Zenon, <1>1, <3>1
    <3>2. CASE g = h
      BY Zenon, <1>1, <1>2, <3>2
    <3> QED BY Zenon, <3>1, <3>2
  <2> QED BY Zenon, <2>1 DEF Ages
<1> QED BY Zenon, <1>1, <1>3 DEF Tended

\* A socket is freed: its entry, if any, keeps the last readiness.
LEMMA GoneTended ==
  ASSUME FdInv, ReadinessShown, NEW h \in Handles, Resolves(h),
         sk' = [sk EXCEPT ![h] = Gone], UNCHANGED <<fdTable, notifying>>
  PROVE  Tended /\ sk'[h] = Gone
<1>1. /\ fdTable \in [Fds -> Entry] /\ sk \in [Handles -> Socket] /\ notifying \in BOOLEAN
      /\ fdTable' = fdTable /\ notifying' = notifying
  BY Zenon, TypeFacts DEF FdInv, TypeOK
<1>2. Gone \in Socket /\ Gone.life = "gone" /\ Gone.fd = Null
  BY Zenon DEF Gone, Socket, Masks
<1>3. /\ sk' \in [Handles -> Socket] /\ sk'[h] = Gone
      /\ \A g \in Handles : g # h => sk'[g] = sk[g]
  BY Zenon, <1>1, <1>2
<1>4. sk[h].life \in {"open", "closing"}
  BY Zenon DEF Resolves
<1>5. Ages
  <2>1. ASSUME NEW g \in Handles
        PROVE  /\ sk'[g].life = "none" <=> sk[g].life = "none"
               /\ sk[g].life \in {"closing", "gone"} => sk'[g].life \in {"closing", "gone"}
               /\ sk'[g].fd \in {sk[g].fd, Null}
    <3>1. CASE g # h
      BY Zenon, <1>3, <3>1
    <3>2. CASE g = h
      BY Zenon, <1>2, <1>3, <1>4, <3>2
    <3> QED BY Zenon, <3>1, <3>2
  <2> QED BY Zenon, <2>1 DEF Ages
<1>6. ReadinessShown'
  <2> SUFFICES ASSUME NEW f \in Fds, fdTable[f].handle # Null,
                      Resolves(fdTable[f].handle)'
               PROVE  Shows(fdTable[f].ready, sk'[fdTable[f].handle], f)
    BY Zenon, <1>1 DEF ReadinessShown
  <2>1. fdTable[f].handle \in Handles
    <3>1. fdTable[f].handle \in Handles \cup {Null}
      BY Zenon, <1>1 DEF Entry
    <3> QED BY Zenon, <3>1
  <2>2. fdTable[f].handle # h
    <3>1. ~(sk'[h].life \in {"open", "closing"})
      BY Zenon, <1>2, <1>3
    <3> QED BY Zenon, <1>1, <3>1 DEF Resolves
  <2>3. sk'[fdTable[f].handle] = sk[fdTable[f].handle]
    BY Zenon, <1>3, <2>1, <2>2
  <2>4. Resolves(fdTable[f].handle)
    BY Zenon, <1>1, <2>3 DEF Resolves
  <2> QED BY Zenon, <2>3, <2>4 DEF ReadinessShown
<1> QED BY Zenon, <1>1, <1>3, <1>5, <1>6 DEF Tended, Stores

\* Readiness that is used up behind the table: "read" may stay on show.
LEMMA UsedUpTended ==
  ASSUME FdInv, ReadinessShown, NEW h \in Handles, UsedUp(h)
  PROVE  Tended
<1>1. /\ fdTable \in [Fds -> Entry] /\ sk \in [Handles -> Socket] /\ notifying \in BOOLEAN
      /\ fdTable' = fdTable /\ notifying' = notifying
  BY Zenon, TypeFacts DEF FdInv, TypeOK, UsedUp
<1>2. /\ sk[h].life = "open" /\ sk[h].ready = "read"
      /\ sk' = [sk EXCEPT ![h].ready = "none"]
  BY Zenon DEF UsedUp, Accepts
<1>3. /\ sk' \in [Handles -> Socket] /\ sk'[h].life = "open" /\ sk'[h].ready = "none"
      /\ sk'[h].fd = sk[h].fd
      /\ \A g \in Handles : g # h => sk'[g] = sk[g]
  BY Zenon, <1>1, <1>2 DEF Socket, Masks
<1>4. Ages
  BY Zenon, <1>2, <1>3 DEF Ages
<1>5. ReadinessShown'
  <2> SUFFICES ASSUME NEW f \in Fds, fdTable[f].handle # Null,
                      Resolves(fdTable[f].handle)'
               PROVE  Shows(fdTable[f].ready, sk'[fdTable[f].handle], f)
    BY Zenon, <1>1 DEF ReadinessShown
  <2>1. fdTable[f].handle \in Handles
    <3>1. fdTable[f].handle \in Handles \cup {Null}
      BY Zenon, <1>1 DEF Entry
    <3> QED BY Zenon, <3>1
  <2>2. CASE fdTable[f].handle = h
    <3>1. Shows(fdTable[f].ready, sk[h], f)
      BY Zenon, <1>2, <2>2 DEF ReadinessShown, Resolves
    <3>2. MaskOf(sk[h]) = "read" /\ MaskOf(sk'[h]) = "none"
      BY Zenon, <1>2, <1>3 DEF MaskOf
    <3> QED BY Zenon, <1>3, <2>2, <3>1, <3>2 DEF Shows
  <2>3. CASE fdTable[f].handle # h
    <3>1. sk'[fdTable[f].handle] = sk[fdTable[f].handle]
      BY Zenon, <1>3, <2>1, <2>3
    <3>2. Resolves(fdTable[f].handle)
      BY Zenon, <1>1, <3>1 DEF Resolves
    <3> QED BY Zenon, <3>1, <3>2 DEF ReadinessShown
  <2> QED BY Zenon, <2>2, <2>3
<1> QED BY Zenon, <1>1, <1>3, <1>4, <1>5 DEF Tended, Stores

\* A socket is aborted: its descriptor shows the hangup of what is freed.
LEMMA AbortTended ==
  ASSUME FdInv, ReadinessShown, NEW h \in Handles, Resolves(h), Abort(h)
  PROVE  Tended /\ sk'[h] = Gone
<1>0. PICK e : e = sk[h].fd
  BY Zenon
<1>1. CASE ~(e # Null /\ Names(e, h))
  BY Zenon, <1>0, <1>1, GoneTended DEF Abort
<1>2. CASE e # Null /\ Names(e, h)
  <2>1. /\ fdTable \in [Fds -> Entry] /\ sk \in [Handles -> Socket] /\ TableExact
    BY Zenon, TypeFacts DEF FdInv
  <2>2. e \in Fds /\ fdTable[e].handle = h
    BY Zenon, <1>0, <1>2, <2>1 DEF Socket, Names
  <2>3. /\ sk' = [sk EXCEPT ![h] = Gone] /\ fdTable' = [fdTable EXCEPT ![e].ready = "hup"]
        /\ notifying' = (fdTable[e].ready # "hup")
    BY Zenon, <1>0, <1>2 DEF Abort
  <2>4. /\ fdTable'[e].handle = h /\ fdTable' \in [Fds -> Entry]
        /\ \A f \in Fds : f # e => fdTable'[f] = fdTable[f]
        /\ fdTable[e].ready = "hup" => fdTable' = fdTable
    <3>1. "hup" \in Masks
      BY Zenon DEF Masks
    <3>2. /\ fdTable'[e].handle = h /\ fdTable' \in [Fds -> Entry]
          /\ \A f \in Fds : f # e => fdTable'[f] = fdTable[f]
      BY Zenon, <2>1, <2>2, <2>3, <3>1 DEF Entry
    <3>3. ASSUME fdTable[e].ready = "hup" PROVE fdTable' = fdTable
      BY SMT, <2>1, <2>2, <2>3, <3>3 DEF Entry
    <3> QED BY Zenon, <3>2, <3>3
  <2>5. Gone \in Socket /\ Gone.life = "gone" /\ Gone.fd = Null
    BY Zenon DEF Gone, Socket, Masks
  <2>6. /\ sk' \in [Handles -> Socket] /\ sk'[h] = Gone
        /\ \A g \in Handles : g # h => sk'[g] = sk[g]
    BY Zenon, <2>1, <2>3, <2>5
  <2>7. Ages
    <3>1. sk[h].life \in {"open", "closing"} /\ "none" \notin {"open", "closing"}
      BY Zenon DEF Resolves
    <3> QED BY Zenon, <2>5, <2>6, <3>1 DEF Ages
  <2>8. Stores
    <3>1. h # Null
      BY FdAssumption DEF Handles
    <3> QED BY Zenon, <2>2, <2>4, <3>1 DEF Stores
  <2>9. ReadinessShown'
    <3> SUFFICES ASSUME NEW f \in Fds, fdTable'[f].handle # Null,
                        Resolves(fdTable[f].handle)'
                 PROVE  Shows(fdTable'[f].ready, sk'[fdTable'[f].handle], f)
      BY Zenon DEF ReadinessShown
    <3>1. f # e
      BY Zenon, <2>4, <2>5, <2>6 DEF Resolves
    <3>2. fdTable'[f] = fdTable[f] /\ fdTable[f].handle # h
      BY Zenon, <2>1, <2>2, <2>4, <3>1 DEF TableExact
    <3>3. fdTable[f].handle \in Handles
      <4>1. fdTable[f].handle \in Handles \cup {Null}
        BY Zenon, <2>1 DEF Entry
      <4> QED BY Zenon, <3>2, <4>1
    <3>4. sk'[fdTable[f].handle] = sk[fdTable[f].handle]
      BY Zenon, <2>6, <3>2, <3>3
    <3>5. Resolves(fdTable[f].handle)
      BY Zenon, <3>2, <3>4 DEF Resolves
    <3> QED BY Zenon, <3>2, <3>4, <3>5 DEF ReadinessShown
  <2>10. notifying' \in BOOLEAN /\ (fdTable' = fdTable \/ notifying')
    BY Zenon, <2>3, <2>4
  <2> QED BY Zenon, <2>6, <2>7, <2>8, <2>9, <2>10 DEF Tended
<1> QED BY Zenon, <1>1, <1>2

\* socket_owner_complete of a refused command, and the transport's close.
LEMMA OwnerTended ==
  ASSUME FdInv, ReadinessShown, NEW h \in Handles
  PROVE  /\ Refused(h) => Tended
         /\ Accepts(h) /\ CloseSocket(h) => Tended /\ sk'[h].life \in {"closing", "gone"}
         /\ \A m \in Masks : Accepts(h) /\ Refresh(h, [sk[h] EXCEPT !.ready = m]) => Tended
         /\ Accepts(h) /\ Abort(h) => Tended
         /\ Resolves(h) /\ Refresh(h, sk[h]) => Tended
<1>1. sk \in [Handles -> Socket]
  BY Zenon, TypeFacts DEF FdInv
<1>2. Accepts(h) => Resolves(h)
  BY Zenon DEF Accepts, Resolves
<1>3. Resolves(h) /\ Refresh(h, sk[h]) => Tended
  <2>1. sk[h] \in Socket
    BY Zenon, <1>1
  <2> QED BY Zenon, <2>1, RefreshTended
<1>4. Refused(h) => Tended
  BY Zenon, <1>3, SameTended DEF Refused
<1>5. ASSUME NEW m \in Masks, Accepts(h), Refresh(h, [sk[h] EXCEPT !.ready = m])
      PROVE  Tended
  <2> DEFINE s == [sk[h] EXCEPT !.ready = m]
  <2>1. s \in Socket /\ s.fd = sk[h].fd /\ s.life = sk[h].life
    BY Zenon, <1>1 DEF Socket
  <2> HIDE DEF s
  <2> QED BY Zenon, <1>2, <1>5, <2>1, RefreshTended DEF s
<1>6. ASSUME Accepts(h), CloseSocket(h)
      PROVE  Tended /\ sk'[h].life \in {"closing", "gone"}
  <2>1. CASE Refresh(h, Closing(h))
    <3>1. Closing(h) \in Socket /\ Closing(h).fd = sk[h].fd /\ Closing(h).life = "closing"
      BY Zenon, <1>1 DEF Socket, Closing, Masks
    <3> QED BY Zenon, <1>2, <1>6, <2>1, <3>1, RefreshTended
  <2>2. CASE sk' = [sk EXCEPT ![h] = Gone] /\ UNCHANGED <<fdTable, notifying>>
    <3>1. Gone.life = "gone"
      BY Zenon DEF Gone
    <3> QED BY Zenon, <1>2, <1>6, <2>2, <3>1, GoneTended
  <2>3. CASE Abort(h)
    <3>1. Gone.life = "gone"
      BY Zenon DEF Gone
    <3> QED BY Zenon, <1>2, <1>6, <2>3, <3>1, AbortTended
  <2> QED BY Zenon, <1>6, <2>1, <2>2, <2>3 DEF CloseSocket
<1>7. Accepts(h) /\ Abort(h) => Tended
  BY Zenon, <1>2, AbortTended
<1> QED BY Zenon, <1>3, <1>4, <1>5, <1>6, <1>7

-----------------------------------------------------------------------------
(***************************************************************************)
(* The steps that move no handle.                                          *)
(***************************************************************************)

\* Whoever sleeps on the sequence is woken, will be, or has nothing new to see.
Announces ==
  \/ moved' = [w \in Waiters |-> TRUE]
  \/ /\ moved' = moved
     /\ Notified => Notified'
     /\ Notified' \/ \A f \in Fds : fdTable'[f] = fdTable[f] \/ fdTable'[f].ready = "none"

\* What is to be shown of a step that moves no handle.
Harmless == Quiet /\ ReadinessShown' /\ Announces

LEMMA GotoLemma ==
  ASSUME FdInv, NEW t \in Threads, NEW o \in Ops, Goto(t, o)
  PROVE  /\ call' \in [Threads -> Local]
         /\ call'[t] = [call[t] EXCEPT !.op = o] /\ call'[t].op = o
         /\ call'[t].handle = call[t].handle /\ call'[t].fd = call[t].fd
         /\ \A s \in Threads : s # t => call'[s] = call[s]
<1>1. call \in [Threads -> Local]
  BY Zenon, TypeFacts DEF FdInv
<1>2. call' = [call EXCEPT ![t].op = o]
  BY Zenon DEF Goto
<1> QED BY Zenon, <1>1, <1>2 DEF Local

LEMMA ReturnLemma ==
  ASSUME FdInv, NEW t \in Threads, NEW r \in Local, call' = [call EXCEPT ![t] = r]
  PROVE  /\ call' \in [Threads -> Local] /\ call'[t] = r
         /\ \A s \in Threads : s # t => call'[s] = call[s]
<1>1. call \in [Threads -> Local]
  BY Zenon, TypeFacts DEF FdInv
<1> QED BY Zenon, <1>1

LEMMA IdleLemma == Idle \in Local /\ Idle.op = "idle"
  BY Zenon DEF Idle, Local, Ops

\* A step of the owner or of one thread that is not the notification itself.
LEMMA TendedHarmless ==
  ASSUME FdInv, Tended, call' \in [Threads -> Local], Calls,
         \A t \in Threads : call[t].op = "notify" => call'[t].op = "notify",
         notifying => notifying',
         undelivered' \subseteq undelivered,
         \A h \in undelivered \ undelivered' : sk'[h].life # "open",
         known' = known, down' \in BOOLEAN, down => down', moved' = moved
  PROVE  Harmless
<1>1. moved \in [Waiters -> BOOLEAN]
  BY Zenon DEF FdInv, TypeOK
<1>2. Quiet
  BY Zenon, <1>1 DEF Quiet, Tended
<1>3. Notified => Notified'
  BY Zenon DEF Notified
<1>4. Notified' \/ \A f \in Fds : fdTable'[f] = fdTable[f]
  BY Zenon DEF Tended, Notified
<1> QED BY Zenon, <1>2, <1>3, <1>4 DEF Harmless, Announces, Tended

\* The owner's own steps.
LEMMA OwnerHarmless ==
  ASSUME FdInv, ReadinessShown, NEW h \in Handles,
         Event(h) \/ UsedUp(h) \/ Free(h) \/ Reap(h) \/ StopSocket(h)
  PROVE  Harmless
<1>1. /\ call \in [Threads -> Local] /\ sk \in [Handles -> Socket] /\ down \in BOOLEAN
  BY Zenon, TypeFacts DEF FdInv, TypeOK
<1>2. /\ call' = call /\ ~notifying /\ known' = known /\ down' = down /\ moved' = moved
  BY Zenon DEF Event, UsedUp, Free, Reap, StopSocket
<1>3. /\ call' \in [Threads -> Local] /\ Calls
      /\ \A t \in Threads : call[t].op = "notify" => call'[t].op = "notify"
  BY Zenon, <1>1, <1>2 DEF Calls
<1>4. CASE Event(h)
  <2>1. Tended
    <3>1. CASE Accepts(h)
      <4>1. PICK m \in EventMasks : Refresh(h, [sk[h] EXCEPT !.ready = m])
        BY Zenon, <1>4, <3>1 DEF Event
      <4>2. m \in Masks
        BY Zenon, FdAssumption DEF Masks
      <4> QED BY Zenon, <3>1, <4>1, <4>2, OwnerTended
    <3>2. CASE ~Accepts(h)
      BY Zenon, <1>4, <3>2, OwnerTended DEF Event
    <3> QED BY Zenon, <3>1, <3>2
  <2>2. undelivered' = undelivered
    BY Zenon, <1>4 DEF Event
  <2> QED BY Zenon, <1>1, <1>2, <1>3, <2>1, <2>2, TendedHarmless
<1>5. CASE Free(h)
  <2>1. Resolves(h) /\ sk' = [sk EXCEPT ![h] = Gone] /\ UNCHANGED <<fdTable, notifying>>
    BY Zenon, <1>5 DEF Free, Resolves
  <2>2. Tended
    BY Zenon, <2>1, GoneTended
  <2>3. undelivered' = undelivered
    BY Zenon, <1>5 DEF Free
  <2> QED BY Zenon, <1>1, <1>2, <1>3, <2>2, <2>3, TendedHarmless
<1>6. CASE Reap(h)
  <2>1. Tended /\ sk'[h].life # "open"
    <3>1. CASE Accepts(h)
      BY Zenon, <1>6, <3>1, OwnerTended DEF Reap
    <3>2. CASE ~Accepts(h)
      BY Zenon, <1>6, <3>2, SameTended DEF Reap, Accepts
    <3> QED BY Zenon, <3>1, <3>2
  <2>2. undelivered' = undelivered \ {h}
    BY Zenon, <1>6 DEF Reap
  <2> QED BY Zenon, <1>1, <1>2, <1>3, <2>1, <2>2, TendedHarmless
<1>7. CASE StopSocket(h)
  <2>1. Tended
    BY Zenon, <1>7, OwnerTended DEF StopSocket, Accepts, CloseSocket
  <2>2. undelivered' = undelivered
    BY Zenon, <1>7 DEF StopSocket
  <2> QED BY Zenon, <1>1, <1>2, <1>3, <2>1, <2>2, TendedHarmless
<1>8. CASE UsedUp(h)
  <2>1. Tended /\ undelivered' = undelivered
    BY Zenon, <1>8, UsedUpTended DEF UsedUp
  <2> QED BY Zenon, <1>1, <1>2, <1>3, <2>1, TendedHarmless
<1> QED BY Zenon, <1>4, <1>5, <1>6, <1>7, <1>8

\* A thread that is in no call, or has an answer, and the rest of the state.
Elsewhere ==
  /\ undelivered' = undelivered /\ known' = known /\ down' = down /\ moved' = moved

\* One thread moves on; what it was doing was not a notification.
LEMMA ThreadHarmless ==
  ASSUME FdInv, Tended, NEW t \in Threads, notifying => notifying', Elsewhere,
         call' \in [Threads -> Local], \A s \in Threads : s # t => call'[s] = call[s],
         call[t].op # "notify",
         \/ call'[t].op \in {"idle", "create", "notify"} /\ t \notin Publishers
         \/ /\ call[t].op = "publish"
            /\ call'[t] = [call[t] EXCEPT !.op = "unpublish"]
         \/ /\ t \notin Publishers
            /\ call'[t].op \in {"check", "checked", "checkAccept", "accept", "close", "clear"}
            /\ \/ t \in Users /\ call'[t].handle = call[t].handle /\ call'[t].fd = call[t].fd
               \/ call'[t].fd \in known /\ call'[t].handle = fdTable[call'[t].fd].handle
            /\ call'[t].op = "clear" =>
                 sk'[call'[t].handle].life \in {"closing", "gone"} \/ down'
  PROVE  Harmless
<1>1. Calls
  BY Zenon DEF Calls
<1>2. \A s \in Threads : call[s].op = "notify" => call'[s].op = "notify"
  BY Zenon
<1>3. /\ undelivered' \subseteq undelivered /\ known' = known /\ down' \in BOOLEAN
      /\ \A h \in undelivered \ undelivered' : sk'[h].life # "open"
      /\ (down => down') /\ moved' = moved
  BY Zenon DEF FdInv, TypeOK, Elsewhere
<1> QED BY Zenon, <1>1, <1>2, <1>3, TendedHarmless

\* The calls of a thread and what the owner makes of them.
LEMMA CallHarmless ==
  ASSUME FdInv, ReadinessShown, NEW t \in Threads,
         \/ NSocket(t) \/ PublicCall(t) \/ Transfer(t) \/ Close(t) \/ CallFails(t)
         \/ CallDown(t) \/ \E f \in Fds, o \in {"check", "checkAccept", "checked", "close"} :
                             Resolve(t, f, o)
         \/ Publish(t) /\ ~Accepts(call[t].handle)
  PROVE  Harmless
<1> DEFINE h == call[t].handle
<1>1. /\ t \in Users => h \in Handles /\ sk[h].life # "none"
      /\ t \in Publishers => h \in Handles
      /\ call \in [Threads -> Local] /\ sk \in [Handles -> Socket]
      /\ known \subseteq Fds /\ Idle \in Local /\ Idle.op = "idle"
  BY Zenon, TypeFacts, IdleLemma DEF FdInv, Locals, TypeOK
<1>2. {"idle", "create", "notify", "unpublish", "check", "checked", "checkAccept", "accept",
       "close", "clear"} \subseteq Ops
  BY Zenon DEF Ops
<1>3. CASE NSocket(t)
  <2>1. /\ Goto(t, "create") /\ call[t].op = "idle" /\ Elsewhere
        /\ UNCHANGED <<sk, fdTable, notifying>>
    BY Zenon, <1>3 DEF NSocket, Elsewhere
  <2>2. /\ call' \in [Threads -> Local] /\ call'[t].op = "create"
        /\ \A s \in Threads : s # t => call'[s] = call[s]
    BY Zenon, <1>2, <2>1, GotoLemma
  <2>3. Tended /\ t \notin Publishers /\ (notifying => notifying')
    BY Zenon, <2>1, SameTended DEF Publishers
  <2> QED BY Zenon, <2>1, <2>2, <2>3, ThreadHarmless
<1>4. CASE PublicCall(t)
  <2>1. /\ call[t].op \in {"check", "checkAccept"} /\ Elsewhere
        /\ UNCHANGED <<sk, fdTable, notifying>>
        /\ Goto(t, "checked") \/ Goto(t, "accept") \/ Return(t)
    BY Zenon, <1>4 DEF PublicCall, Elsewhere
  <2>2. Tended /\ t \notin Publishers /\ t \in Users /\ (notifying => notifying')
    BY Zenon, <2>1, SameTended DEF Publishers, Users
  <2>3. CASE Return(t)
    <3>1. /\ call' \in [Threads -> Local] /\ call'[t].op = "idle"
          /\ \A s \in Threads : s # t => call'[s] = call[s]
      BY Zenon, <1>1, <2>3, ReturnLemma DEF Return
    <3> QED BY Zenon, <2>1, <2>2, <3>1, ThreadHarmless
  <2>4. CASE \E o \in {"checked", "accept"} : Goto(t, o)
    <3>1. /\ call' \in [Threads -> Local] /\ call'[t].op \in {"checked", "accept"}
          /\ call'[t].handle = call[t].handle /\ call'[t].fd = call[t].fd
          /\ \A s \in Threads : s # t => call'[s] = call[s]
      BY Zenon, <1>2, <2>4, GotoLemma
    <3> QED BY Zenon, <2>1, <2>2, <3>1, ThreadHarmless
  <2> QED BY Zenon, <2>1, <2>3, <2>4
<1>5. CASE Transfer(t)
  <2>1. /\ call[t].op = "checked" /\ Elsewhere /\ Return(t) /\ ~notifying
        /\ IF Accepts(h)
           THEN \E m \in {sk[h].ready, "none"} : Refresh(h, [sk[h] EXCEPT !.ready = m])
           ELSE Refused(h)
    BY Zenon, <1>5 DEF Transfer, Elsewhere
  <2>2. t \in Users /\ t \notin Publishers
    BY Zenon, <2>1 DEF Users, Publishers
  <2>3. {sk[h].ready, "none"} \subseteq Masks
    BY Zenon, <1>1, <2>2 DEF Socket, Masks
  <2>4. Tended
    BY Zenon, <1>1, <2>1, <2>2, <2>3, OwnerTended
  <2>5. /\ call' \in [Threads -> Local] /\ call'[t].op = "idle"
        /\ \A s \in Threads : s # t => call'[s] = call[s]
    BY Zenon, <1>1, <2>1, ReturnLemma DEF Return
  <2> QED BY Zenon, <2>1, <2>2, <2>4, <2>5, ThreadHarmless
<1>6. CASE Close(t)
  <2>1. /\ call[t].op = "close" /\ Elsewhere /\ ~notifying
        /\ \/ Goto(t, "clear") /\ IF Accepts(h) THEN CloseSocket(h) ELSE Refused(h)
           \/ Return(t) /\ Accepts(h) /\ Abort(h)
    BY Zenon, <1>6 DEF Close, Elsewhere
  <2>2. t \in Users /\ t \notin Publishers
    BY Zenon, <2>1 DEF Users, Publishers
  <2>3. CASE Goto(t, "clear") /\ IF Accepts(h) THEN CloseSocket(h) ELSE Refused(h)
    <3>1. /\ call' \in [Threads -> Local] /\ call'[t].op = "clear"
          /\ call'[t].handle = h /\ call'[t].fd = call[t].fd
          /\ \A s \in Threads : s # t => call'[s] = call[s]
      BY Zenon, <1>2, <2>3, GotoLemma
    <3>2. Tended /\ sk'[h].life \in {"closing", "gone"}
      <4>1. CASE Accepts(h)
        BY Zenon, <1>1, <2>2, <2>3, <4>1, OwnerTended
      <4>2. CASE ~Accepts(h)
        <5>1. sk[h].life \in {"none", "open", "closing", "gone"}
          BY Zenon, <1>1, <2>2 DEF Socket
        <5>2. sk[h].life \in {"closing", "gone"}
          BY Zenon, <1>1, <2>2, <4>2, <5>1 DEF Accepts
        <5>3. Tended
          BY Zenon, <1>1, <2>2, <2>3, <4>2, OwnerTended
        <5> QED BY Zenon, <1>1, <2>2, <5>2, <5>3 DEF Tended, Ages
      <4> QED BY Zenon, <4>1, <4>2
    <3> QED BY Zenon, <2>1, <2>2, <3>1, <3>2, ThreadHarmless
  <2>4. CASE Return(t) /\ Accepts(h) /\ Abort(h)
    <3>1. /\ call' \in [Threads -> Local] /\ call'[t].op = "idle"
          /\ \A s \in Threads : s # t => call'[s] = call[s]
      BY Zenon, <1>1, <2>4, ReturnLemma DEF Return
    <3>2. Tended
      BY Zenon, <1>1, <2>2, <2>4, OwnerTended
    <3> QED BY Zenon, <2>1, <2>2, <3>1, <3>2, ThreadHarmless
  <2> QED BY Zenon, <2>1, <2>3, <2>4
<1>7. CASE CallFails(t) \/ CallDown(t)
  <2>1. /\ call[t].op \in {"create", "publish", "checked", "accept", "close"} /\ Elsewhere
        /\ UNCHANGED <<sk, fdTable, notifying>>
    BY Zenon, <1>7 DEF CallFails, CallDown, Elsewhere
  <2>2. \/ call[t].op = "publish" /\ Goto(t, "unpublish")
        \/ call[t].op = "close" /\ Goto(t, "clear") /\ down
        \/ call[t].op # "publish" /\ Return(t)
    BY Zenon, <1>7 DEF CallFails, CallDown
  <2>3. Tended /\ call[t].op # "notify" /\ (notifying => notifying')
    BY Zenon, <2>1, SameTended
  <2>4. CASE call[t].op = "publish" /\ Goto(t, "unpublish")
    <3>1. /\ call' \in [Threads -> Local] /\ call'[t] = [call[t] EXCEPT !.op = "unpublish"]
          /\ \A s \in Threads : s # t => call'[s] = call[s]
      BY Zenon, <1>2, <2>4, GotoLemma
    <3> QED BY Zenon, <2>1, <2>3, <2>4, <3>1, ThreadHarmless
  <2>5. CASE call[t].op = "close" /\ Goto(t, "clear") /\ down
    <3>1. /\ call' \in [Threads -> Local] /\ call'[t].op = "clear"
          /\ call'[t].handle = call[t].handle /\ call'[t].fd = call[t].fd
          /\ \A s \in Threads : s # t => call'[s] = call[s]
      BY Zenon, <1>2, <2>5, GotoLemma
    <3>2. t \in Users /\ t \notin Publishers /\ down'
      BY Zenon, <2>1, <2>5 DEF Users, Publishers, Elsewhere
    <3> QED BY Zenon, <2>1, <2>3, <3>1, <3>2, ThreadHarmless
  <2>6. CASE call[t].op # "publish" /\ Return(t)
    <3>1. /\ call' \in [Threads -> Local] /\ call'[t].op = "idle"
          /\ \A s \in Threads : s # t => call'[s] = call[s]
      BY Zenon, <1>1, <2>6, ReturnLemma DEF Return
    <3>2. t \notin Publishers
      BY Zenon, <2>1, <2>6 DEF Publishers
    <3> QED BY Zenon, <2>1, <2>3, <3>1, <3>2, ThreadHarmless
  <2> QED BY Zenon, <2>2, <2>4, <2>5, <2>6
<1>8. CASE \E f \in Fds, o \in {"check", "checkAccept", "checked", "close"} : Resolve(t, f, o)
  <2>1. PICK f \in Fds, o \in {"check", "checkAccept", "checked", "close"} : Resolve(t, f, o)
    BY Zenon, <1>8
  <2> DEFINE r == [op |-> o, fd |-> f, handle |-> fdTable[f].handle]
  <2>2. /\ call[t].op = "idle" /\ f \in known /\ call' = [call EXCEPT ![t] = r]
        /\ Elsewhere /\ UNCHANGED <<sk, fdTable, notifying>>
    BY Zenon, <2>1 DEF Resolve, Elsewhere
  <2>3. r \in Local /\ r.op = o /\ r.fd = f /\ r.handle = fdTable[f].handle
    <3>1. fdTable \in [Fds -> Entry]
      BY Zenon, TypeFacts DEF FdInv
    <3> QED BY Zenon, <1>2, <3>1 DEF Local, Entry
  <2> HIDE DEF r
  <2>4. /\ call' \in [Threads -> Local] /\ call'[t] = r
        /\ \A s \in Threads : s # t => call'[s] = call[s]
    BY Zenon, <2>2, <2>3, ReturnLemma
  <2>5. /\ call'[t].fd \in known /\ call'[t].handle = fdTable[call'[t].fd].handle
        /\ call'[t].op \in {"check", "checkAccept", "checked", "close"}
        /\ call'[t].op # "clear"
    BY Zenon, <2>2, <2>3, <2>4
  <2>6. Tended /\ t \notin Publishers /\ (notifying => notifying')
    BY Zenon, <2>2, SameTended DEF Publishers
  <2> QED BY Zenon, <2>2, <2>4, <2>5, <2>6, ThreadHarmless
<1>9. CASE Publish(t) /\ ~Accepts(h)
  <2>1. /\ call[t].op = "publish" /\ ~notifying /\ Goto(t, "unpublish") /\ Refused(h)
        /\ Elsewhere
    BY Zenon, <1>9 DEF Publish, Elsewhere
  <2>2. Tended
    BY Zenon, <1>1, <2>1, OwnerTended DEF Publishers
  <2>3. /\ call' \in [Threads -> Local] /\ call'[t] = [call[t] EXCEPT !.op = "unpublish"]
        /\ \A s \in Threads : s # t => call'[s] = call[s]
    BY Zenon, <1>2, <2>1, GotoLemma
  <2> QED BY Zenon, <2>1, <2>2, <2>3, ThreadHarmless
<1> QED BY Zenon, <1>3, <1>4, <1>5, <1>6, <1>7, <1>8, <1>9

-----------------------------------------------------------------------------
(***************************************************************************)
(* The steps that move a handle.                                           *)
(***************************************************************************)

\* What is to be shown of every step of the table.
Kept == FdInv' /\ ReadinessShown' /\ Announces

\* The facts the five proofs start from.
LEMMA Basics ==
  ASSUME FdInv
  PROVE  /\ TypeOK /\ Locals /\ Private /\ Entries /\ TableExact /\ NoOrphan
         /\ fdTable \in [Fds -> Entry] /\ sk \in [Handles -> Socket]
         /\ call \in [Threads -> Local] /\ undelivered \subseteq Handles /\ known \subseteq Fds
         /\ Null \notin Handles /\ Null \notin Fds
         /\ \A f \in Fds : fdTable[f].handle # Null => fdTable[f].handle \in Handles
         /\ Publishers \subseteq Threads /\ Users \subseteq Threads
         /\ Publishers \cap Users = {}
<1>1. Null \notin Handles /\ Null \notin Fds
  BY FdAssumption DEF Handles, Fds
<1>2. fdTable \in [Fds -> Entry] /\ sk \in [Handles -> Socket] /\ call \in [Threads -> Local]
  BY Zenon, TypeFacts DEF FdInv
<1>3. \A f \in Fds : fdTable[f].handle # Null => fdTable[f].handle \in Handles
  BY Zenon, <1>2 DEF Entry
<1>4. Publishers \subseteq Threads /\ Users \subseteq Threads /\ Publishers \cap Users = {}
  BY Zenon DEF Publishers, Users
<1> QED BY Zenon, <1>1, <1>2, <1>3, <1>4 DEF FdInv, TypeOK

\* One thread changes what it does, the others do not.
LEMMA OtherThreads ==
  ASSUME NEW t \in Threads, \A s \in Threads : s # t => call'[s] = call[s]
  PROVE  /\ \A s \in Threads : s # t => /\ s \in Publishers' <=> s \in Publishers
                                        /\ s \in Users' <=> s \in Users
                                        /\ \A f : s \in Publishing(f)' <=> s \in Publishing(f)
         /\ Publishers' \subseteq Threads /\ Users' \subseteq Threads
         /\ \A f : Publishing(f)' \subseteq Threads /\ Publishing(f) \subseteq Threads
  BY Zenon DEF Publishers, Users, Publishing

\* The owner makes a socket whose handle nobody has seen.
LEMMA NewSocketKept ==
  ASSUME FdInv, ReadinessShown, NEW t \in Threads, NewSocket(t)
  PROVE  Kept
<1>1. /\ TypeOK /\ Locals /\ Private /\ Entries /\ TableExact /\ NoOrphan
      /\ fdTable \in [Fds -> Entry] /\ sk \in [Handles -> Socket]
      /\ call \in [Threads -> Local] /\ undelivered \subseteq Handles
      /\ Null \notin Handles
      /\ \A f \in Fds : fdTable[f].handle # Null => fdTable[f].handle \in Handles
      /\ Publishers \subseteq Threads /\ Users \subseteq Threads
  BY Zenon, Basics
<1>2. /\ UNCHANGED <<fdTable, undelivered, known, notifying, moved, down>>
      /\ call[t].op \in {"create", "accept"}
  BY Zenon DEF NewSocket
<1>3. PICK h \in Handles, m \in EventMasks :
        /\ sk[h].life = "none"
        /\ sk' = [sk EXCEPT ![h].life = "open", ![h].ready = m]
        /\ call' = [call EXCEPT ![t] = [op |-> "reserve", fd |-> Null, handle |-> h]]
  BY Zenon DEF NewSocket
<1> DEFINE r == [op |-> "reserve", fd |-> Null, handle |-> h]
<1>4. r \in Local /\ r.op = "reserve" /\ r.handle = h
  BY Zenon DEF Local, Ops
<1>5. /\ call' \in [Threads -> Local] /\ call'[t] = r
      /\ \A s \in Threads : s # t => call'[s] = call[s]
  BY Zenon, <1>3, <1>4, ReturnLemma
<1> HIDE DEF r
<1>6. /\ sk' \in [Handles -> Socket] /\ sk'[h].life = "open" /\ sk'[h].fd = sk[h].fd
      /\ \A g \in Handles : g # h => sk'[g] = sk[g]
  <2>1. m \in Masks
    BY Zenon, FdAssumption DEF Masks
  <2> QED BY Zenon, <1>1, <1>3, <2>1 DEF Socket
<1>7. /\ h \notin undelivered /\ sk[h].fd = Null
      /\ \A f \in Fds : fdTable[f].handle # h
      /\ \A s \in Publishers \cup Users : call[s].handle # h
  BY Zenon, <1>1, <1>3 DEF Entries, Locals
<1>8. /\ t \in Publishers' /\ t \notin Users' /\ t \notin Publishers
      /\ \A f : t \notin Publishing(f) /\ t \notin Publishing(f)'
  BY Zenon, <1>2, <1>4, <1>5 DEF Publishers, Users, Publishing
<1>9. /\ \A s \in Publishers' : s = t \/ (s \in Publishers /\ s # t /\ call'[s] = call[s])
      /\ \A s \in Users' : s \in Users /\ s # t /\ call'[s] = call[s]
      /\ \A f : Publishing(f)' = Publishing(f)
  <2>1. \A s \in Publishers' : s = t \/ (s \in Publishers /\ s # t /\ call'[s] = call[s])
    BY Zenon, <1>5, OtherThreads
  <2>2. \A s \in Users' : s \in Users /\ s # t /\ call'[s] = call[s]
    BY Zenon, <1>5, <1>8, OtherThreads
  <2>3. ASSUME NEW f PROVE Publishing(f)' = Publishing(f)
    <3>1. \A s \in Threads : s \in Publishing(f)' <=> s \in Publishing(f)
      BY Zenon, <1>5, <1>8, OtherThreads
    <3>2. Publishing(f)' \subseteq Threads /\ Publishing(f) \subseteq Threads
      BY Zenon, <1>5, OtherThreads
    <3> HIDE DEF Publishing
    <3> QED BY Zenon, <3>1, <3>2
  <2> QED BY Zenon, <2>1, <2>2, <2>3
<1>10. TypeOK'
  BY Zenon, <1>1, <1>2, <1>5, <1>6 DEF TypeOK, Entry, Socket, Local
<1>11. Locals'
  <2>1. ASSUME NEW s \in Publishers'
        PROVE  /\ call'[s].handle \in Handles /\ sk'[call'[s].handle].life # "none"
               /\ call'[s].handle \notin undelivered' /\ sk'[call'[s].handle].fd = Null
    <3>1. CASE s = t
      BY Zenon, <1>2, <1>4, <1>5, <1>6, <1>7, <3>1
    <3>2. CASE s \in Publishers /\ call'[s] = call[s]
      BY Zenon, <1>1, <1>2, <1>6, <1>7, <3>2 DEF Locals
    <3> QED BY Zenon, <1>9, <3>1, <3>2
  <2>2. ASSUME NEW s \in Users'
        PROVE  /\ call'[s].handle \in Handles /\ sk'[call'[s].handle].life # "none"
               /\ call'[s].fd \in Fds
               /\ call'[s].op = "clear" =>
                    sk'[call'[s].handle].life \in {"closing", "gone"} \/ down'
    <3>1. /\ s \in Users /\ call'[s] = call[s] /\ call[s].handle \in Handles
          /\ call[s].handle # h /\ sk[call[s].handle].life # "none" /\ call[s].fd \in Fds
          /\ call[s].op = "clear" => sk[call[s].handle].life \in {"closing", "gone"} \/ down
      BY Zenon, <1>1, <1>7, <1>9 DEF Locals
    <3>2. sk'[call[s].handle] = sk[call[s].handle] /\ down' = down
      BY Zenon, <1>2, <1>6, <3>1
    <3> QED BY Zenon, <3>1, <3>2
  <2> QED BY Zenon, <2>1, <2>2 DEF Locals
<1>12. Private'
  <2>1. ASSUME NEW p \in Publishers'
        PROVE  /\ \A s \in Publishers' \cup Users' : call'[s].handle = call'[p].handle => s = p
               /\ call'[p].op = "reserve" => \A f \in Fds : fdTable'[f].handle # call'[p].handle
               /\ call'[p].op # "reserve" =>
                    call'[p].fd \in Fds /\ fdTable'[call'[p].fd].handle = call'[p].handle
    <3>1. CASE p = t
      BY Zenon, <1>2, <1>4, <1>5, <1>7, <1>9, <3>1
    <3>2. CASE p \in Publishers /\ p # t /\ call'[p] = call[p]
      <4>1. call[p].handle # h
        BY Zenon, <1>7, <3>2
      <4>2. /\ \A s \in Publishers \cup Users : call[s].handle = call[p].handle => s = p
            /\ call[p].op = "reserve" => \A f \in Fds : fdTable[f].handle # call[p].handle
            /\ call[p].op # "reserve" =>
                 call[p].fd \in Fds /\ fdTable[call[p].fd].handle = call[p].handle
        BY Zenon, <1>1, <3>2 DEF Private, Names
      <4>3. ASSUME NEW s \in Publishers' \cup Users', call'[s].handle = call[p].handle
            PROVE  s = p
        <5>1. call'[t].handle = h
          BY Zenon, <1>4, <1>5
        <5>2. s # t
          BY Zenon, <4>1, <4>3, <5>1
        <5>3. s \in Publishers \cup Users /\ call'[s] = call[s]
          BY Zenon, <1>9, <5>2
        <5> QED BY Zenon, <4>2, <4>3, <5>3
      <4> QED BY Zenon, <1>2, <3>2, <4>2, <4>3
    <3> QED BY Zenon, <1>9, <3>1, <3>2
  <2> QED BY Zenon, <2>1 DEF Private, Names
<1>13. Entries'
  <2>1. \A g \in Handles : g # h => sk'[g] = sk[g]
    BY Zenon, <1>6
  <2>2. \A f \in Fds : fdTable'[f] = fdTable[f]
    BY Zenon, <1>2
  <2>3. undelivered' = undelivered /\ "none" # "open"
    BY Zenon, <1>2
  <2>4. ASSUME NEW f \in Fds
        PROVE  IF fdTable[f].handle = Null THEN fdTable[f].ready = "none"
               ELSE /\ sk'[fdTable[f].handle].life # "none"
                    /\ fdTable[f].handle \notin undelivered
    BY Zenon, <1>1, <1>7, <2>1 DEF Entries
  <2>5. \A g \in undelivered : sk'[g].life # "none"
    BY Zenon, <1>1, <1>7, <2>1 DEF Entries
  <2>6. \A g \in Handles : sk'[g].life = "none" => sk'[g].fd = Null
    BY Zenon, <1>1, <1>6, <2>1, <2>3 DEF Entries
  <2> QED BY Zenon, <2>2, <2>3, <2>4, <2>5, <2>6 DEF Entries
<1>14. TableExact'
  BY Zenon, <1>1, <1>2, <1>9 DEF TableExact
<1>15. NoOrphan'
  <2> SUFFICES ASSUME NEW g \in Handles, sk'[g].life = "open", ~down'
               PROVE  \/ \E f \in Fds : fdTable'[f].handle = g
                      \/ \E s \in Threads : call'[s].op = "reserve" /\ call'[s].handle = g
                      \/ g \in undelivered'
    BY Zenon DEF NoOrphan
  <2>1. CASE g = h
    BY Zenon, <1>4, <1>5, <2>1
  <2>2. CASE g # h
    <3>1. sk[g].life = "open" /\ ~down
      BY Zenon, <1>2, <1>6, <2>2
    <3>2. ASSUME NEW s \in Threads, call[s].op = "reserve", call[s].handle = g
          PROVE  call'[s].op = "reserve" /\ call'[s].handle = g
      BY Zenon, <1>2, <1>5, <3>2
    <3> QED BY Zenon, <1>1, <1>2, <3>1, <3>2 DEF NoOrphan
  <2> QED BY Zenon, <2>1, <2>2
<1>16. ReadinessShown'
  <2> SUFFICES ASSUME NEW f \in Fds, fdTable[f].handle # Null,
                      Resolves(fdTable[f].handle)'
               PROVE  Shows(fdTable[f].ready, sk'[fdTable[f].handle], f)
    BY Zenon, <1>2 DEF ReadinessShown
  <2>1. sk'[fdTable[f].handle] = sk[fdTable[f].handle]
    BY Zenon, <1>1, <1>6, <1>7
  <2>2. Resolves(fdTable[f].handle)
    BY Zenon, <1>2, <2>1 DEF Resolves
  <2> QED BY Zenon, <2>1, <2>2 DEF ReadinessShown
<1>17. Announces
  <2>1. Notified => Notified'
    BY Zenon, <1>2, <1>5 DEF Notified
  <2> QED BY Zenon, <1>2, <2>1 DEF Announces
<1> QED BY Zenon, <1>10, <1>11, <1>12, <1>13, <1>14, <1>15, <1>16, <1>17 DEF Kept, FdInv

\* Thread t returns; h is the handle it leaves behind.  The entry of h may be
\* wiped, and h may be queued for the owner once no entry names it.
Leaves(t, h) ==
  /\ t \in Publishers \cup Users /\ h = call[t].handle
  /\ call' \in [Threads -> Local] /\ call'[t].op \in {"idle", "notify"}
  /\ \A s \in Threads : s # t => call'[s] = call[s]
  /\ sk' \in [Handles -> Socket] /\ sk'[h].life = sk[h].life
  /\ \A g \in Handles : g # h => sk'[g] = sk[g]
  /\ fdTable' \in [Fds -> Entry]
  /\ \A f \in Fds :
       \/ /\ fdTable'[f].handle = fdTable[f].handle
          /\ fdTable[f].handle = Null => fdTable'[f] = fdTable[f]
       \/ fdTable[f].handle = h /\ fdTable'[f] = Empty
  /\ undelivered' \in {undelivered, undelivered \cup {h}}
  /\ h \in undelivered' \ undelivered => \A f \in Fds : fdTable'[f].handle # h
  /\ known' \subseteq Fds /\ notifying' \in BOOLEAN /\ down' = down /\ moved' = moved

LEMMA LeavesKeeps ==
  ASSUME FdInv, NEW t \in Threads, NEW h, Leaves(t, h)
  PROVE  /\ TypeOK' /\ Locals' /\ Private' /\ Entries'
         /\ \A s \in Publishers' \cup Users' : s \in Threads /\ s # t /\ call'[s] = call[s]
         /\ \A s \in Publishers' : s \in Publishers /\ call[s].handle # h
         /\ \A f : Publishing(f)' = Publishing(f) \ {t}
<1>1. /\ TypeOK /\ Locals /\ Private /\ Entries
      /\ fdTable \in [Fds -> Entry] /\ sk \in [Handles -> Socket]
      /\ call \in [Threads -> Local] /\ undelivered \subseteq Handles
      /\ Null \notin Handles
      /\ \A f \in Fds : fdTable[f].handle # Null => fdTable[f].handle \in Handles
      /\ Publishers \cap Users = {} /\ Publishers \subseteq Threads
  BY Zenon, Basics
<1>2. h \in Handles /\ sk[h].life # "none" /\ Empty.handle = Null /\ Empty.ready = "none"
  <2>1. Empty.handle = Null /\ Empty.ready = "none"
    BY Zenon DEF Empty
  <2> QED BY Zenon, <1>1, <2>1 DEF Leaves, Locals
<1>3. /\ t \notin Publishers' \cup Users'
      /\ \A f : t \notin Publishing(f)'
  BY Zenon DEF Leaves, Publishers, Users, Publishing
<1>4. \A s \in Threads : s # t => call'[s] = call[s]
  BY Zenon DEF Leaves
<1>5. \A s \in Publishers' \cup Users' :
        s \in Threads /\ s # t /\ call'[s] = call[s] /\ s \in Publishers \cup Users
  BY Zenon, <1>3, <1>4, OtherThreads
<1>6. ASSUME NEW s \in Publishers' PROVE s \in Publishers /\ call[s].handle # h
  <2>1. s \in Publishers /\ s # t
    BY Zenon, <1>3, <1>4, OtherThreads
  <2>2. call[s].handle = call[t].handle => t = s
    BY Zenon, <1>1, <2>1 DEF Private, Leaves
  <2> QED BY Zenon, <2>1, <2>2 DEF Leaves
<1>7. \A s \in Users' : s \in Users
  BY Zenon, <1>3, <1>4, OtherThreads
<1>8. ASSUME NEW f PROVE Publishing(f)' = Publishing(f) \ {t}
  <2>1. \A s \in Threads : s \in Publishing(f)' <=> s \in Publishing(f) /\ s # t
    BY Zenon, <1>3, <1>4, OtherThreads
  <2>2. Publishing(f)' \subseteq Threads /\ Publishing(f) \subseteq Threads
    BY Zenon, <1>4, OtherThreads
  <2> HIDE DEF Publishing
  <2> QED BY Zenon, <2>1, <2>2
<1>9. TypeOK'
  <2>1. undelivered' \subseteq Handles
    BY Zenon, <1>1, <1>2 DEF Leaves
  <2>2. down \in BOOLEAN /\ moved \in [Waiters -> BOOLEAN]
    BY Zenon, <1>1 DEF TypeOK
  <2> QED BY Zenon, <2>1, <2>2 DEF TypeOK, Leaves, Entry, Socket, Local
<1>10. \A g \in Handles : sk'[g].life = sk[g].life /\ (g # h => sk'[g] = sk[g])
  BY Zenon DEF Leaves
<1>11. Locals'
  <2>1. ASSUME NEW s \in Publishers'
        PROVE  /\ call'[s].handle \in Handles /\ sk'[call'[s].handle].life # "none"
               /\ call'[s].handle \notin undelivered' /\ sk'[call'[s].handle].fd = Null
    <3>1. /\ call'[s] = call[s] /\ call[s].handle \in Handles /\ call[s].handle # h
          /\ sk[call[s].handle].life # "none" /\ call[s].handle \notin undelivered
          /\ sk[call[s].handle].fd = Null
      BY Zenon, <1>1, <1>5, <1>6 DEF Locals
    <3>2. call[s].handle \notin undelivered'
      BY Zenon, <3>1 DEF Leaves
    <3> QED BY Zenon, <1>10, <3>1, <3>2
  <2>2. ASSUME NEW s \in Users'
        PROVE  /\ call'[s].handle \in Handles /\ sk'[call'[s].handle].life # "none"
               /\ call'[s].fd \in Fds
               /\ call'[s].op = "clear" =>
                    sk'[call'[s].handle].life \in {"closing", "gone"} \/ down'
    <3>1. /\ call'[s] = call[s] /\ call[s].handle \in Handles
          /\ sk[call[s].handle].life # "none" /\ call[s].fd \in Fds
          /\ call[s].op = "clear" => sk[call[s].handle].life \in {"closing", "gone"} \/ down
      BY Zenon, <1>1, <1>5, <1>7 DEF Locals
    <3>2. down' = down
      BY Zenon DEF Leaves
    <3> QED BY Zenon, <1>10, <3>1, <3>2
  <2> QED BY Zenon, <2>1, <2>2 DEF Locals
<1>12. Private'
  <2>1. ASSUME NEW p \in Publishers'
        PROVE  /\ \A s \in Publishers' \cup Users' : call'[s].handle = call'[p].handle => s = p
               /\ call'[p].op = "reserve" => \A f \in Fds : fdTable'[f].handle # call'[p].handle
               /\ call'[p].op # "reserve" =>
                    call'[p].fd \in Fds /\ fdTable'[call'[p].fd].handle = call'[p].handle
    <3>1. /\ p \in Publishers /\ call'[p] = call[p] /\ call[p].handle \in Handles
          /\ call[p].handle # h
      BY Zenon, <1>1, <1>5, <1>6 DEF Locals
    <3>2. /\ \A s \in Publishers \cup Users : call[s].handle = call[p].handle => s = p
          /\ call[p].op = "reserve" => \A f \in Fds : fdTable[f].handle # call[p].handle
          /\ call[p].op # "reserve" =>
               call[p].fd \in Fds /\ fdTable[call[p].fd].handle = call[p].handle
      BY Zenon, <1>1, <3>1 DEF Private, Names
    <3>3. \A f \in Fds : fdTable[f].handle = call[p].handle => fdTable'[f].handle = call[p].handle
      BY Zenon, <3>1 DEF Leaves
    <3>4. \A f \in Fds : fdTable'[f].handle = call[p].handle => fdTable[f].handle = call[p].handle
      BY Zenon, <1>1, <1>2, <3>1 DEF Leaves
    <3>5. \A s \in Publishers' \cup Users' : call'[s].handle = call'[p].handle => s = p
      BY Zenon, <1>5, <3>1, <3>2
    <3> QED BY Zenon, <3>1, <3>2, <3>3, <3>4, <3>5
  <2> QED BY Zenon, <2>1 DEF Private, Names
<1>13. Entries'
  <2>1. ASSUME NEW f \in Fds
        PROVE  IF fdTable'[f].handle = Null THEN fdTable'[f].ready = "none"
               ELSE /\ sk'[fdTable'[f].handle].life # "none"
                    /\ fdTable'[f].handle \notin undelivered'
    <3>1. CASE fdTable'[f] = Empty
      BY Zenon, <1>2, <3>1
    <3>2. CASE fdTable[f].handle = Null /\ fdTable'[f] = fdTable[f]
      BY Zenon, <1>1, <3>2 DEF Entries
    <3>3. CASE fdTable'[f].handle = fdTable[f].handle /\ fdTable[f].handle # Null
      <4>1. /\ fdTable[f].handle \in Handles /\ sk[fdTable[f].handle].life # "none"
            /\ fdTable[f].handle \notin undelivered
        BY Zenon, <1>1, <3>3 DEF Entries
      <4>2. fdTable[f].handle \notin undelivered'
        BY Zenon, <3>3, <4>1 DEF Leaves
      <4> QED BY Zenon, <1>10, <3>3, <4>1, <4>2
    <3> QED BY Zenon, <3>1, <3>2, <3>3 DEF Leaves
  <2>2. \A g \in undelivered' : sk'[g].life # "none"
    <3>1. \A g \in undelivered' : g \in undelivered \/ g = h
      BY Zenon DEF Leaves
    <3>2. \A g \in undelivered : g \in Handles /\ sk[g].life # "none"
      BY Zenon, <1>1 DEF Entries
    <3> QED BY Zenon, <1>2, <1>10, <3>1, <3>2
  <2>3. \A g \in Handles : sk'[g].life = "none" => sk'[g].fd = Null
    BY Zenon, <1>1, <1>2, <1>10 DEF Entries
  <2> QED BY Zenon, <2>1, <2>2, <2>3 DEF Entries
<1> QED BY Zenon, <1>5, <1>6, <1>8, <1>9, <1>11, <1>12, <1>13

\* The table stays exact when one entry changes hands.
LEMMA TableLemma ==
  ASSUME TableExact, NEW e \in Fds,
         \A f \in Fds : f # e => /\ fdTable'[f].handle = fdTable[f].handle
                                 /\ Publishing(f)' = Publishing(f)
                                 /\ f \in known' <=> f \in known,
         fdTable'[e].handle # Null <=> e \in known' \/ Publishing(e)' # {},
         \A s, t \in Publishing(e)' : s = t,
         e \in known' => Publishing(e)' = {},
         \/ fdTable'[e].handle = Null
         \/ \A f \in Fds : f # e => fdTable[f].handle # fdTable'[e].handle
  PROVE  TableExact'
<1> USE DEF TableExact
<1> HIDE DEF Publishing
<1>1. ASSUME NEW f \in Fds
      PROVE  /\ fdTable'[f].handle # Null <=> f \in known' \/ Publishing(f)' # {}
             /\ \A s, t \in Publishing(f)' : s = t
             /\ f \in known' => Publishing(f)' = {}
  <2>1. /\ fdTable[f].handle # Null <=> f \in known \/ Publishing(f) # {}
        /\ \A s, t \in Publishing(f) : s = t
        /\ f \in known => Publishing(f) = {}
    BY Zenon
  <2> HIDE DEF TableExact
  <2>2. CASE f = e
    BY Zenon, <2>2
  <2>3. CASE f # e
    <3>1. /\ fdTable'[f].handle = fdTable[f].handle /\ Publishing(f)' = Publishing(f)
          /\ f \in known' <=> f \in known
      BY Zenon, <2>3
    <3> QED BY Zenon, <2>1, <3>1
  <2> QED BY Zenon, <2>2, <2>3
<1>2. ASSUME NEW f \in Fds, NEW g \in Fds, fdTable'[f].handle = fdTable'[g].handle
      PROVE  f = g \/ fdTable'[f].handle = Null
  <2>1. fdTable[f].handle = fdTable[g].handle => f = g \/ fdTable[f].handle = Null
    BY Zenon
  <2> HIDE DEF TableExact
  <2> QED BY Zenon, <1>2, <2>1
<1> QED BY Zenon, <1>1, <1>2

\* nsocket or naccept4 without a descriptor left: the owner is to close it.
LEMMA ReserveFullKept ==
  ASSUME FdInv, ReadinessShown, NEW t \in Threads, Reserve(t), Unused = {}
  PROVE  Kept
<1> DEFINE h == call[t].handle
<1>1. /\ TypeOK /\ Locals /\ Private /\ TableExact /\ NoOrphan
      /\ fdTable \in [Fds -> Entry] /\ sk \in [Handles -> Socket]
      /\ call \in [Threads -> Local] /\ known \subseteq Fds
      /\ Idle \in Local /\ Idle.op = "idle"
  BY Zenon, Basics, IdleLemma
<1>2. /\ call[t].op = "reserve" /\ undelivered' = undelivered \cup {h}
      /\ call' = [call EXCEPT ![t] = Idle]
      /\ UNCHANGED <<fdTable, sk, known, notifying, moved, down>>
  BY Zenon DEF Reserve, Return
<1>3. /\ call' \in [Threads -> Local] /\ call'[t] = Idle
      /\ \A s \in Threads : s # t => call'[s] = call[s]
  BY Zenon, <1>1, <1>2, ReturnLemma
<1>4. t \in Publishers /\ \A f \in Fds : fdTable[f].handle # h
  BY Zenon, <1>1, <1>2 DEF Publishers, Private
<1>5. Leaves(t, h)
  BY Zenon, <1>1, <1>2, <1>3, <1>4 DEF Leaves, TypeOK
<1>6. TypeOK' /\ Locals' /\ Private' /\ Entries'
  BY Zenon, <1>5, LeavesKeeps
<1>7. \A f : Publishing(f)' = Publishing(f)
  <2>1. \A f : t \notin Publishing(f)
    BY Zenon, <1>2 DEF Publishing
  <2>2. \A f : Publishing(f)' = Publishing(f) \ {t}
    BY Zenon, <1>5, LeavesKeeps
  <2> HIDE DEF Publishing
  <2> QED BY Zenon, <2>1, <2>2
<1>8. TableExact'
  BY Zenon, <1>1, <1>2, <1>7 DEF TableExact
<1>9. NoOrphan'
  <2>1. \A s \in Threads : call[s].op = "reserve" =>
          (call'[s].op = "reserve" /\ call'[s].handle = call[s].handle) \/ call[s].handle = h
    BY Zenon, <1>3
  <2> QED BY Zenon, <1>1, <1>2, <2>1 DEF NoOrphan
<1>10. ReadinessShown'
  BY Zenon, <1>2 DEF ReadinessShown, Resolves
<1>11. Announces
  <2>1. Notified => Notified'
    BY Zenon, <1>2, <1>3 DEF Notified
  <2> QED BY Zenon, <1>2, <2>1 DEF Announces
<1> QED BY Zenon, <1>6, <1>8, <1>9, <1>10, <1>11 DEF Kept, FdInv

\* A publication that is taken back: the entry wiped is the thread's own.
LEMMA UnpublishKept ==
  ASSUME FdInv, ReadinessShown, NEW t \in Threads, Unpublish(t)
  PROVE  Kept
<1>0. PICK e, h : e = call[t].fd /\ h = call[t].handle
  BY Zenon
<1>1. /\ TypeOK /\ Locals /\ Private /\ TableExact /\ NoOrphan
      /\ fdTable \in [Fds -> Entry] /\ sk \in [Handles -> Socket]
      /\ call \in [Threads -> Local] /\ known \subseteq Fds
      /\ Idle \in Local /\ Idle.op = "idle" /\ Null \notin Handles
  BY Zenon, Basics, IdleLemma
<1>2. /\ call[t].op = "unpublish" /\ undelivered' = undelivered \cup {h}
      /\ fdTable' = [fdTable EXCEPT ![e] = Empty]
      /\ call' = [call EXCEPT ![t] = Idle]
      /\ UNCHANGED <<sk, known, notifying, moved, down>>
  BY Zenon, <1>0 DEF Unpublish, Return
<1>3. /\ call' \in [Threads -> Local] /\ call'[t] = Idle
      /\ \A s \in Threads : s # t => call'[s] = call[s]
  BY Zenon, <1>1, <1>2, ReturnLemma
<1>4. t \in Publishers /\ e \in Fds /\ fdTable[e].handle = h /\ h \in Handles /\ h # Null
  <2>1. t \in Publishers
    BY Zenon, <1>2 DEF Publishers
  <2>2. e \in Fds /\ fdTable[e].handle = h
    BY Zenon, <1>0, <1>1, <1>2, <2>1 DEF Private, Names
  <2>3. h \in Handles
    BY Zenon, <1>0, <1>1, <2>1 DEF Locals
  <2> QED BY Zenon, <1>1, <2>1, <2>2, <2>3
<1>5. /\ fdTable' \in [Fds -> Entry] /\ fdTable'[e] = Empty
      /\ \A f \in Fds : f # e => fdTable'[f] = fdTable[f]
      /\ Empty.handle = Null /\ Empty.ready = "none"
  <2>1. Empty \in Entry /\ Empty.handle = Null /\ Empty.ready = "none"
    BY Zenon DEF Empty, Entry, Masks
  <2> QED BY Zenon, <1>1, <1>2, <1>4, <2>1
<1>6. ASSUME NEW f \in Fds PROVE fdTable'[f].handle # h
  <2>1. fdTable[f].handle = fdTable[e].handle => f = e \/ fdTable[f].handle = Null
    BY Zenon, <1>1, <1>4 DEF TableExact
  <2> QED BY Zenon, <1>4, <1>5, <2>1
<1>7. Leaves(t, h)
  BY Zenon, <1>0, <1>1, <1>2, <1>3, <1>4, <1>5, <1>6 DEF Leaves, TypeOK
<1>8. TypeOK' /\ Locals' /\ Private' /\ Entries'
  BY Zenon, <1>7, LeavesKeeps
<1>9. \A f : Publishing(f)' = Publishing(f) \ {t}
  BY Zenon, <1>7, LeavesKeeps
<1>10. TableExact'
  <2>1. t \in Publishing(e) /\ \A f : f # e => t \notin Publishing(f)
    BY Zenon, <1>0, <1>2 DEF Publishing
  <2>2. e \notin known /\ \A s \in Publishing(e) : s = t
    <3> HIDE DEF Publishing
    <3> QED BY Zenon, <1>1, <1>4, <2>1 DEF TableExact
  <2>3. Publishing(e)' = Publishing(e) \ {t}
    BY Zenon, <1>9
  <2>4. \A f : f # e => Publishing(f)' = Publishing(f)
    <3> HIDE DEF Publishing
    <3> QED BY Zenon, <1>9, <2>1
  <2>5. Publishing(e)' = {}
    <3> HIDE DEF Publishing
    <3> QED BY Zenon, <2>2, <2>3
  <2>6. known' = known /\ fdTable'[e].handle = Null
    BY Zenon, <1>2, <1>5
  <2> HIDE DEF Publishing
  <2> QED BY Zenon, <1>1, <1>4, <1>5, <2>2, <2>4, <2>5, <2>6, TableLemma
<1>11. NoOrphan'
  <2>1. \A s \in Threads : call[s].op = "reserve" =>
          call'[s].op = "reserve" /\ call'[s].handle = call[s].handle
    BY Zenon, <1>2, <1>3
  <2>2. \A f \in Fds : fdTable'[f].handle = fdTable[f].handle \/ fdTable[f].handle = h
    BY Zenon, <1>4, <1>5
  <2> QED BY Zenon, <1>1, <1>2, <2>1, <2>2 DEF NoOrphan
<1>12. ReadinessShown'
  <2>1. \A f \in Fds : fdTable'[f].handle # Null => fdTable'[f] = fdTable[f]
    BY Zenon, <1>5
  <2> QED BY Zenon, <1>2, <2>1 DEF ReadinessShown, Resolves
<1>13. Announces
  <2>1. Notified => Notified'
    BY Zenon, <1>2, <1>3 DEF Notified
  <2> QED BY Zenon, <1>2, <1>5, <2>1 DEF Announces
<1> QED BY Zenon, <1>8, <1>10, <1>11, <1>12, <1>13 DEF Kept, FdInv

\* A publication that succeeds: the application gets the descriptor.
LEMMA PublishKept ==
  ASSUME FdInv, ReadinessShown, NEW t \in Threads, Publish(t), Accepts(call[t].handle)
  PROVE  Kept
<1>0. PICK e, h, s : /\ e = call[t].fd /\ h = call[t].handle
                     /\ s = [sk[h] EXCEPT !.fd = e]
  BY Zenon
<1>1. /\ TypeOK /\ Locals /\ Private /\ TableExact /\ NoOrphan
      /\ fdTable \in [Fds -> Entry] /\ sk \in [Handles -> Socket]
      /\ call \in [Threads -> Local] /\ known \subseteq Fds
      /\ Idle \in Local /\ Idle.op = "idle" /\ Null \notin Handles
  BY Zenon, Basics, IdleLemma
<1>2. /\ call[t].op = "publish" /\ ~notifying /\ Refresh(h, s)
      /\ known' = known \cup {e} /\ call' = [call EXCEPT ![t] = Idle]
      /\ UNCHANGED <<undelivered, moved, down>>
  BY Zenon, <1>0 DEF Publish, Return
<1>3. /\ call' \in [Threads -> Local] /\ call'[t] = Idle
      /\ \A r \in Threads : r # t => call'[r] = call[r]
  BY Zenon, <1>1, <1>2, ReturnLemma
<1>4. t \in Publishers /\ e \in Fds /\ fdTable[e].handle = h /\ h \in Handles /\ h # Null
  <2>1. t \in Publishers
    BY Zenon, <1>2 DEF Publishers
  <2>2. e \in Fds /\ fdTable[e].handle = h
    BY Zenon, <1>0, <1>1, <1>2, <2>1 DEF Private, Names
  <2>3. h \in Handles
    BY Zenon, <1>0, <1>1, <2>1 DEF Locals
  <2> QED BY Zenon, <1>1, <2>1, <2>2, <2>3
<1>5. s \in Socket /\ s.fd = e /\ s.life = sk[h].life
  BY Zenon, <1>0, <1>1, <1>4 DEF Socket
<1>6. /\ Stores /\ ReadinessShown' /\ sk' \in [Handles -> Socket] /\ sk'[h] = s
      /\ \A g \in Handles : g # h => sk'[g] = sk[g]
      /\ notifying' \in BOOLEAN /\ (fdTable' = fdTable \/ notifying')
  <2>1. Resolves(h) /\ Names(s.fd, h) /\ s.fd \in Fds
    BY Zenon, <1>0, <1>4, <1>5 DEF Accepts, Resolves, Names
  <2> QED BY Zenon, <1>2, <1>4, <1>5, <2>1, RefreshLemma
<1>7. \A f \in Fds : /\ fdTable'[f].handle = fdTable[f].handle
                     /\ fdTable[f].handle = Null => fdTable'[f] = fdTable[f]
  <2>1. ASSUME NEW f \in Fds, fdTable[f].handle = Null PROVE fdTable'[f] = fdTable[f]
    <3>1. /\ fdTable'[f].handle = fdTable[f].handle /\ fdTable'[f].ready = fdTable[f].ready
          /\ fdTable'[f] \in Entry /\ fdTable[f] \in Entry
      BY Zenon, <1>1, <1>6, <2>1 DEF Stores
    <3> QED BY SMT, <3>1 DEF Entry
  <2> QED BY Zenon, <1>6, <2>1 DEF Stores
<1>8. Leaves(t, h)
  <2>1. known' \subseteq Fds /\ fdTable' \in [Fds -> Entry]
    BY Zenon, <1>1, <1>2, <1>4, <1>6 DEF Stores
  <2>2. /\ sk'[h].life = sk[h].life /\ call'[t].op \in {"idle", "notify"}
        /\ undelivered' = undelivered /\ down' = down /\ moved' = moved
    BY Zenon, <1>1, <1>2, <1>3, <1>5, <1>6
  <2> QED BY Zenon, <1>0, <1>3, <1>4, <1>6, <1>7, <2>1, <2>2 DEF Leaves
<1>9. TypeOK' /\ Locals' /\ Private' /\ Entries' /\ \A f : Publishing(f)' = Publishing(f) \ {t}
  BY Zenon, <1>8, LeavesKeeps
<1>10. TableExact'
  <2>1. t \in Publishing(e) /\ \A f : f # e => t \notin Publishing(f)
    BY Zenon, <1>0, <1>2 DEF Publishing
  <2>2. \A r \in Publishing(e) : r = t
    <3> HIDE DEF Publishing
    <3> QED BY Zenon, <1>1, <1>4, <2>1 DEF TableExact
  <2>3. Publishing(e)' = Publishing(e) \ {t}
    BY Zenon, <1>9
  <2> HIDE DEF Publishing
  <2>4. \A f : f # e => Publishing(f)' = Publishing(f)
    BY Zenon, <1>9, <2>1
  <2>5. Publishing(e)' = {}
    BY Zenon, <2>2, <2>3
  <2>6. e \in known' /\ \A f : f # e => (f \in known' <=> f \in known)
    BY Zenon, <1>2
  <2>7. \A f \in Fds : f # e => fdTable[f].handle # fdTable'[e].handle
    BY Zenon, <1>1, <1>4, <1>7 DEF TableExact
  <2>8. fdTable'[e].handle # Null
    BY Zenon, <1>4, <1>7
  <2> QED BY Zenon, <1>1, <1>4, <1>7, <2>4, <2>5, <2>6, <2>7, <2>8, TableLemma
<1>11. NoOrphan'
  <2>1. \A r \in Threads : call[r].op = "reserve" =>
          call'[r].op = "reserve" /\ call'[r].handle = call[r].handle
    BY Zenon, <1>2, <1>3
  <2>2. \A g \in Handles : sk'[g].life = sk[g].life
    BY Zenon, <1>5, <1>6
  <2> SUFFICES ASSUME NEW g \in Handles, sk'[g].life = "open", ~down'
               PROVE  \/ \E f \in Fds : fdTable'[f].handle = g
                      \/ \E r \in Threads : call'[r].op = "reserve" /\ call'[r].handle = g
                      \/ g \in undelivered'
    BY Zenon DEF NoOrphan
  <2>3. \/ \E f \in Fds : fdTable[f].handle = g
        \/ \E r \in Threads : call[r].op = "reserve" /\ call[r].handle = g
        \/ g \in undelivered
    BY Zenon, <1>1, <1>2, <2>2 DEF NoOrphan
  <2> QED BY Zenon, <1>2, <1>7, <2>1, <2>3
<1>12. Announces
  <2>1. Notified => Notified'
    BY Zenon, <1>2, <1>3 DEF Notified
  <2>2. Notified' \/ fdTable' = fdTable
    BY Zenon, <1>6 DEF Notified
  <2> QED BY Zenon, <1>2, <2>1, <2>2 DEF Announces
<1> QED BY Zenon, <1>6, <1>9, <1>10, <1>11, <1>12 DEF Kept, FdInv

\* nclose withdraws the entry that still names the socket it closed.
LEMMA ClearKept ==
  ASSUME FdInv, ReadinessShown, NEW t \in Threads, Clear(t),
         Names(call[t].fd, call[t].handle)
  PROVE  Kept
<1>0. PICK e, h : e = call[t].fd /\ h = call[t].handle
  BY Zenon
<1>1. /\ TypeOK /\ Locals /\ Private /\ TableExact /\ NoOrphan
      /\ fdTable \in [Fds -> Entry] /\ sk \in [Handles -> Socket]
      /\ call \in [Threads -> Local] /\ known \subseteq Fds
      /\ Null \notin Handles /\ Publishers \cap Users = {}
  BY Zenon, Basics
<1>2. /\ call[t].op = "clear" /\ Goto(t, "notify")
      /\ fdTable' = [fdTable EXCEPT ![e] = Empty] /\ known' = known \ {e}
      /\ UNCHANGED <<sk, undelivered, notifying, moved, down>>
  BY Zenon, <1>0 DEF Clear
<1>3. /\ call' \in [Threads -> Local] /\ call'[t].op = "notify"
      /\ \A r \in Threads : r # t => call'[r] = call[r]
  <2>1. "notify" \in Ops
    BY Zenon DEF Ops
  <2> QED BY Zenon, <1>2, <2>1, GotoLemma
<1>4. /\ t \in Users /\ e \in Fds /\ fdTable[e].handle = h /\ h \in Handles /\ h # Null
      /\ sk[h].life # "open" \/ down
  <2>1. t \in Users
    BY Zenon, <1>2 DEF Users
  <2>2. /\ e \in Fds /\ h \in Handles /\ (sk[h].life \in {"closing", "gone"} \/ down)
    BY Zenon, <1>0, <1>1, <1>2, <2>1 DEF Locals
  <2>3. fdTable[e].handle = h /\ (sk[h].life # "open" \/ down)
    BY Zenon, <1>0, <2>2 DEF Names
  <2> QED BY Zenon, <1>1, <2>1, <2>2, <2>3
<1>5. /\ fdTable' \in [Fds -> Entry] /\ fdTable'[e] = Empty
      /\ \A f \in Fds : f # e => fdTable'[f] = fdTable[f]
      /\ Empty.handle = Null /\ Empty.ready = "none"
  <2>1. Empty \in Entry /\ Empty.handle = Null /\ Empty.ready = "none"
    BY Zenon DEF Empty, Entry, Masks
  <2> QED BY Zenon, <1>1, <1>2, <1>4, <2>1
<1>6. Leaves(t, h)
  <2>1. known' \subseteq Fds
    BY Zenon, <1>1, <1>2
  <2> QED BY Zenon, <1>0, <1>1, <1>2, <1>3, <1>4, <1>5, <2>1 DEF Leaves, TypeOK
<1>7. TypeOK' /\ Locals' /\ Private' /\ Entries' /\ \A f : Publishing(f)' = Publishing(f) \ {t}
  BY Zenon, <1>6, LeavesKeeps
<1>8. TableExact'
  <2>1. \A f : t \notin Publishing(f)
    BY Zenon, <1>2 DEF Publishing
  <2>2. ASSUME NEW p \in Publishing(e) PROVE FALSE
    <3>1. p \in Publishers /\ call[p].op # "reserve" /\ call[p].fd = e
      BY Zenon DEF Publishing, Publishers
    <3>2. fdTable[e].handle = call[p].handle
      BY Zenon, <1>1, <3>1 DEF Private, Names
    <3>3. t = p
      BY Zenon, <1>0, <1>1, <1>4, <3>1, <3>2 DEF Private
    <3> QED BY Zenon, <1>1, <1>4, <3>1, <3>3
  <2>3. \A f : Publishing(f)' = Publishing(f) \ {t}
    BY Zenon, <1>7
  <2> HIDE DEF Publishing
  <2>4. Publishing(e)' = {} /\ \A f : Publishing(f)' = Publishing(f)
    <3>1. \A f : Publishing(f)' = Publishing(f)
      BY Zenon, <2>1, <2>3
    <3>2. Publishing(e)' = Publishing(e)
      BY Zenon, <3>1
    <3> QED BY Zenon, <2>2, <3>1, <3>2
  <2>5. e \notin known' /\ \A f : f # e => (f \in known' <=> f \in known)
    BY Zenon, <1>2
  <2> QED BY Zenon, <1>1, <1>4, <1>5, <2>4, <2>5, TableLemma
<1>9. NoOrphan'
  <2>1. \A r \in Threads : call[r].op = "reserve" =>
          call'[r].op = "reserve" /\ call'[r].handle = call[r].handle
    BY Zenon, <1>2, <1>3
  <2>2. \A f \in Fds : fdTable'[f].handle = fdTable[f].handle \/ fdTable[f].handle = h
    BY Zenon, <1>4, <1>5
  <2> SUFFICES ASSUME NEW g \in Handles, sk'[g].life = "open", ~down'
               PROVE  \/ \E f \in Fds : fdTable'[f].handle = g
                      \/ \E r \in Threads : call'[r].op = "reserve" /\ call'[r].handle = g
                      \/ g \in undelivered'
    BY Zenon DEF NoOrphan
  <2>3. sk[g].life = "open" /\ ~down /\ g # h
    BY Zenon, <1>2, <1>4
  <2>4. \/ \E f \in Fds : fdTable[f].handle = g
        \/ \E r \in Threads : call[r].op = "reserve" /\ call[r].handle = g
        \/ g \in undelivered
    BY Zenon, <1>1, <2>3 DEF NoOrphan
  <2> QED BY Zenon, <1>2, <2>1, <2>2, <2>3, <2>4
<1>10. ReadinessShown'
  <2>1. \A f \in Fds : fdTable'[f].handle # Null => fdTable'[f] = fdTable[f]
    BY Zenon, <1>5
  <2> QED BY Zenon, <1>2, <2>1 DEF ReadinessShown, Resolves
<1>11. Announces
  <2>1. Notified'
    BY Zenon, <1>3 DEF Notified
  <2> QED BY Zenon, <1>2, <2>1 DEF Announces
<1> QED BY Zenon, <1>7, <1>8, <1>9, <1>10, <1>11 DEF Kept, FdInv

\* A thread takes the lowest unused entry for its socket.
LEMMA ReserveKept ==
  ASSUME FdInv, ReadinessShown, NEW t \in Threads, Reserve(t), Unused # {}
  PROVE  Kept
<1>0. PICK e, h : e = Min(Unused) /\ h = call[t].handle
  BY Zenon
<1>1. /\ TypeOK /\ Locals /\ Private /\ Entries /\ TableExact /\ NoOrphan
      /\ fdTable \in [Fds -> Entry] /\ sk \in [Handles -> Socket]
      /\ call \in [Threads -> Local] /\ Null \notin Handles /\ Null \notin Fds
      /\ Publishers \cap Users = {} /\ Publishers \subseteq Threads /\ Users \subseteq Threads
  BY Zenon, Basics
<1>2. /\ call[t].op = "reserve"
      /\ fdTable' = [fdTable EXCEPT ![e].handle = h]
      /\ call' = [call EXCEPT ![t].op = "publish", ![t].fd = e]
      /\ UNCHANGED <<sk, undelivered, known, notifying, moved, down>>
  BY Zenon, <1>0 DEF Reserve
<1>3. e \in Fds /\ fdTable[e].handle = Null
  <2>1. Unused \in SUBSET Fds
    BY Zenon DEF Unused
  <2>2. e \in Unused
    BY Zenon, <1>0, <2>1, MinLemma
  <2> QED BY Zenon, <2>2 DEF Unused
<1>4. /\ t \in Publishers /\ h \in Handles /\ h # Null /\ sk[h].life # "none"
      /\ h \notin undelivered /\ sk[h].fd = Null
      /\ \A f \in Fds : fdTable[f].handle # h
      /\ \A s \in Publishers \cup Users : call[s].handle = h => s = t
  <2>1. t \in Publishers
    BY Zenon, <1>2 DEF Publishers
  <2>2. /\ h \in Handles /\ sk[h].life # "none" /\ h \notin undelivered /\ sk[h].fd = Null
    BY Zenon, <1>0, <1>1, <2>1 DEF Locals
  <2>3. /\ \A f \in Fds : fdTable[f].handle # h
        /\ \A s \in Publishers \cup Users : call[s].handle = h => s = t
    BY Zenon, <1>0, <1>1, <1>2, <2>1 DEF Private
  <2> QED BY Zenon, <1>1, <2>1, <2>2, <2>3
<1>5. /\ fdTable' \in [Fds -> Entry] /\ fdTable'[e].handle = h
      /\ fdTable'[e].ready = fdTable[e].ready
      /\ \A f \in Fds : f # e => fdTable'[f] = fdTable[f]
  BY Zenon, <1>1, <1>2, <1>3, <1>4 DEF Entry
<1>6. /\ call' \in [Threads -> Local] /\ call'[t].op = "publish"
      /\ call'[t].fd = e /\ call'[t].handle = h
      /\ \A s \in Threads : s # t => call'[s] = call[s]
  <2>1. "publish" \in Ops
    BY Zenon DEF Ops
  <2> QED BY <1>0, <1>1, <1>2, <1>3, <2>1 DEF Local
<1>7. /\ t \in Publishers' /\ t \notin Users' /\ t \notin Users
      /\ t \in Publishing(e)' /\ \A f : f # e => t \notin Publishing(f)'
      /\ \A f : t \notin Publishing(f)
  BY Zenon, <1>2, <1>6 DEF Publishers, Users, Publishing
<1>8. /\ \A s \in Publishers' : s = t \/ (s \in Publishers /\ s # t /\ call'[s] = call[s])
      /\ \A s \in Users' : s \in Users /\ s # t /\ call'[s] = call[s]
  BY Zenon, <1>6, <1>7, OtherThreads
<1>9. TypeOK'
  BY Zenon, <1>1, <1>2, <1>5, <1>6 DEF TypeOK, Entry, Local
<1>10. Locals'
  <2>1. \A s \in Publishers' : s \in Publishers /\ call'[s].handle = call[s].handle
    BY Zenon, <1>0, <1>4, <1>6, <1>8
  <2>2. ASSUME NEW s \in Publishers'
        PROVE  /\ call'[s].handle \in Handles /\ sk'[call'[s].handle].life # "none"
               /\ call'[s].handle \notin undelivered' /\ sk'[call'[s].handle].fd = Null
    <3>1. /\ call[s].handle \in Handles /\ sk[call[s].handle].life # "none"
          /\ call[s].handle \notin undelivered /\ sk[call[s].handle].fd = Null
      BY Zenon, <1>1, <2>1 DEF Locals
    <3>2. sk' = sk /\ undelivered' = undelivered /\ call'[s].handle = call[s].handle
      BY Zenon, <1>2, <2>1
    <3> QED BY SMT, <3>1, <3>2
  <2>3. ASSUME NEW s \in Users'
        PROVE  /\ call'[s].handle \in Handles /\ sk'[call'[s].handle].life # "none"
               /\ call'[s].fd \in Fds
               /\ call'[s].op = "clear" =>
                    sk'[call'[s].handle].life \in {"closing", "gone"} \/ down'
    BY Zenon, <1>1, <1>2, <1>8 DEF Locals
  <2> QED BY Zenon, <2>2, <2>3 DEF Locals
<1>11. Private'
  <2>1. ASSUME NEW p \in Publishers'
        PROVE  /\ \A s \in Publishers' \cup Users' : call'[s].handle = call'[p].handle => s = p
               /\ call'[p].op = "reserve" => \A f \in Fds : fdTable'[f].handle # call'[p].handle
               /\ call'[p].op # "reserve" =>
                    call'[p].fd \in Fds /\ fdTable'[call'[p].fd].handle = call'[p].handle
    <3>0. \A s \in Publishers' \cup Users' :
            s \in Publishers \cup Users /\ call'[s].handle = call[s].handle
      BY Zenon, <1>0, <1>4, <1>6, <1>8
    <3>1. CASE p = t
      <4>1. \A s \in Publishers' \cup Users' : call'[s].handle = h => s = t
        BY Zenon, <1>4, <3>0
      <4> QED BY Zenon, <1>3, <1>5, <1>6, <3>1, <4>1
    <3>2. CASE p \in Publishers /\ p # t /\ call'[p] = call[p]
      <4>1. call[p].handle # h /\ call[p].handle \in Handles
        BY Zenon, <1>1, <1>4, <3>2 DEF Locals
      <4>2. /\ \A s \in Publishers \cup Users : call[s].handle = call[p].handle => s = p
            /\ call[p].op = "reserve" => \A f \in Fds : fdTable[f].handle # call[p].handle
            /\ call[p].op # "reserve" =>
                 call[p].fd \in Fds /\ fdTable[call[p].fd].handle = call[p].handle
        BY Zenon, <1>1, <3>2 DEF Private, Names
      <4>3. \A f \in Fds : fdTable'[f].handle = call[p].handle <=> fdTable[f].handle = call[p].handle
        BY Zenon, <1>1, <1>3, <1>5, <4>1
      <4>4. \A s \in Publishers' \cup Users' : call'[s].handle = call[p].handle => s = p
        BY Zenon, <3>0, <4>2
      <4> QED BY Zenon, <3>2, <4>2, <4>3, <4>4
    <3> QED BY Zenon, <1>8, <3>1, <3>2
  <2> QED BY Zenon, <2>1 DEF Private, Names
<1>12. Entries'
  <2>1. ASSUME NEW f \in Fds
        PROVE  IF fdTable'[f].handle = Null THEN fdTable'[f].ready = "none"
               ELSE /\ sk'[fdTable'[f].handle].life # "none"
                    /\ fdTable'[f].handle \notin undelivered'
    <3>1. CASE f = e
      <4>1. fdTable'[f].handle = h
        BY Zenon, <1>5, <3>1
      <4>2. /\ fdTable'[f].handle # Null /\ sk'[fdTable'[f].handle].life # "none"
            /\ fdTable'[f].handle \notin undelivered'
        <5>1. sk' = sk /\ undelivered' = undelivered
          BY Zenon, <1>2
        <5> QED BY SMT, <1>4, <4>1, <5>1
      <4> QED BY Zenon, <4>2
    <3>2. CASE f # e
      BY Zenon, <1>1, <1>2, <1>5, <3>2 DEF Entries
    <3> QED BY Zenon, <3>1, <3>2
  <2> QED BY Zenon, <1>1, <1>2, <2>1 DEF Entries
<1>13. TableExact'
  <2>1. Publishing(e) = {} /\ e \notin known
    <3> HIDE DEF Publishing
    <3> QED BY Zenon, <1>1, <1>3 DEF TableExact
  <2>2. ASSUME NEW f, f # e PROVE Publishing(f)' = Publishing(f)
    <3>1. \A s \in Threads : s \in Publishing(f)' <=> s \in Publishing(f)
      BY Zenon, <1>6, <1>7, <2>2, OtherThreads
    <3>2. Publishing(f)' \subseteq Threads /\ Publishing(f) \subseteq Threads
      BY Zenon, <1>6, OtherThreads
    <3> HIDE DEF Publishing
    <3> QED BY Zenon, <3>1, <3>2
  <2>3. \A s \in Publishing(e)' : s = t
    <3>1. \A s \in Threads : s # t => (s \in Publishing(e)' <=> s \in Publishing(e))
      BY Zenon, <1>6, OtherThreads
    <3>2. Publishing(e)' \subseteq Threads
      BY Zenon, <1>6, OtherThreads
    <3> HIDE DEF Publishing
    <3> QED BY Zenon, <2>1, <3>1, <3>2
  <2>4. Publishing(e)' # {} /\ \A r, s \in Publishing(e)' : r = s
    <3>1. t \in Publishing(e)'
      BY Zenon, <1>7
    <3> HIDE DEF Publishing
    <3> QED BY Zenon, <2>3, <3>1
  <2>5. known' = known
    BY Zenon, <1>2
  <2> HIDE DEF Publishing
  <2>6. \A f \in Fds : f # e => /\ fdTable'[f].handle = fdTable[f].handle
                                /\ Publishing(f)' = Publishing(f)
                                /\ f \in known' <=> f \in known
    BY Zenon, <1>5, <2>2, <2>5
  <2>7. /\ fdTable'[e].handle # Null /\ e \notin known'
        /\ \A f \in Fds : f # e => fdTable[f].handle # fdTable'[e].handle
    BY Zenon, <1>4, <1>5, <2>1, <2>5
  <2> QED BY Zenon, <1>1, <1>3, <2>4, <2>6, <2>7, TableLemma
<1>14. NoOrphan'
  <2> SUFFICES ASSUME NEW g \in Handles, sk'[g].life = "open", ~down'
               PROVE  \/ \E f \in Fds : fdTable'[f].handle = g
                      \/ \E s \in Threads : call'[s].op = "reserve" /\ call'[s].handle = g
                      \/ g \in undelivered'
    BY Zenon DEF NoOrphan
  <2>1. CASE g = h
    BY Zenon, <1>3, <1>5, <2>1
  <2>2. CASE g # h
    <3>1. \/ \E f \in Fds : fdTable[f].handle = g
          \/ \E s \in Threads : call[s].op = "reserve" /\ call[s].handle = g
          \/ g \in undelivered
      BY Zenon, <1>1, <1>2 DEF NoOrphan
    <3>2. \A s \in Threads : call[s].op = "reserve" /\ call[s].handle = g =>
            call'[s].op = "reserve" /\ call'[s].handle = g
      BY Zenon, <1>0, <1>6, <2>2
    <3>3. \A f \in Fds : fdTable[f].handle = g => fdTable'[f].handle = g
      BY Zenon, <1>1, <1>3, <1>5
    <3> QED BY Zenon, <1>2, <3>1, <3>2, <3>3
  <2> QED BY Zenon, <2>1, <2>2
<1>15. ReadinessShown'
  <2> SUFFICES ASSUME NEW f \in Fds, fdTable'[f].handle # Null,
                      Resolves(fdTable[f].handle)'
               PROVE  Shows(fdTable'[f].ready, sk'[fdTable'[f].handle], f)
    BY Zenon DEF ReadinessShown
  <2>0. sk' = sk
    BY Zenon, <1>2
  <2>1. CASE f = e
    <3>1. fdTable'[f].ready = "none" /\ sk'[fdTable'[f].handle].fd # f
      BY Zenon, <1>1, <1>3, <1>4, <1>5, <2>0, <2>1 DEF Entries
    <3> QED BY Zenon, <3>1 DEF Shows
  <2>2. CASE f # e
    <3>1. fdTable'[f] = fdTable[f] /\ Resolves(fdTable[f].handle)
      BY Zenon, <1>5, <2>0, <2>2 DEF Resolves
    <3> QED BY Zenon, <2>0, <3>1 DEF ReadinessShown
  <2> QED BY Zenon, <2>1, <2>2
<1>16. Announces
  <2>1. Notified => Notified'
    BY Zenon, <1>2, <1>6 DEF Notified
  <2>2. fdTable'[e].ready = "none"
    BY Zenon, <1>1, <1>3, <1>5 DEF Entries
  <2> QED BY Zenon, <1>2, <1>5, <2>1, <2>2 DEF Announces
<1> QED BY Zenon, <1>9, <1>10, <1>11, <1>12, <1>13, <1>14, <1>15, <1>16 DEF Kept, FdInv

-----------------------------------------------------------------------------
(***************************************************************************)
(* The table as a whole.                                                   *)
(***************************************************************************)

LEMMA HarmlessKept ==
  ASSUME FdInv, Harmless
  PROVE  Kept
  BY Zenon, QuietKeeps DEF Harmless, Kept

\* socket_public_notify, by the owner or by a thread, and the start of shutdown.
LEMMA NotifyHarmless ==
  ASSUME FdInv, ReadinessShown, OwnerNotify \/ Stop \/ \E t \in Threads : Notify(t)
  PROVE  Harmless
<1>1. /\ call \in [Threads -> Local] /\ moved \in [Waiters -> BOOLEAN]
      /\ down \in BOOLEAN /\ notifying \in BOOLEAN
      /\ Idle \in Local /\ Idle.op = "idle"
  BY Zenon, TypeFacts, IdleLemma DEF FdInv, TypeOK
<1>2. /\ sk' = sk /\ fdTable' = fdTable /\ undelivered' = undelivered /\ known' = known
      /\ down' \in BOOLEAN /\ (down => down') /\ notifying' \in BOOLEAN
      /\ moved' \in [Waiters -> BOOLEAN]
  BY Zenon, <1>1 DEF OwnerNotify, Stop, Notify, Wake
<1>3. call' \in [Threads -> Local] /\ Calls
  <2>1. CASE call' = call
    BY Zenon, <1>1, <2>1 DEF Calls
  <2>2. ASSUME NEW t \in Threads, Notify(t) PROVE call' \in [Threads -> Local] /\ Calls
    <3>1. /\ call' \in [Threads -> Local] /\ call'[t] = Idle /\ call[t].op = "notify"
          /\ \A s \in Threads : s # t => call'[s] = call[s]
      BY Zenon, <1>1, <2>2, ReturnLemma DEF Notify
    <3>2. t \notin Publishers
      BY Zenon, <3>1 DEF Publishers
    <3> QED BY Zenon, <1>1, <3>1, <3>2 DEF Calls
  <2> QED BY Zenon, <2>1, <2>2 DEF OwnerNotify, Stop
<1>4. ReadinessShown'
  BY Zenon, <1>2 DEF ReadinessShown, Resolves
<1>5. Quiet
  <2>1. sk \in [Handles -> Socket] /\ fdTable \in [Fds -> Entry]
    BY Zenon, TypeFacts DEF FdInv
  <2>2. Ages /\ Stores
    BY Zenon, <1>2, <2>1 DEF Ages, Stores
  <2>3. /\ undelivered' \subseteq undelivered
        /\ \A h \in undelivered \ undelivered' : sk'[h].life # "open"
    BY Zenon, <1>2
  <2> QED BY Zenon, <1>2, <1>3, <2>1, <2>2, <2>3 DEF Quiet
<1>6. Announces
  <2>1. CASE Stop
    <3>1. moved' = moved /\ call' = call /\ notifying' = notifying
      BY Zenon, <2>1 DEF Stop
    <3> QED BY Zenon, <1>2, <3>1 DEF Announces, Notified
  <2> QED BY Zenon, <2>1 DEF Announces, OwnerNotify, Notify, Wake
<1> QED BY Zenon, <1>4, <1>5, <1>6 DEF Harmless

\* nclose on a number that names another socket by now leaves the table alone.
LEMMA ClearHarmless ==
  ASSUME FdInv, ReadinessShown, NEW t \in Threads, Clear(t),
         ~Names(call[t].fd, call[t].handle)
  PROVE  Harmless
<1>1. /\ call[t].op = "clear" /\ Goto(t, "notify") /\ Elsewhere
      /\ UNCHANGED <<sk, fdTable, notifying>>
  BY Zenon DEF Clear, Elsewhere
<1>2. /\ call' \in [Threads -> Local] /\ call'[t].op = "notify"
      /\ \A s \in Threads : s # t => call'[s] = call[s]
  <2>1. "notify" \in Ops
    BY Zenon DEF Ops
  <2> QED BY Zenon, <1>1, <2>1, GotoLemma
<1>3. Tended /\ t \notin Publishers /\ (notifying => notifying')
  BY Zenon, <1>1, SameTended DEF Publishers
<1> QED BY Zenon, <1>1, <1>2, <1>3, ThreadHarmless

\* Every step of the table preserves its invariant and announces what it shows.
LEMMA FdStepKept ==
  ASSUME FdInv, ReadinessShown, FdNext
  PROVE  Kept
<1>1. CASE OwnerNotify \/ Stop \/ \E t \in Threads : Notify(t)
  BY Zenon, <1>1, NotifyHarmless, HarmlessKept
<1>2. CASE \E h \in Handles : Event(h) \/ UsedUp(h) \/ Free(h) \/ Reap(h) \/ StopSocket(h)
  BY Zenon, <1>2, OwnerHarmless, HarmlessKept
<1>3. ASSUME NEW t \in Threads, NewSocket(t) \/ Reserve(t) \/ Unpublish(t)
      PROVE  Kept
  BY Zenon, <1>3, NewSocketKept, ReserveKept, ReserveFullKept, UnpublishKept
<1>4. ASSUME NEW t \in Threads, Publish(t) \/ Clear(t)
      PROVE  Kept
  BY Zenon, <1>4, PublishKept, CallHarmless, ClearKept, ClearHarmless, HarmlessKept
<1>5. ASSUME NEW t \in Threads,
             \/ NSocket(t) \/ PublicCall(t) \/ Transfer(t) \/ Close(t) \/ CallFails(t)
             \/ CallDown(t) \/ \E f \in Fds : \/ NCall(t, f) \/ NAccept(t, f)
                                              \/ NOption(t, f) \/ NClose(t, f)
      PROVE  Kept
  <2>1. (\E f \in Fds : NCall(t, f) \/ NAccept(t, f) \/ NOption(t, f) \/ NClose(t, f)) =>
          \E f \in Fds, o \in {"check", "checkAccept", "checked", "close"} : Resolve(t, f, o)
    BY Zenon DEF NCall, NAccept, NOption, NClose
  <2> QED BY Zenon, <1>5, <2>1, CallHarmless, HarmlessKept
<1> QED BY Zenon, <1>1, <1>2, <1>3, <1>4, <1>5 DEF FdNext

LEMMA FdInitLemma == FdInit => FdInv /\ ReadinessShown
<1> SUFFICES ASSUME FdInit PROVE FdInv /\ ReadinessShown
  BY Zenon
<1>1. /\ \A f \in Fds : fdTable[f] = Empty
      /\ \A h \in Handles : sk[h].life = "none" /\ sk[h].fd = Null
      /\ \A t \in Threads : call[t].op = "idle"
      /\ undelivered = {} /\ known = {}
      /\ Empty.handle = Null /\ Empty.ready = "none"
  BY Zenon DEF FdInit, Empty, Idle
<1>2. TypeOK
  <2>1. /\ Empty \in Entry /\ Idle \in Local
        /\ [life |-> "none", ready |-> "none", fd |-> Null] \in Socket
    BY Zenon DEF Empty, Entry, Idle, Local, Socket, Masks, Ops
  <2> QED BY Zenon, <2>1 DEF FdInit, TypeOK, Entry, Local, Socket
<1>3. Publishers = {} /\ Users = {} /\ \A f : Publishing(f) = {}
  BY Zenon, <1>1 DEF Publishers, Users, Publishing
<1>4. Locals /\ Private
  BY Zenon, <1>3 DEF Locals, Private
<1>5. Entries /\ ReadinessShown
  BY Zenon, <1>1 DEF Entries, ReadinessShown
<1>6. TableExact
  <2> HIDE DEF Publishing
  <2> QED BY Zenon, <1>1, <1>3 DEF TableExact
<1>7. NoOrphan
  <2>1. "none" # "open"
    BY Zenon
  <2> QED BY Zenon, <1>1, <2>1 DEF NoOrphan
<1> QED BY Zenon, <1>2, <1>4, <1>5, <1>6, <1>7 DEF FdInv

\* A descriptor is withdrawn for its own socket only.
LEMMA FdStepWithdraws ==
  ASSUME FdInv, ReadinessShown, FdNext
  PROVE  WithdrawnAfterClose
<1>1. /\ Locals /\ Private /\ TableExact /\ fdTable \in [Fds -> Entry]
      /\ Null \notin Handles
  BY Zenon, Basics
<1> SUFFICES ASSUME NEW e \in Fds, fdTable[e].handle # Null,
                    fdTable'[e].handle # fdTable[e].handle
             PROVE  \/ sk[fdTable[e].handle].life \in {"closing", "gone"} \/ down
                    \/ \E t \in Threads : /\ call[t].op = "unpublish" /\ call[t].fd = e
                                          /\ call[t].handle = fdTable[e].handle
  BY Zenon DEF WithdrawnAfterClose
<1>2. ASSUME Harmless PROVE FALSE
  BY Zenon, <1>2 DEF Harmless, Quiet, Stores
<1>3. ASSUME NEW t \in Threads, Unpublish(t)
      PROVE  call[t].op = "unpublish" /\ call[t].fd = e /\ call[t].handle = fdTable[e].handle
  <2>1. call[t].op = "unpublish" /\ fdTable' = [fdTable EXCEPT ![call[t].fd] = Empty]
    BY Zenon, <1>3 DEF Unpublish
  <2>2. call[t].fd = e
    BY Zenon, <1>1, <2>1
  <2> QED BY Zenon, <1>1, <2>1, <2>2 DEF Private, Publishers, Names
<1>4. ASSUME NEW t \in Threads, Clear(t), Names(call[t].fd, call[t].handle)
      PROVE  sk[fdTable[e].handle].life \in {"closing", "gone"} \/ down
  <2>1. call[t].op = "clear" /\ fdTable' = [fdTable EXCEPT ![call[t].fd] = Empty]
    BY Zenon, <1>4 DEF Clear
  <2>2. call[t].fd = e
    BY Zenon, <1>1, <2>1
  <2>3. call[t].handle = fdTable[e].handle
    BY Zenon, <1>4, <2>2 DEF Names
  <2> QED BY Zenon, <1>1, <2>1, <2>3 DEF Locals, Users
<1>5. ASSUME NEW t \in Threads, NewSocket(t) PROVE FALSE
  BY Zenon, <1>5 DEF NewSocket
<1>6. ASSUME NEW t \in Threads, Reserve(t) PROVE FALSE
  <2>1. Unused # {} /\ fdTable' = [fdTable EXCEPT ![Min(Unused)].handle = call[t].handle]
    BY Zenon, <1>6 DEF Reserve
  <2>2. Min(Unused) \in Unused
    <3>1. Unused \in SUBSET Fds
      BY Zenon DEF Unused
    <3> QED BY Zenon, <2>1, <3>1, MinLemma
  <2>3. Min(Unused) # e
    BY Zenon, <2>2 DEF Unused
  <2> QED BY Zenon, <1>1, <2>1, <2>3
<1>7. ASSUME NEW t \in Threads, Publish(t), Accepts(call[t].handle) PROVE FALSE
  <2>1. PICK s : Refresh(call[t].handle, s)
    BY Zenon, <1>7 DEF Publish
  <2>2. fdTable' = fdTable \/ fdTable' = [fdTable EXCEPT ![s.fd].ready = MaskOf(s)]
    BY Zenon, <2>1 DEF Refresh
  <2> QED BY <1>1, <2>2 DEF Entry
<1>8. ASSUME NEW t \in Threads,
             \/ NSocket(t) \/ PublicCall(t) \/ Transfer(t) \/ Close(t) \/ CallFails(t)
             \/ CallDown(t) \/ \E f \in Fds : \/ NCall(t, f) \/ NAccept(t, f)
                                              \/ NOption(t, f) \/ NClose(t, f)
      PROVE  FALSE
  <2>1. (\E f \in Fds : NCall(t, f) \/ NAccept(t, f) \/ NOption(t, f) \/ NClose(t, f)) =>
          \E f \in Fds, o \in {"check", "checkAccept", "checked", "close"} : Resolve(t, f, o)
    BY Zenon DEF NCall, NAccept, NOption, NClose
  <2> QED BY Zenon, <1>2, <1>8, <2>1, CallHarmless
<1>9. ASSUME NEW t \in Threads, Publish(t) \/ Clear(t)
      PROVE  \/ Publish(t) /\ Accepts(call[t].handle)
             \/ Clear(t) /\ Names(call[t].fd, call[t].handle)
  BY Zenon, <1>2, <1>9, CallHarmless, ClearHarmless
<1> QED BY Zenon, <1>2, <1>3, <1>4, <1>5, <1>6, <1>7, <1>8, <1>9, NotifyHarmless,
           OwnerHarmless DEF FdNext
=============================================================================
