------------------------- MODULE SocketOwnerService -------------------------
(***************************************************************************)
(* What the command channel promises its callers: cancellations take       *)
(* effect, no unclaimed socket survives its request, a socket is closed by *)
(* its owner only, wait queues are served in order, and every accepted     *)
(* request is answered once (RequestService).                              *)
(*                                                                         *)
(* Each step is summarised once, for a calling thread by CallerSummary and *)
(* for the owner core by OwnerSummary; the theorems follow from the two.   *)
(***************************************************************************)
EXTENDS SocketOwnerProofs

-----------------------------------------------------------------------------
(***************************************************************************)
(* What a function of the owner does to sockets and to the order of        *)
(* answers.                                                                *)
(***************************************************************************)

\* A handle is never reopened.
SockStep ==
  \A s \in Socks : /\ sock[s] \in {"closed", "retired"} => sock'[s] \in {"closed", "retired"}
                   /\ sock[s] = "open" => sock'[s] # "unused"

\* A new socket comes with its result, and keeps its handle.
ResultStep ==
  \A c \in Cmds :
    /\ Done(c) => resultSock'[c] = resultSock[c]
    /\ Produces(c) /\ ~Done(c) /\ outcome'[c] = "OK" =>
         resultSock'[c] \in Socks /\ sock'[resultSock'[c]] = "open"

InOrder ==
  \A s \in Socks, k \in Waitable : \A i, j \in DOMAIN waitq[s][k] :
    i < j /\ outcome'[waitq[s][k][j]] = "OK" => outcome'[waitq[s][k][i]] # Pending

\* No request succeeds in this step.
NoSuccess == \A c \in Cmds : ~Done(c) => outcome'[c] # "OK"

Deeds == SockStep /\ ResultStep /\ InOrder

\* Waiting requests are unfinished.
LEMMA WaitersPending ==
  ASSUME IInv, NEW s \in Socks, NEW k \in Waitable, NEW i \in DOMAIN waitq[s][k]
  PROVE  /\ waitq[s][k][i] \in Cmds /\ ~Done(waitq[s][k][i]) /\ waitq[s][k][i] \in active
         /\ Target[waitq[s][k][i]] = s /\ Kind[waitq[s][k][i]] = k
<1>1. TypeOK /\ ParkedSound
  BY Zenon DEF IInv
<1>2. waitq[s][k] \in Seq(Cmds)
  BY <1>1 DEF TypeOK
<1>3. waitq[s][k][i] \in Range(waitq[s][k])
  BY Zenon DEF Range
<1> QED BY <1>1, <1>2, <1>3 DEF ParkedSound

\* Steps in which no request succeeds disturb neither the order nor a result.
LEMMA QuietDeeds ==
  ASSUME IInv, NoSuccess, SockStep, resultSock' = resultSock
  PROVE  Deeds
<1>1. InOrder
  BY Zenon, WaitersPending DEF InOrder, NoSuccess
<1>2. ResultStep
  BY Zenon DEF ResultStep, NoSuccess
<1> QED BY Zenon, <1>1, <1>2 DEF Deeds

\* Answers other than success.
LEMMA CommitFails ==
  ASSUME IInv, NEW o, NEW parked, Commit(o, parked),
         \A c \in DOMAIN o : o[c] \in Outcomes \ {"OK"}
  PROVE  NoSuccess
<1>1. TypeOK
  BY Zenon DEF IInv
<1>2. \A c \in Cmds : /\ Done(c) \/ c \notin DOMAIN o => outcome'[c] = outcome[c]
                      /\ ~Done(c) /\ c \in DOMAIN o => outcome'[c] = o[c]
  BY <1>1, CommitLemma
<1> QED BY Zenon, <1>2 DEF NoSuccess, Done, Pending

\* command_cancel_local answers with a reason.
LEMMA CancelFails ==
  ASSUME IInv, NEW c \in Cmds, NEW e \in Reasons, CancelLocal(c, e)
  PROVE  NoSuccess
<1>1. Commit(CancelOutcomes(c, e), {})
  BY Zenon DEF CancelLocal
<1>2. \A d \in DOMAIN CancelOutcomes(c, e) : CancelOutcomes(c, e)[d] = e
  BY Zenon DEF CancelOutcomes, NoOutcome
<1>3. e \in Outcomes \ {"OK"}
  BY Zenon DEF Outcomes, Reasons
<1> QED BY Zenon, <1>1, <1>2, <1>3, CommitFails

LEMMA SameSocks ==
  ASSUME IInv, sock' = sock
  PROVE  SockStep
BY Zenon DEF SockStep

\* socket_owner_wake_recv, _send and _accept: the queue is served from its
\* head, and a child is handed out with a handle of its own.
LEMMA WakeDeeds ==
  ASSUME IInv, NEW s \in Socks, NEW k \in Waitable, NEW q \in Seq(Cmds), NoRepeat(q),
         \A c \in Range(q) : ~Done(c) /\ Target[c] = s /\ Kind[c] = k,
         \A i \in DOMAIN waitq[s][k] : i \in DOMAIN q /\ q[i] = waitq[s][k][i],
         WakeQueue(s, k, q)
  PROVE  Deeds /\ \A t \in Socks : sock[t] = "open" => sock'[t] = "open"
<1>1. PICK n \in 0..Len(q) :
        \E o \in [{q[i] : i \in 1..n} -> Outcomes] :
          /\ Commit(o, Range(q))
          /\ Adopt({c \in {q[i] : i \in 1..n} : k = "ACCEPT" /\ o[c] = "OK"})
  BY Zenon DEF WakeQueue
<1> DEFINE served == {q[i] : i \in 1..n}
<1>2. PICK o \in [served -> Outcomes] :
        /\ Commit(o, Range(q))
        /\ Adopt({c \in served : k = "ACCEPT" /\ o[c] = "OK"})
  BY <1>1, Zenon
<1> DEFINE new == {c \in served : k = "ACCEPT" /\ o[c] = "OK"}
<1>3. TypeOK
  BY Zenon DEF IInv
<1>4. served \subseteq Range(q) /\ Range(q) \subseteq Cmds
  BY DEF Range
<1>5. PICK f \in [new -> {t \in Socks : sock[t] = "unused"}] :
        /\ sock' = [t \in Socks |-> IF t \in Range(f) THEN "open" ELSE sock[t]]
        /\ resultSock' = [c \in Cmds |-> IF c \in new THEN f[c] ELSE resultSock[c]]
  BY <1>2, Zenon DEF Adopt
<1>6. \A i \in 1..n : q[i] \in served
  BY Zenon
<1>7. \A c \in Cmds : /\ Done(c) \/ c \notin served => outcome'[c] = outcome[c]
                      /\ ~Done(c) /\ c \in served => outcome'[c] = o[c]
  <2> HIDE DEF served, new
  <2>1. DOMAIN o = served /\ \A c \in DOMAIN o : o[c] \in Outcomes
    BY Zenon
  <2> QED BY <1>2, <1>3, <2>1, CommitLemma
<1>8. \A t \in Range(f) : t \in Socks /\ sock[t] = "unused"
  BY DEF Range
<1>9. \A c \in new : f[c] \in Range(f)
  BY Zenon DEF Range
<1>10. ResultStep
  <2> SUFFICES ASSUME NEW c \in Cmds
               PROVE  /\ Done(c) => resultSock'[c] = resultSock[c]
                      /\ Produces(c) /\ ~Done(c) /\ outcome'[c] = "OK" =>
                           resultSock'[c] \in Socks /\ sock'[resultSock'[c]] = "open"
    BY Zenon DEF ResultStep
  <2>1. Done(c) => c \notin new
    BY Zenon, <1>4
  <2>2. ASSUME Produces(c), ~Done(c), outcome'[c] = "OK"
        PROVE  c \in new
    <3>1. c \in served
      BY Zenon, <1>7, <2>2 DEF Done, Pending
    <3>2. k = "ACCEPT"
      BY Zenon, <1>4, <2>2, <3>1 DEF Produces, Waitable
    <3> QED BY Zenon, <1>7, <2>2, <3>1, <3>2
  <2> HIDE DEF new, served
  <2> QED BY Zenon, <1>5, <1>8, <1>9, <2>1, <2>2
<1>11. SockStep /\ \A t \in Socks : sock[t] = "open" => sock'[t] = "open"
  <2> HIDE DEF new, served
  <2> QED BY Zenon, <1>5, <1>8 DEF SockStep
<1>12. InOrder
  <2> SUFFICES ASSUME NEW t \in Socks, NEW l \in Waitable,
                      NEW i \in DOMAIN waitq[t][l], NEW j \in DOMAIN waitq[t][l],
                      i < j, outcome'[waitq[t][l][j]] = "OK"
               PROVE  outcome'[waitq[t][l][i]] # Pending
    BY Zenon DEF InOrder
  <2> DEFINE a == waitq[t][l][i]
             b == waitq[t][l][j]
  <2>1. /\ a \in Cmds /\ b \in Cmds /\ ~Done(a) /\ ~Done(b)
        /\ Target[b] = t /\ Kind[b] = l
    BY WaitersPending
  <2>2. b \in served
    BY Zenon, <1>7, <2>1 DEF Done, Pending
  <2>3. t = s /\ l = k
    BY Zenon, <1>4, <2>1, <2>2
  <2>4. PICK m \in 1..n : q[m] = b
    BY Zenon, <2>2
  <2>5. i \in 1..Len(q) /\ j \in 1..Len(q) /\ q[i] = a /\ q[j] = b
    BY <2>3
  <2>6. m = j
    BY <2>4, <2>5 DEF NoRepeat
  <2>7. i \in 1..n
    BY <2>5, <2>6
  <2>8. a \in served
    BY Zenon, <1>6, <2>5, <2>7
  <2> HIDE DEF a, b, served
  <2>9. outcome'[a] \in Outcomes
    BY Zenon, <1>7, <2>1, <2>8
  <2> QED BY Zenon, <2>9, OutcomesLemma DEF a
<1> QED BY Zenon, <1>10, <1>11, <1>12 DEF Deeds

\* A step in which only the request that is being started may succeed.
LEMMA LoneSuccess ==
  ASSUME IInv, NEW c \in Cmds, c \notin active,
         \A d \in Cmds \ {c} : ~Done(d) => outcome'[d] # "OK"
  PROVE  /\ InOrder
         /\ ~Produces(c) /\ resultSock' = resultSock => ResultStep
<1>1. InOrder
  <2> SUFFICES ASSUME NEW s \in Socks, NEW k \in Waitable,
                      NEW i \in DOMAIN waitq[s][k], NEW j \in DOMAIN waitq[s][k]
               PROVE  outcome'[waitq[s][k][j]] # "OK"
    BY Zenon DEF InOrder
  <2> QED BY WaitersPending
<1>2. ~Produces(c) /\ resultSock' = resultSock => ResultStep
  BY Zenon DEF ResultStep
<1> QED BY Zenon, <1>1, <1>2

\* command_start: only CLOSE closes a socket, and a request that was cancelled
\* or whose owner stops is answered at once.
LEMMA StartDeeds ==
  ASSUME IInv, NEW c \in Cmds, c \in Queued, NEW e \in Reasons \cup {None},
         StartCommand(c, e)
  PROVE  /\ Deeds
         /\ \A t \in Socks : sock[t] = "open" /\ sock'[t] # "open" =>
              Kind[c] = "CLOSE" /\ Target[c] = t
         /\ e # None => outcome'[c] # Pending
<1> DEFINE s == Target[c]
           Closes == \A t \in Socks : sock[t] = "open" /\ sock'[t] # "open" =>
                        Kind[c] = "CLOSE" /\ Target[c] = t
<1>1. TypeOK /\ ParkedSound /\ LifeCycle /\ LinkedOnce /\ s \in Socks /\ Kind[c] \in Kinds
  BY Zenon, TargetAssumption, KindAssumption DEF IInv
<1>2. c \notin active /\ ~Done(c)
  BY Zenon, <1>1 DEF LinkedOnce, LifeCycle
<1>3. CASE e # None
  <2>1. CancelLocal(c, e) /\ sock' = sock /\ resultSock' = resultSock
    BY Zenon, <1>3 DEF StartCommand
  <2>2. Running(active \cup {c}) /\ e \in Outcomes
    BY Zenon, <1>1, <1>2, <1>3 DEF Running, TypeOK, Outcomes
  <2>3. outcome'[c] # Pending
    BY Zenon, <2>1, <2>2, CancelEffect
  <2>4. e \in Reasons
    BY Zenon, <1>3
  <2> QED BY Zenon, <2>1, <2>3, <2>4, CancelFails, SameSocks, QuietDeeds
<1>4. ASSUME NEW v \in Outcomes, Commit(Outcome(c, v), {})
      PROVE  \A d \in Cmds : outcome'[d] = IF d = c THEN v ELSE outcome[d]
  <2>1. /\ DOMAIN Outcome(c, v) = {c} /\ Outcome(c, v)[c] = v
        /\ \A d \in DOMAIN Outcome(c, v) : Outcome(c, v)[d] \in Outcomes
    BY Zenon, <1>4 DEF Outcome
  <2> QED BY <1>1, <1>2, <1>4, <2>1, CommitLemma
<1>5. ASSUME NEW v \in Outcomes, Finish(c, v), v = "OK" => ~Produces(c)
      PROVE  Deeds /\ Closes
  <2>1. sock' = sock /\ resultSock' = resultSock /\ Commit(Outcome(c, v), {})
    BY Zenon, <1>5 DEF Finish
  <2>2. \A d \in Cmds : outcome'[d] = IF d = c THEN v ELSE outcome[d]
    BY Zenon, <1>4, <2>1
  <2>3. CASE v = "OK"
    BY Zenon, <1>2, <1>5, <2>1, <2>2, <2>3, LoneSuccess, SameSocks DEF Deeds, Done, Pending
  <2>4. CASE v # "OK"
    <3>1. NoSuccess
      BY Zenon, <2>2, <2>4 DEF NoSuccess, Done, Pending
    <3> QED BY Zenon, <2>1, <3>1, SameSocks, QuietDeeds
  <2> QED BY Zenon, <2>3, <2>4
<1>6. ASSUME Park(c)
      PROVE  Deeds /\ Closes
  <2>1. sock' = sock /\ resultSock' = resultSock /\ Commit(NoOutcome, {c})
    BY Zenon, <1>6 DEF Park
  <2>2. DOMAIN NoOutcome = {}
    BY Zenon DEF NoOutcome
  <2>3. NoSuccess
    BY Zenon, <2>1, <2>2, CommitFails
  <2> QED BY Zenon, <2>1, <2>3, SameSocks, QuietDeeds
<1>7. {"OK", "ERROR", "EAGAIN", "EBADF"} \subseteq Outcomes
  BY Zenon DEF Outcomes
<1>8. ASSUME e = None
      PROVE  Deeds /\ Closes
  <2>1. Process(c) \/ Finish(c, "ERROR")
    BY Zenon, <1>8 DEF StartCommand
  <2>2. CASE Finish(c, "ERROR")
    BY Zenon, <1>5, <1>7, <2>2
  <2>3. CASE Process(c) /\ Kind[c] = "CREATE"
    <3>1. ASSUME Commit(Outcome(c, "OK"), {}), Adopt({c})
          PROVE  Deeds /\ Closes
      <4>1. \A d \in Cmds : outcome'[d] = IF d = c THEN "OK" ELSE outcome[d]
        BY Zenon, <1>4, <1>7, <3>1
      <4>2. PICK f \in [{c} -> {t \in Socks : sock[t] = "unused"}] :
              /\ sock' = [t \in Socks |-> IF t \in Range(f) THEN "open" ELSE sock[t]]
              /\ resultSock' = [d \in Cmds |-> IF d \in {c} THEN f[d] ELSE resultSock[d]]
        BY <3>1, Zenon DEF Adopt
      <4>3. f[c] \in Range(f) /\ \A t \in Range(f) : t \in Socks /\ sock[t] = "unused"
        BY Zenon DEF Range
      <4>4. SockStep /\ Closes
        BY Zenon, <4>2, <4>3 DEF SockStep
      <4>5. ResultStep
        BY Zenon, <1>2, <4>1, <4>2, <4>3 DEF ResultStep, Done, Pending
      <4>6. InOrder
        BY Zenon, <1>2, <4>1, LoneSuccess DEF Done, Pending
      <4> QED BY Zenon, <4>4, <4>5, <4>6 DEF Deeds
    <3> QED BY Zenon, <1>5, <1>7, <2>3, <3>1 DEF Process, ProcessCreate
  <2>4. CASE Process(c) /\ Kind[c] # "CREATE" /\ sock[s] # "open"
    BY Zenon, <1>5, <1>7, <2>4 DEF Process
  <2>5. CASE Process(c) /\ sock[s] = "open" /\ Kind[c] = "CONNECT"
    BY Zenon, <1>5, <1>6, <1>7, <2>5 DEF Process, ProcessConnect
  <2>6. CASE Process(c) /\ sock[s] = "open" /\ Kind[c] = "SEND"
    BY Zenon, <1>5, <1>6, <1>7, <2>6 DEF Process, ProcessSend, Produces
  <2>7. CASE Process(c) /\ sock[s] = "open" /\ Kind[c] = "CONTROL"
    BY Zenon, <1>5, <1>7, <2>7 DEF Process, ProcessControl, Produces
  <2>8. CASE Process(c) /\ sock[s] = "open" /\ Kind[c] \in {"RECV", "ACCEPT"}
    <3> DEFINE k == Kind[c]
               q == Append(waitq[s][k], c)
    <3>1. k \in Waitable /\ waitq[s][k] \in Seq(Cmds)
      BY <1>1, <2>8 DEF Waitable, TypeOK
    <3>2. CASE Finish(c, "ERROR")
      BY Zenon, <1>5, <1>7, <3>2
    <3>3. CASE WakeQueue(s, k, q)
      <4>1. \A d \in Range(waitq[s][k]) : d \in active /\ ~Done(d) /\ Target[d] = s /\ Kind[d] = k
        BY <1>1, <3>1 DEF ParkedSound
      <4>2. NoRepeat(waitq[s][k]) /\ c \notin Range(waitq[s][k])
        BY Zenon, <1>1, <1>2, <3>1, <4>1 DEF ParkedSound
      <4>3. q \in Seq(Cmds) /\ Range(q) = Range(waitq[s][k]) \cup {c} /\ NoRepeat(q)
        BY <3>1, <4>2, AppendLemma
      <4>4. \A i \in DOMAIN waitq[s][k] : i \in DOMAIN q /\ q[i] = waitq[s][k][i]
        BY <3>1
      <4> HIDE DEF q, k
      <4>5. \A d \in Range(q) : ~Done(d) /\ Target[d] = s /\ Kind[d] = k
        BY Zenon, <1>2, <4>1, <4>3 DEF k
      <4> QED BY Zenon, <1>1, <3>1, <3>3, <4>3, <4>4, <4>5, WakeDeeds
    <3> QED BY Zenon, <2>8, <3>2, <3>3 DEF Process, ProcessQueued
  <2>9. CASE Process(c) /\ sock[s] = "open" /\ Kind[c] = "CLOSE"
    <3>1. PICK v \in {"OK", "ERROR"} :
            Commit([d \in {c} \cup Waiters(s) |-> IF d = c THEN v ELSE "ECANCELED"], {})
      BY Zenon, <2>9 DEF Process, ProcessClose
    <3>2. PICK life \in {"closed", "retired"} : sock' = [sock EXCEPT ![s] = life]
      BY Zenon, <2>9 DEF Process, ProcessClose
    <3>3. resultSock' = resultSock
      BY Zenon, <2>9 DEF Process, ProcessClose
    <3> DEFINE o == [d \in {c} \cup Waiters(s) |-> IF d = c THEN v ELSE "ECANCELED"]
    <3>4. \A d \in DOMAIN o : o[d] \in Outcomes
      BY Zenon, <1>7 DEF Outcomes, Reasons
    <3>5. \A d \in DOMAIN o : d # c => o[d] = "ECANCELED"
      BY Zenon
    <3> HIDE DEF o
    <3>6. \A d \in Cmds : /\ d \notin DOMAIN o => outcome'[d] = outcome[d]
                          /\ ~Done(d) /\ d \in DOMAIN o => outcome'[d] = o[d]
      BY <1>1, <3>1, <3>4, CommitLemma DEF o
    <3>7. \A d \in Cmds \ {c} : ~Done(d) => outcome'[d] # "OK"
      BY Zenon, <3>5, <3>6 DEF Done, Pending
    <3>8. ~Produces(c)
      BY Zenon, <2>9 DEF Produces
    <3>9. InOrder /\ ResultStep
      BY Zenon, <1>2, <3>3, <3>7, <3>8, LoneSuccess
    <3>10. SockStep /\ Closes
      BY Zenon, <1>1, <2>9, <3>2 DEF SockStep, TypeOK
    <3> QED BY Zenon, <3>9, <3>10 DEF Deeds
  <2> QED BY Zenon, <1>1, <2>1, <2>2, <2>3, <2>4, <2>5, <2>6, <2>7, <2>8, <2>9 DEF Kinds, Waitable
<1> QED BY Zenon, <1>3, <1>8

-----------------------------------------------------------------------------
(***************************************************************************)
(* Every step of the owner core.                                           *)
(***************************************************************************)

\* Requests are submitted to the ring of their kind, so the data burst closes
\* no socket.
RingKinds ==
  /\ \A r \in Rings : \A c \in Range(ring[r]) : RingOf(c) = r
  /\ opc = "data" => \A c \in Range(burst) : Kind[c] # "CLOSE"

\* The condition of OnlyOwnersClose.
ClosedByOwner ==
  \A s \in Socks : sock[s] = "open" /\ sock'[s] # "open" =>
    \/ opc = "close" /\ Kind[Head(burst)] = "CLOSE" /\ Target[Head(burst)] = s
    \/ opc = "drain"
    \/ \E c \in Cmds : resultSock[c] = s /\ ~claimed[c] /\ pc[c] = "gone"

\* The owner only takes requests and notifications away.
Shrinks ==
  /\ pc' = pc /\ claimed' = claimed
  /\ Queued' \subseteq Queued /\ OwnerHolds' \subseteq OwnerHolds /\ Handed' \subseteq Handed
  /\ Range(cancelList') \subseteq Range(cancelList)
  /\ opc = "drain" => opc' = "drain" \/ (opc' = "stopped" /\ active = {})

\* What becomes of one request.
Fate(c) ==
  /\ Done(c) \/ c \notin OwnerHolds => outcome'[c] = outcome[c]
  /\ c \in OwnerHolds \ OwnerHolds' => outcome'[c] # Pending
  /\ ~Done(c) /\ outcome'[c] = "OK" => c \in OwnerHolds'
  /\ c \in Queued \ Queued' /\ cancelError'[c] # None => outcome'[c] # Pending
  /\ c \in Range(cancelList) \ Range(cancelList') => outcome'[c] # Pending \/ c \in Queued'
  /\ c \notin Queued \ Queued' => cancelError'[c] = cancelError[c]
  /\ opc # "drain" /\ c \in OwnerHolds \ OwnerHolds' /\ Unclaimed(c) /\ resultSock[c] \in Socks
       => sock'[resultSock[c]] # "open"

OwnerSummary == Shrinks /\ Deeds /\ ClosedByOwner /\ \A c \in Cmds : Fate(c)

\* Owner steps that settle or park requests of the active list, and neither
\* start nor finish with any.
LEMMA SettleSummary ==
  ASSUME IInv, Effect(active), Deeds, ClosedByOwner, active' = active,
         UNCHANGED <<pc, claimed, ring, burst, cancelError, listVars>>,
         opc' = opc \/ (opc = "drain" /\ opc' = "stopped" /\ active = {})
  PROVE  OwnerSummary
<1>1. /\ Queued' = Queued /\ OwnerHolds' = OwnerHolds /\ Handed' = Handed
      /\ cancelList' = cancelList
  BY Zenon DEF Queued, OwnerHolds, Handed, listVars
<1>2. Shrinks
  BY Zenon, <1>1 DEF Shrinks
<1>3. ASSUME NEW c \in Cmds PROVE Fate(c)
  <2>1. /\ Done(c) \/ c \notin OwnerHolds => outcome'[c] = outcome[c]
        /\ ~Done(c) /\ outcome'[c] = "OK" => c \in active
    BY Zenon DEF Effect, OwnerHolds, Done, Pending
  <2> QED BY Zenon, <1>1, <2>1 DEF Fate, OwnerHolds
<1> QED BY Zenon, <1>2, <1>3 DEF OwnerSummary

\* Steps that answer nobody and touch no socket.
LEMMA StillSummary ==
  ASSUME IInv, outcome' = outcome, cancelError' = cancelError,
         UNCHANGED <<sock, resultSock, active>>,
         Queued' = Queued, Shrinks,
         \A c \in Range(cancelList) \ Range(cancelList') : Done(c)
  PROVE  OwnerSummary
<1>1. OwnerHolds' = OwnerHolds
  BY Zenon DEF OwnerHolds
<1>2. NoSuccess
  BY Zenon DEF NoSuccess, Done, Pending
<1>3. Deeds
  BY Zenon, <1>2, SameSocks, QuietDeeds
<1>4. ClosedByOwner
  BY Zenon DEF ClosedByOwner
<1>5. ASSUME NEW c \in Cmds PROVE Fate(c)
  BY Zenon, <1>1, <1>2 DEF Fate, NoSuccess, Done
<1> QED BY Zenon, <1>3, <1>4, <1>5 DEF OwnerSummary

\* Taking a burst from a ring moves requests only.
LEMMA BurstSummary ==
  ASSUME IInv, BeginTurn \/ EndCloseBurst
  PROVE  OwnerSummary
<1>1. TypeOK /\ OwnerPhase
  BY Zenon DEF IInv
<1>2. PICK r \in Rings : burst' = TakeBurst(ring[r]) /\ ring' = [ring EXCEPT ![r] = AfterBurst(@)]
  BY Zenon DEF BeginTurn, EndCloseBurst, Rings
<1>3. /\ UNCHANGED <<pc, claimed, outcome, cancelError, sock, resultSock, active, cancelList>>
      /\ UNCHANGED <<controlList, batch, deferred>> /\ opc # "drain"
  BY Zenon DEF BeginTurn, EndCloseBurst, callerVars, cmdVars, listVars, sockVars
<1>4. burst = <<>>
  BY Zenon, <1>1 DEF BeginTurn, EndCloseBurst, OwnerPhase
<1>5. Range(burst) = {}
  BY <1>4 DEF Range
<1>6. ring'[r] = AfterBurst(ring[r]) /\ \A x \in Rings \ {r} : ring'[x] = ring[x]
  BY Zenon, <1>1, <1>2 DEF TypeOK
<1>7. Range(ring[r]) = Range(burst') \cup Range(ring'[r])
  BY Zenon, <1>1, <1>2, <1>6, BurstLemma DEF TypeOK
<1>8. Queued' = Queued
  BY Zenon, <1>5, <1>6, <1>7 DEF Queued, Rings
<1>9. Shrinks
  BY Zenon, <1>3, <1>8 DEF Shrinks, OwnerHolds, Handed
<1> QED BY Zenon, <1>3, <1>8, <1>9, StillSummary

\* Moving notifications, and the owner's program counter.
LEMMA MoveSummary ==
  ASSUME IInv, TakeControls \/ DeferOne \/ EndTurn \/ EndDataBurst \/ ShutdownBegins
  PROVE  OwnerSummary
<1>1. TypeOK /\ OwnerPhase
  BY Zenon DEF IInv
<1>2. /\ UNCHANGED <<pc, claimed, outcome, cancelError, sock, resultSock, active, cancelList>>
      /\ UNCHANGED <<ring, burst>> /\ opc # "drain"
  BY Zenon DEF TakeControls, DeferOne, EndTurn, EndDataBurst, ShutdownBegins,
         callerVars, cmdVars, listVars, sockVars
<1>3. controlList \in Seq(Cmds) /\ batch \in Seq(Cmds) /\ deferred \in Seq(Cmds)
  BY Zenon, <1>1 DEF TypeOK
<1>4. Range(<<>>) = {}
  BY DEF Range
<1>5. Handed' \subseteq Handed
  <2>1. CASE TakeControls
    <3>1. /\ batch' = TakeBurst(controlList) /\ controlList' = AfterBurst(controlList)
          /\ deferred' = deferred
      BY Zenon, <2>1 DEF TakeControls
    <3>2. Range(controlList) = Range(batch') \cup Range(controlList')
      BY Zenon, <1>3, <3>1, BurstLemma
    <3> QED BY Zenon, <3>1, <3>2 DEF Handed
  <2>2. CASE DeferOne
    <3>1. /\ batch # <<>> /\ batch' = Tail(batch) /\ deferred' = <<Head(batch)>> \o deferred
          /\ controlList' = controlList
      BY Zenon, <2>2 DEF DeferOne
    <3>2. Head(batch) \in Cmds /\ Range(batch) = Range(batch') \cup {Head(batch)}
      BY Zenon, <1>3, <3>1, PopLemma
    <3>3. Range(deferred') = Range(deferred) \cup {Head(batch)}
      BY <1>3, <3>1, <3>2, PushLemma
    <3> QED BY Zenon, <3>1, <3>2, <3>3 DEF Handed
  <2>3. CASE EndTurn
    <3>1. batch' = batch /\ deferred' = <<>> /\ controlList' = deferred \o controlList
      BY Zenon, <2>3 DEF EndTurn
    <3>2. Range(controlList') = Range(deferred) \cup Range(controlList)
      BY <1>3, <3>1, ConcatLemma
    <3> QED BY Zenon, <1>4, <3>1, <3>2 DEF Handed
  <2>4. CASE EndDataBurst \/ ShutdownBegins
    BY Zenon, <2>4 DEF EndDataBurst, ShutdownBegins, listVars, Handed
  <2> QED BY Zenon, <2>1, <2>2, <2>3, <2>4
<1>6. Queued' = Queued
  BY Zenon, <1>2 DEF Queued
<1>7. Shrinks
  BY Zenon, <1>2, <1>5, <1>6 DEF Shrinks, OwnerHolds
<1> QED BY Zenon, <1>2, <1>6, <1>7, StillSummary

\* A request leaves its ring or burst and is started with reason e.
LEMMA StartSummary ==
  ASSUME IInv, NEW c \in Cmds, c \in Queued, NEW e \in Reasons \cup {None},
         StartCommand(c, e), Queued' = Queued \ {c},
         cancelError'[c] # None => e # None,
         \A d \in Cmds \ {c} : cancelError'[d] = cancelError[d],
         UNCHANGED <<pc, claimed, listVars, opc>>,
         Kind[c] = "CLOSE" => opc = "drain" \/ (opc = "close" /\ c = Head(burst))
  PROVE  OwnerSummary
<1>1. /\ Deeds
      /\ e # None => outcome'[c] # Pending
      /\ \A t \in Socks : sock[t] = "open" /\ sock'[t] # "open" =>
           Kind[c] = "CLOSE" /\ Target[c] = t
  BY Zenon, StartDeeds
<1>2. active' = active \cup {c} /\ Effect(active \cup {c})
  BY Zenon, StartEffect
<1>3. OwnerHolds' = OwnerHolds /\ Handed' = Handed /\ cancelList' = cancelList
  BY Zenon, <1>2 DEF OwnerHolds, Handed, listVars
<1>4. Shrinks
  BY Zenon, <1>3 DEF Shrinks
<1>5. ClosedByOwner
  BY Zenon, <1>1 DEF ClosedByOwner
<1>6. ASSUME NEW d \in Cmds PROVE Fate(d)
  <2>1. /\ Done(d) => outcome'[d] = outcome[d]
        /\ d \notin active \cup {c} => outcome'[d] = outcome[d]
    BY Zenon, <1>2 DEF Effect
  <2>2. d \in active \cup {c} => d \in OwnerHolds
    BY Zenon DEF OwnerHolds
  <2> QED BY Zenon, <1>1, <1>3, <2>1, <2>2 DEF Fate, Done, Pending
<1> QED BY Zenon, <1>1, <1>4, <1>5, <1>6 DEF OwnerSummary

\* Requests are started from the burst, or by shutdown from the rings.
LEMMA StartOneSummary ==
  ASSUME IInv, RingKinds, StartOne
  PROVE  OwnerSummary
<1> DEFINE c == Head(burst)
           e == IF cancelError[c] # None THEN cancelError[c]
                ELSE IF c \in expired THEN "ETIMEDOUT" ELSE None
<1>1. TypeOK /\ LinkedOnce
  BY Zenon DEF IInv
<1>2. burst \in Seq(Cmds) /\ burst # <<>> /\ NoRepeat(burst)
  BY Zenon, <1>1 DEF TypeOK, LinkedOnce, StartOne
<1>3. /\ burst' = Tail(burst) /\ ring' = ring /\ cancelError' = cancelError
      /\ StartCommand(c, e) /\ opc \in {"close", "data"}
      /\ UNCHANGED <<pc, claimed, listVars, opc>>
  BY Zenon DEF StartOne, callerVars, ownerVars
<1>4. /\ c \in Cmds /\ Range(burst) = Range(burst') \cup {c} /\ c \notin Range(burst')
  BY Zenon, <1>2, <1>3, PopLemma
<1>5. c \in Queued /\ e \in Reasons \cup {None} /\ (cancelError'[c] # None => e # None)
  BY Zenon, <1>1, <1>3, <1>4 DEF Queued, TypeOK, Reasons
<1>6. Apart(ring["CLOSE"], burst) /\ Apart(ring["DATA"], burst)
  BY Zenon, <1>1 DEF LinkedOnce, Rings
<1>7. Queued' = Queued \ {c}
  BY Zenon, <1>3, <1>4, <1>6 DEF Queued, Apart
<1>8. Kind[c] = "CLOSE" => opc = "close" /\ c = Head(burst)
  BY Zenon, <1>3, <1>4 DEF RingKinds
<1>9. \A d \in Cmds \ {c} : cancelError'[d] = cancelError[d]
  BY Zenon, <1>3
<1> HIDE DEF c, e
<1> QED BY Zenon, <1>3, <1>4, <1>5, <1>7, <1>8, <1>9, StartSummary

LEMMA DrainRingSummary ==
  ASSUME IInv, NEW r \in Rings, DrainRing(r)
  PROVE  OwnerSummary
<1> DEFINE c == Head(ring[r])
           e == IF cancelError[c] = None THEN "ENETDOWN" ELSE cancelError[c]
<1>1. TypeOK /\ LinkedOnce
  BY Zenon DEF IInv
<1>2. ring[r] \in Seq(Cmds) /\ ring[r] # <<>> /\ NoRepeat(ring[r])
  BY Zenon, <1>1 DEF TypeOK, LinkedOnce, DrainRing, Rings
<1>3. /\ ring' = [ring EXCEPT ![r] = Tail(@)] /\ burst' = burst
      /\ cancelError' = [cancelError EXCEPT ![c] = e]
      /\ StartCommand(c, e) /\ opc = "drain"
      /\ UNCHANGED <<pc, claimed, listVars, opc>>
  BY Zenon DEF DrainRing, callerVars, ownerVars
<1>4. ring'[r] = Tail(ring[r]) /\ \A x \in Rings \ {r} : ring'[x] = ring[x]
  BY Zenon, <1>1, <1>3 DEF TypeOK
<1>5. c \in Cmds /\ Range(ring[r]) = Range(ring'[r]) \cup {c} /\ c \notin Range(ring'[r])
  BY Zenon, <1>2, <1>4, PopLemma
<1>6. c \in Queued /\ e \in Reasons
  BY Zenon, <1>1, <1>5 DEF Queued, TypeOK, Reasons, Rings
<1>7. \A d \in Cmds \ {c} : cancelError'[d] = cancelError[d]
  BY Zenon, <1>1, <1>3 DEF TypeOK
<1> HIDE DEF c, e
<1>8. Queued' = Queued \ {c}
  <2>1. /\ Apart(ring["CLOSE"], burst) /\ Apart(ring["DATA"], burst)
        /\ Apart(ring["CLOSE"], ring["DATA"])
    BY Zenon, <1>1 DEF LinkedOnce, Rings
  <2>2. CASE r = "CLOSE"
    BY Zenon, <1>3, <1>4, <1>5, <2>1, <2>2 DEF Queued, Apart, Rings
  <2>3. CASE r = "DATA"
    BY Zenon, <1>3, <1>4, <1>5, <2>1, <2>3 DEF Queued, Apart, Rings
  <2> QED BY Zenon, <2>2, <2>3 DEF Rings
<1>9. e # None
  BY Zenon, <1>6 DEF Reasons, None
<1> QED BY Zenon, <1>3, <1>5, <1>6, <1>7, <1>8, <1>9, StartSummary

\* command_cancellations finishes the request unless it is still queued.
LEMMA CancelOneSummary ==
  ASSUME IInv, CancelOne
  PROVE  OwnerSummary
<1> DEFINE c == Head(cancelList)
<1>1. TypeOK /\ LinkedOnce /\ LifeCycle
  BY Zenon DEF IInv
<1>2. cancelList \in Seq(Cmds) /\ cancelList # <<>> /\ NoRepeat(cancelList)
  BY Zenon, <1>1 DEF TypeOK, LinkedOnce, CancelOne
<1>3. /\ opc = "cancel" /\ opc' = opc /\ cancelList' = Tail(cancelList)
      /\ pc' = pc /\ ring' = ring /\ burst' = burst /\ active' = active
      /\ controlList' = controlList /\ batch' = batch /\ deferred' = deferred
      /\ UNCHANGED <<cancelError, claimed, resultSock, sock>>
      /\ IF state[c] = "QUEUED" THEN UNCHANGED <<outcome, state, waitq>>
         ELSE CancelLocal(c, cancelError[c])
  BY Zenon DEF CancelOne, callerVars
<1>4. /\ c \in Cmds /\ Range(cancelList) = Range(cancelList') \cup {c}
  BY Zenon, <1>2, <1>3, PopLemma
<1> HIDE DEF c
<1>5. cancelError[c] \in Reasons /\ (c \in OwnerHolds \/ Done(c))
  BY Zenon, <1>1, <1>4 DEF LifeCycle, TypeOK
<1>6. /\ Queued' = Queued /\ OwnerHolds' = OwnerHolds /\ Handed' = Handed
  BY Zenon, <1>3 DEF Queued, OwnerHolds, Handed
<1>7. Effect(active) /\ NoSuccess /\ (outcome'[c] # Pending \/ c \in Queued)
  <2>1. CASE state[c] = "QUEUED"
    <3>1. outcome' = outcome /\ Effect(active)
      BY Zenon, <1>3, <2>1, NoEffect
    <3>2. c \notin active
      BY Zenon, <1>1, <1>4, <2>1 DEF LifeCycle
    <3> QED BY Zenon, <1>5, <3>1, <3>2 DEF NoSuccess, OwnerHolds, Done, Pending
  <2>2. CASE state[c] # "QUEUED" /\ c \notin active
    <3>1. Done(c)
      BY Zenon, <1>1, <1>4, <1>5, <2>2 DEF LifeCycle, OwnerHolds
    <3>2. outcome' = outcome /\ Effect(active)
      BY Zenon, <1>3, <1>4, <2>2, <3>1, CancelDone, NoEffect
    <3> QED BY Zenon, <3>1, <3>2 DEF NoSuccess, Done, Pending
  <2>3. CASE state[c] # "QUEUED" /\ c \in active
    <3>1. Running(active) /\ cancelError[c] \in Outcomes
      BY Zenon, <1>1, <1>5 DEF Running, TypeOK, Outcomes
    <3> QED BY Zenon, <1>3, <1>4, <1>5, <2>3, <3>1, CancelEffect, CancelFails
  <2> QED BY Zenon, <2>1, <2>2, <2>3
<1>8. Deeds
  BY Zenon, <1>3, <1>7, SameSocks, QuietDeeds
<1>9. Shrinks
  BY Zenon, <1>3, <1>4, <1>6 DEF Shrinks
<1>10. ClosedByOwner
  BY Zenon, <1>3 DEF ClosedByOwner
<1>11. ASSUME NEW d \in Cmds PROVE Fate(d)
  <2>1. Done(d) \/ d \notin OwnerHolds => outcome'[d] = outcome[d]
    BY Zenon, <1>7 DEF Effect, OwnerHolds
  <2>2. d \in Range(cancelList) \ Range(cancelList') => d = c
    BY Zenon, <1>4
  <2> QED BY Zenon, <1>3, <1>6, <1>7, <2>1, <2>2 DEF Fate, NoSuccess
<1> QED BY Zenon, <1>8, <1>9, <1>10, <1>11 DEF OwnerSummary

\* command_reap finishes the request and closes a result nobody took.
LEMMA ReapSummary ==
  ASSUME IInv, ReapOne
  PROVE  OwnerSummary
<1> DEFINE c == Head(batch)
           s == resultSock[c]
           e == IF cancelError[c] # None THEN cancelError[c] ELSE "ECANCELED"
<1>1. TypeOK /\ LinkedOnce /\ LifeCycle /\ OwnerPhase
  BY Zenon DEF IInv
<1>2. batch \in Seq(Cmds) /\ batch # <<>> /\ NoRepeat(batch)
  BY Zenon, <1>1 DEF TypeOK, LinkedOnce, ReapOne
<1>3. /\ opc = "reap" /\ opc' = opc /\ batch' = Tail(batch) /\ active' = active \ {c}
      /\ state[c] # "QUEUED"
      /\ pc' = pc /\ ring' = ring /\ burst' = burst /\ cancelList' = cancelList
      /\ controlList' = controlList /\ deferred' = deferred
      /\ UNCHANGED <<cancelError, claimed, resultSock>>
  BY Zenon DEF ReapOne, callerVars, ownerVars
<1>3a. IF Unclaimed(c) /\ s \in Socks /\ sock[s] = "open"
       THEN \/ /\ sock' = [sock EXCEPT ![s] = "closed"]
               /\ UNCHANGED <<outcome, state, waitq>>
            \/ /\ sock' = [sock EXCEPT ![s] = "retired"]
               /\ Commit(Aborted(s, "ECANCELED"), {})
               /\ waitq' = [waitq EXCEPT ![s] = NoWaiters]
       ELSE CancelLocal(c, e) /\ UNCHANGED sock
  BY Zenon DEF ReapOne
<1>4. c \in Cmds /\ Range(batch) = Range(batch') \cup {c}
  BY Zenon, <1>2, <1>3, PopLemma
<1>5. e \in Reasons
  BY Zenon, <1>1, <1>4 DEF TypeOK, Reasons
<1> HIDE DEF c, e
<1>6. c \in active /\ c \notin Queued /\ pc[c] = "gone"
  <2>1. c \in Handed
    BY Zenon, <1>4 DEF Handed
  <2>2. accepting
    BY Zenon, <1>1, <1>3 DEF OwnerPhase
  <2>3. c \in OwnerHolds /\ c \notin Queued
    BY Zenon, <1>1, <1>3, <1>4, <2>1, <2>2 DEF LifeCycle
  <2>4. c \notin CallerHolds /\ pc[c] # "idle"
    BY Zenon, <1>1, <1>4, <2>1 DEF LinkedOnce, LifeCycle
  <2> QED BY Zenon, <1>1, <1>4, <2>3, <2>4 DEF OwnerHolds, CallerHolds
<1>7. Running(active) /\ e \in Outcomes
  BY Zenon, <1>1, <1>5 DEF Running, TypeOK, Outcomes
<1>8. /\ Effect(active) /\ NoSuccess /\ outcome'[c] # Pending
      /\ \/ sock' = sock /\ ~(Unclaimed(c) /\ s \in Socks /\ sock[s] = "open")
         \/ /\ Unclaimed(c) /\ s \in Socks
            /\ \E life \in {"closed", "retired"} : sock' = [sock EXCEPT ![s] = life]
  <2>1. CASE /\ Unclaimed(c) /\ s \in Socks /\ sock[s] = "open"
             /\ sock' = [sock EXCEPT ![s] = "closed"]
             /\ UNCHANGED <<outcome, state, waitq>>
    <3>1. Effect(active)
      BY Zenon, <2>1, NoEffect
    <3>2. NoSuccess /\ outcome'[c] # Pending
      BY Zenon, <2>1 DEF NoSuccess, Done, Pending, Unclaimed
    <3> QED BY Zenon, <2>1, <3>1, <3>2
  <2>2. CASE /\ Unclaimed(c) /\ s \in Socks /\ sock[s] = "open"
             /\ sock' = [sock EXCEPT ![s] = "retired"]
             /\ Commit(Aborted(s, "ECANCELED"), {})
             /\ waitq' = [waitq EXCEPT ![s] = NoWaiters]
    <3> DEFINE o == Aborted(s, "ECANCELED")
    <3>1. DOMAIN o = Waiters(s) /\ \A d \in DOMAIN o : o[d] \in Outcomes \ {"OK"}
      BY Zenon DEF Aborted, Outcomes, Reasons
    <3> HIDE DEF o
    <3>2. Commit(o, {}) /\ active \ active = {}
      BY Zenon, <2>2 DEF o
    <3>3. Effect(active)
      BY Zenon, <1>7, <2>2, <3>1, <3>2, AbortEffect
    <3>4. NoSuccess
      BY Zenon, <3>1, <3>2, CommitFails
    <3>5. outcome'[c] # Pending
      BY Zenon, <1>4, <2>2, <3>3 DEF Effect, Unclaimed, Done, Pending
    <3> QED BY Zenon, <2>2, <3>3, <3>4, <3>5
  <2>3. CASE /\ ~(Unclaimed(c) /\ s \in Socks /\ sock[s] = "open")
             /\ CancelLocal(c, e) /\ UNCHANGED sock
    BY Zenon, <1>4, <1>5, <1>6, <1>7, <2>3, CancelEffect, CancelFails
  <2> QED BY Zenon, <1>3a, <2>1, <2>2, <2>3
<1>9. /\ Queued' = Queued /\ OwnerHolds' = OwnerHolds \ {c} /\ Handed' \subseteq Handed
  BY Zenon, <1>3, <1>4, <1>6 DEF Queued, OwnerHolds, Handed
<1>10. SockStep /\ ClosedByOwner
  <2>1. CASE sock' = sock
    BY Zenon, <2>1 DEF SockStep, ClosedByOwner
  <2>2. CASE sock' # sock
    <3>1. PICK life \in {"closed", "retired"} : sock' = [sock EXCEPT ![s] = life]
      BY Zenon, <1>8, <2>2
    <3>2. Unclaimed(c) /\ s \in Socks
      BY Zenon, <1>8, <2>2
    <3>3. \A t \in Socks : sock'[t] = IF t = s THEN life ELSE sock[t]
      BY Zenon, <1>1, <3>1 DEF TypeOK
    <3>4. ClosedByOwner
      BY Zenon, <1>4, <1>6, <3>2, <3>3 DEF ClosedByOwner, Unclaimed
    <3> QED BY Zenon, <3>3, <3>4 DEF SockStep
  <2> QED BY Zenon, <2>1, <2>2
<1>11. Deeds
  BY Zenon, <1>3, <1>8, <1>10, QuietDeeds
<1>12. Shrinks
  BY Zenon, <1>3, <1>9 DEF Shrinks
<1>13. ASSUME NEW d \in Cmds PROVE Fate(d)
  <2>1. Done(d) \/ d \notin OwnerHolds => outcome'[d] = outcome[d]
    BY Zenon, <1>8 DEF Effect, OwnerHolds
  <2>2. d \in OwnerHolds \ OwnerHolds' => d = c
    BY Zenon, <1>9
  <2>3. ASSUME d = c, Unclaimed(d), resultSock[d] \in Socks
        PROVE  sock'[resultSock[d]] # "open"
    <3>1. CASE sock' = sock /\ ~(Unclaimed(c) /\ s \in Socks /\ sock[s] = "open")
      BY Zenon, <2>3, <3>1
    <3>2. CASE \E life \in {"closed", "retired"} : sock' = [sock EXCEPT ![s] = life]
      <4>1. s = resultSock[d] /\ s \in Socks
        BY Zenon, <2>3
      <4> QED BY Zenon, <1>1, <3>2, <4>1 DEF TypeOK
    <3> QED BY Zenon, <1>8, <3>1, <3>2
  <2> QED BY Zenon, <1>3, <1>8, <1>9, <2>1, <2>2, <2>3 DEF Fate, NoSuccess
<1> QED BY Zenon, <1>10, <1>11, <1>12, <1>13 DEF OwnerSummary

\* The owner's loop outside the command turn: a timer, a transport event.
LEMMA LoopSummary ==
  ASSUME IInv,
         \/ \E c \in Cmds : CommandTimeout(c)
         \/ TransportStep
  PROVE  OwnerSummary
<1>1. TypeOK /\ ParkedSound
  BY Zenon DEF IInv
<1>2. Running(active)
  BY Zenon, <1>1 DEF Running, TypeOK
<1>3. ASSUME NEW c \in Cmds, CommandTimeout(c) PROVE OwnerSummary
  <2>1. /\ c \in active /\ CancelLocal(c, "ETIMEDOUT")
        /\ UNCHANGED <<pc, claimed, ring, burst, cancelError, listVars>>
        /\ active' = active /\ opc' = opc /\ sock' = sock /\ resultSock' = resultSock
    BY Zenon, <1>3 DEF CommandTimeout, callerVars, ownerVars
  <2>2. "ETIMEDOUT" \in Reasons /\ "ETIMEDOUT" \in Outcomes
    BY Zenon DEF Outcomes, Reasons
  <2>3. Effect(active)
    BY Zenon, <1>2, <2>1, <2>2, CancelEffect
  <2>4. Deeds
    BY Zenon, <2>1, <2>2, CancelFails, SameSocks, QuietDeeds
  <2>5. ClosedByOwner
    BY Zenon, <2>1 DEF ClosedByOwner
  <2> QED BY Zenon, <2>1, <2>3, <2>4, <2>5, SettleSummary
<1>4. ASSUME NEW s \in Socks, TransportProgress(s) PROVE OwnerSummary
  <2>1. PICK k \in {"RECV", "SEND", "ACCEPT"} : WakeQueue(s, k, waitq[s][k])
    BY Zenon, <1>4 DEF TransportProgress
  <2>2. /\ UNCHANGED <<pc, claimed, ring, burst, cancelError, listVars>>
        /\ active' = active /\ opc' = opc
    BY Zenon, <1>4 DEF TransportProgress, callerVars, ownerVars
  <2>3. k \in Waitable
    BY Zenon DEF Waitable
  <2>4. /\ waitq[s][k] \in Seq(Cmds) /\ NoRepeat(waitq[s][k])
        /\ \A c \in Range(waitq[s][k]) :
             c \in active /\ ~Done(c) /\ Target[c] = s /\ Kind[c] = k
    BY <1>1, <2>3 DEF ParkedSound, TypeOK
  <2>5. Effect(active)
    BY Zenon, <1>2, <2>1, <2>3, <2>4, WakeEffect
  <2>6. Deeds /\ \A t \in Socks : sock[t] = "open" => sock'[t] = "open"
    BY Zenon, <2>1, <2>3, <2>4, WakeDeeds
  <2>7. ClosedByOwner
    BY Zenon, <2>6 DEF ClosedByOwner
  <2> QED BY Zenon, <2>2, <2>5, <2>6, <2>7, SettleSummary
<1>5. ASSUME NEW s \in Socks, ConnectSettles(s) PROVE OwnerSummary
  <2> DEFINE q == waitq[s]["CONNECT"]
             c == Head(q)
  <2>1. PICK r \in {"OK", "ERROR"} : Commit(Outcome(c, r), {})
    BY Zenon, <1>5 DEF ConnectSettles
  <2>2. /\ UNCHANGED <<pc, claimed, ring, burst, cancelError, listVars>>
        /\ active' = active /\ opc' = opc /\ sock' = sock /\ resultSock' = resultSock
        /\ waitq' = [waitq EXCEPT ![s]["CONNECT"] = Tail(q)] /\ q # <<>>
    BY Zenon, <1>1, <1>5 DEF ConnectSettles, callerVars, ownerVars, Waitable, TypeOK
  <2>3. "CONNECT" \in Waitable /\ q \in Seq(Cmds) /\ NoRepeat(q)
    BY <1>1 DEF Waitable, TypeOK, ParkedSound
  <2>4. /\ Tail(q) \in Seq(Cmds) /\ NoRepeat(Tail(q)) /\ c \notin Range(Tail(q))
        /\ Range(q) = Range(Tail(q)) \cup {c}
    BY Zenon, <2>2, <2>3, PopLemma
  <2>5. c \in Cmds /\ c \in active /\ ~Done(c) /\ Target[c] = s /\ Kind[c] = "CONNECT"
    BY <1>1, <2>3, <2>4 DEF ParkedSound, TypeOK
  <2> DEFINE o == Outcome(c, r)
  <2>6. DOMAIN o = {c} /\ o[c] = r /\ \A d \in DOMAIN o : o[d] \in Outcomes
    BY Zenon, <2>1 DEF Outcome, Outcomes
  <2>7. Commit(o, {}) /\ c = q[1]
    BY <2>1, <2>2, <2>3
  <2> HIDE DEF c, o
  <2>8. \A d \in Cmds : outcome'[d] = IF d = c THEN r ELSE outcome[d]
    BY <1>1, <2>5, <2>6, <2>7, CommitLemma
  <2>9. Effect(active)
    <3> DEFINE w == Tail(q)
    <3>1. waitq' = [waitq EXCEPT ![s]["CONNECT"] = w] /\ w \in Seq(Cmds)
      BY Zenon, <2>2, <2>4
    <3>2. NoRepeat(w) /\ c \notin Range(w) /\ Range(q) = Range(w) \cup {c}
      BY Zenon, <2>4
    <3> HIDE DEF w
    <3>3. ASSUME NEW z \in Socks, NEW k \in Waitable
          PROVE  waitq'[z][k] = IF z = s /\ k = "CONNECT" THEN w ELSE waitq[z][k]
      BY Zenon, <1>1, <2>3, <3>1 DEF TypeOK
    <3>4. waitq \in [Socks -> [Waitable -> Seq(Cmds)]]
      BY Zenon, <1>1 DEF TypeOK
    <3>5. waitq' \in [Socks -> [Waitable -> Seq(Cmds)]]
      BY <3>1, <3>4, Zenon
    <3>6. ASSUME NEW z \in Socks, NEW k \in Waitable
          PROVE  /\ NoRepeat(waitq'[z][k])
                 /\ Range(waitq'[z][k]) = Range(waitq[z][k]) \ DOMAIN o
      BY <1>1, <2>5, <2>6, <3>2, <3>3 DEF ParkedSound
    <3> QED BY <1>2, <2>5, <2>6, <2>7, <3>5, <3>6, SettleEffect, Zenon
  <2>10. InOrder
    <3> SUFFICES ASSUME NEW t \in Socks, NEW k \in Waitable,
                        NEW i \in DOMAIN waitq[t][k], NEW j \in DOMAIN waitq[t][k],
                        i < j, outcome'[waitq[t][k][j]] = "OK"
                 PROVE  FALSE
      BY Zenon DEF InOrder
    <3>1. /\ waitq[t][k][j] \in Cmds /\ ~Done(waitq[t][k][j])
          /\ Target[waitq[t][k][j]] = t /\ Kind[waitq[t][k][j]] = k
      BY WaitersPending
    <3>2. waitq[t][k][j] = c
      BY Zenon, <2>8, <3>1 DEF Done, Pending
    <3>3. t = s /\ k = "CONNECT"
      BY Zenon, <2>5, <3>1, <3>2
    <3>4. i \in 1..Len(q) /\ j \in 1..Len(q) /\ q[j] = q[1]
      BY <2>3, <2>7, <3>2, <3>3
    <3>5. j = 1
      BY <2>3, <3>4 DEF NoRepeat
    <3> QED BY <3>4, <3>5
  <2>11. ResultStep
    BY Zenon, <2>2, <2>5, <2>8 DEF ResultStep, Produces, Done, Pending
  <2>12. SockStep /\ ClosedByOwner
    BY Zenon, <2>2 DEF SockStep, ClosedByOwner
  <2> QED BY Zenon, <2>2, <2>9, <2>10, <2>11, <2>12, SettleSummary DEF Deeds
<1>6. ASSUME NEW s \in Socks, StreamAborts(s) PROVE OwnerSummary
  <2> DEFINE o == Aborted(s, "ERROR")
  <2>1. /\ UNCHANGED <<pc, claimed, ring, burst, cancelError, listVars>>
        /\ active' = active /\ opc' = opc /\ resultSock' = resultSock
        /\ Commit(o, {}) /\ waitq' = [waitq EXCEPT ![s] = NoWaiters]
        /\ sock' = [sock EXCEPT ![s] = IF @ = "closed" THEN "retired" ELSE @]
    BY Zenon, <1>6 DEF StreamAborts, callerVars, ownerVars
  <2>2. DOMAIN o = Waiters(s) /\ \A d \in DOMAIN o : o[d] \in Outcomes \ {"OK"}
    BY Zenon DEF Aborted, Outcomes, Reasons
  <2> HIDE DEF o
  <2>3. active \ active = {}
    BY Zenon
  <2>4. Effect(active)
    BY Zenon, <1>2, <2>1, <2>2, <2>3, AbortEffect
  <2>5. NoSuccess
    BY Zenon, <2>1, <2>2, CommitFails
  <2>6. SockStep /\ ClosedByOwner
    BY Zenon, <1>1, <2>1 DEF SockStep, ClosedByOwner, TypeOK
  <2>7. Deeds
    BY Zenon, <2>1, <2>5, <2>6, QuietDeeds
  <2> QED BY Zenon, <2>1, <2>4, <2>6, <2>7, SettleSummary
<1> QED BY Zenon, <1>3, <1>4, <1>5, <1>6 DEF TransportStep

\* socket_owner_shutdown_local finishes what is active ...
LEMMA DrainActiveSummary ==
  ASSUME IInv, NEW c \in Cmds, DrainActive(c)
  PROVE  OwnerSummary
<1>1. TypeOK /\ LinkedOnce
  BY Zenon DEF IInv
<1>2. /\ opc = "drain" /\ c \in active /\ active' = active \ {c}
      /\ CancelLocal(c, "ENETDOWN")
      /\ UNCHANGED <<pc, ring, burst, listVars, cancelError, claimed, opc, resultSock, sock>>
  BY Zenon DEF DrainActive, callerVars, ownerVars
<1>3. Running(active) /\ "ENETDOWN" \in Outcomes /\ "ENETDOWN" \in Reasons
  BY Zenon, <1>1 DEF Running, TypeOK, Outcomes, Reasons
<1>4. Effect(active) /\ outcome'[c] # Pending /\ NoSuccess
  BY Zenon, <1>2, <1>3, CancelEffect, CancelFails
<1>5. /\ Queued' = Queued /\ Handed' = Handed /\ cancelList' = cancelList
      /\ OwnerHolds' = OwnerHolds \ {c}
  BY Zenon, <1>1, <1>2 DEF Queued, Handed, listVars, OwnerHolds, LinkedOnce
<1>6. Deeds
  BY Zenon, <1>2, <1>4, SameSocks, QuietDeeds
<1>7. Shrinks /\ ClosedByOwner
  BY Zenon, <1>2, <1>5 DEF Shrinks, ClosedByOwner
<1>8. ASSUME NEW d \in Cmds PROVE Fate(d)
  <2>1. Done(d) \/ d \notin OwnerHolds => outcome'[d] = outcome[d]
    BY Zenon, <1>4 DEF Effect, OwnerHolds
  <2>2. d \in OwnerHolds \ OwnerHolds' => d = c
    BY Zenon, <1>5
  <2> QED BY Zenon, <1>2, <1>4, <1>5, <2>1, <2>2 DEF Fate, NoSuccess
<1> QED BY Zenon, <1>6, <1>7, <1>8 DEF OwnerSummary

\* ... then drops the notifications, all of answered requests ...
LEMMA DrainNotificationSummary ==
  ASSUME IInv, DrainNotification
  PROVE  OwnerSummary
<1>1. TypeOK /\ OwnerPhase /\ LifeCycle
  BY Zenon DEF IInv
<1>2. /\ opc = "drain" /\ active = {} /\ RingsEmpty
      /\ UNCHANGED <<outcome, cancelError, sock, resultSock, active, pc, claimed>>
      /\ UNCHANGED <<ring, burst, batch, deferred, opc>>
  BY Zenon DEF DrainNotification, callerVars, ownerVars, sockVars
<1>3. Range(controlList') \subseteq Range(controlList) /\ Range(cancelList') \subseteq Range(cancelList)
  <2>1. controlList \in Seq(Cmds) /\ cancelList \in Seq(Cmds)
    BY Zenon, <1>1 DEF TypeOK
  <2>2. CASE controlList # <<>> /\ controlList' = Tail(controlList) /\ UNCHANGED cancelList
    BY Zenon, <2>1, <2>2, PopLemma
  <2>3. CASE cancelList # <<>> /\ cancelList' = Tail(cancelList) /\ UNCHANGED controlList
    BY Zenon, <2>1, <2>3, PopLemma
  <2> QED BY Zenon, <2>2, <2>3 DEF DrainNotification
<1>4. OwnerHolds = {}
  <2>1. burst = <<>> /\ ring["CLOSE"] = <<>> /\ ring["DATA"] = <<>>
    BY Zenon, <1>1, <1>2 DEF OwnerPhase, RingsEmpty, Rings
  <2>2. Range(<<>>) = {}
    BY DEF Range
  <2> QED BY Zenon, <1>2, <2>1, <2>2 DEF OwnerHolds, Queued
<1>5. \A c \in Range(cancelList) : c \in Cmds /\ Done(c)
  <2>1. Range(cancelList) \subseteq Cmds
    BY <1>1 DEF TypeOK, Range
  <2> QED BY Zenon, <1>1, <1>4, <2>1 DEF LifeCycle
<1>6. Queued' = Queued /\ Handed' \subseteq Handed /\ OwnerHolds' = OwnerHolds
  BY Zenon, <1>2, <1>3 DEF Queued, Handed, OwnerHolds
<1>7. Shrinks
  BY Zenon, <1>2, <1>3, <1>6 DEF Shrinks
<1> QED BY Zenon, <1>2, <1>5, <1>6, <1>7, StillSummary

\* ... and retires every socket.
LEMMA ShutdownEndsSummary ==
  ASSUME IInv, ShutdownEnds
  PROVE  OwnerSummary
<1>1. TypeOK /\ ParkedSound
  BY Zenon DEF IInv
<1> DEFINE o == [c \in UNION {Waiters(s) : s \in Socks} |-> "ENETDOWN"]
<1>2. /\ opc = "drain" /\ opc' = "stopped" /\ active = {} /\ Commit(o, {})
      /\ sock' = [s \in Socks |-> IF Resolves(s) THEN "retired" ELSE sock[s]]
      /\ UNCHANGED <<pc, claimed, ring, burst, cancelError, listVars>>
      /\ active' = active /\ resultSock' = resultSock
  BY Zenon DEF ShutdownEnds, callerVars
<1>3. \A s \in Socks : Waiters(s) = {}
  BY <1>1, <1>2, Zenon DEF ParkedSound, Waiters
<1>4. DOMAIN o = {}
  BY Zenon, <1>3
<1> HIDE DEF o
<1>5. \A c \in Cmds : outcome'[c] = outcome[c]
  BY Zenon, <1>1, <1>2, <1>4, CommitLemma
<1>6. NoSuccess
  BY Zenon, <1>5 DEF NoSuccess, Done, Pending
<1>7. SockStep /\ ClosedByOwner
  BY Zenon, <1>1, <1>2 DEF SockStep, ClosedByOwner, Resolves, TypeOK
<1>8. Deeds
  BY Zenon, <1>2, <1>6, <1>7, QuietDeeds
<1>9. /\ Queued' = Queued /\ OwnerHolds' = OwnerHolds /\ Handed' = Handed
      /\ cancelList' = cancelList
  BY Zenon, <1>2 DEF Queued, OwnerHolds, Handed, listVars
<1>10. Shrinks
  BY Zenon, <1>2, <1>9 DEF Shrinks
<1>11. ASSUME NEW c \in Cmds PROVE Fate(c)
  BY Zenon, <1>2, <1>5, <1>6, <1>9 DEF Fate, NoSuccess
<1> QED BY Zenon, <1>7, <1>8, <1>10, <1>11 DEF OwnerSummary

\* Every step that is not a calling thread's is summarised by OwnerSummary.
OwnerStep ==
  OwnerTurn \/ TransportStep \/ Shutdown \/ \E c \in Cmds : CommandTimeout(c)

LEMMA OwnerStepSummary ==
  ASSUME IInv, RingKinds, OwnerStep
  PROVE  OwnerSummary
<1>1. CASE OwnerTurn
  BY Zenon, <1>1, BurstSummary, MoveSummary, StartOneSummary, CancelOneSummary, ReapSummary
     DEF OwnerTurn
<1>2. CASE Shutdown
  BY Zenon, <1>2, MoveSummary, DrainRingSummary, DrainActiveSummary, DrainNotificationSummary,
     ShutdownEndsSummary DEF Shutdown
<1>3. CASE TransportStep \/ \E c \in Cmds : CommandTimeout(c)
  BY Zenon, <1>3, LoopSummary
<1> QED BY Zenon, <1>1, <1>2, <1>3 DEF OwnerStep

\* So is a step that changes nothing.
LEMMA StutterSummary ==
  ASSUME IInv, UNCHANGED vars
  PROVE  OwnerSummary
<1>1. UNCHANGED <<pc, claimed, outcome, cancelError, sock, resultSock, active, ring, burst,
                  cancelList, controlList, batch, deferred, opc>>
  BY Zenon DEF vars, callerVars, cmdVars, listVars, ownerVars, sockVars
<1>2. Queued' = Queued /\ OwnerHolds' = OwnerHolds /\ Handed' = Handed
  BY Zenon, <1>1 DEF Queued, OwnerHolds, Handed
<1>3. Shrinks
  BY Zenon, <1>1, <1>2 DEF Shrinks
<1> QED BY Zenon, <1>1, <1>2, <1>3, StillSummary

-----------------------------------------------------------------------------
(***************************************************************************)
(* Every step of a calling thread.                                         *)
(***************************************************************************)

\* A thread touches its own request only; it answers nobody.
CallerSummary(c) ==
  /\ UNCHANGED <<outcome, sock, resultSock, waitq, opc, accepting, burst, active>>
  /\ \A d \in Cmds \ {c} : /\ pc'[d] = pc[d] /\ refs'[d] = refs[d]
                           /\ cancelError'[d] = cancelError[d] /\ claimed'[d] = claimed[d]
  /\ ring' = ring \/ ring' = [ring EXCEPT ![RingOf(c)] = Append(@, c)]
  /\ Range(cancelList) \subseteq Range(cancelList')
  /\ Handed' \subseteq Handed \cup {c}
  /\ c \in Handed' \ Handed => pc[c] \in {"release", "held"}
  /\ pc[c] \in {"expiring", "cancelling"} =>
       pc'[c] = pc[c] \/ c \in Range(cancelList') \/ ~accepting
  /\ cancelError'[c] # cancelError[c] => pc'[c] \in {"expiring", "cancelling"}
  /\ claimed'[c] # claimed[c] => pc[c] \in {"wait", "held"}

LEMMA CallerStepSummary ==
  ASSUME IInv, NEW c \in Cmds, CallerStep(c) \/ DeadlinePasses(c)
  PROVE  CallerSummary(c)
<1>1. TypeOK
  BY Zenon DEF IInv
<1>2. /\ pc \in [Cmds -> CallerPCs] /\ refs \in [Cmds -> 0..3]
      /\ cancelError \in [Cmds -> Reasons \cup {None}] /\ claimed \in [Cmds -> BOOLEAN]
      /\ cancelList \in Seq(Cmds) /\ controlList \in Seq(Cmds)
  BY Zenon, <1>1 DEF TypeOK
<1>3. CASE Clone(c) \/ WakeSubmitter(c) \/ DeadlinePasses(c) \/ (Submit(c) /\ ~Enqueue(c))
  <2>1. /\ UNCHANGED <<outcome, sock, resultSock, waitq, opc, accepting, burst, active>>
        /\ UNCHANGED <<cancelError, claimed, ring, listVars>>
        /\ pc[c] \notin {"expiring", "cancelling"} \/ pc' = pc
        /\ \A d \in Cmds \ {c} : pc'[d] = pc[d] /\ refs'[d] = refs[d]
    BY Zenon, <1>2, <1>3 DEF Clone, WakeSubmitter, DeadlinePasses, Submit, Refuse, AwaitSpace, Goto, Put,
       cmdVars, ownerVars, sockVars
  <2> QED BY Zenon, <2>1 DEF CallerSummary, Handed, listVars
<1>4. CASE Submit(c) /\ Enqueue(c)
  <2>1. /\ UNCHANGED <<outcome, sock, resultSock, waitq, opc, accepting, burst, active>>
        /\ UNCHANGED <<cancelError, claimed, listVars>>
        /\ pc[c] = "submit"
        /\ ring' = [ring EXCEPT ![RingOf(c)] = Append(@, c)]
        /\ \A d \in Cmds \ {c} : pc'[d] = pc[d] /\ refs'[d] = refs[d]
    BY Zenon, <1>2, <1>4 DEF Submit, Enqueue, Goto, Get, ownerVars, sockVars
  <2> QED BY Zenon, <2>1 DEF CallerSummary, Handed, listVars
<1>5. CASE WaitExpires(c) \/ ThreadCancelled(c)
  <2>1. /\ UNCHANGED <<outcome, sock, resultSock, waitq, opc, accepting, burst, active>>
        /\ UNCHANGED <<refs, claimed, ring, listVars>>
        /\ pc[c] = "wait"
        /\ cancelError'[c] # cancelError[c] => pc'[c] \in {"expiring", "cancelling"}
        /\ \A d \in Cmds \ {c} : pc'[d] = pc[d] /\ cancelError'[d] = cancelError[d]
    BY Zenon, <1>2, <1>5 DEF WaitExpires, ThreadCancelled, Goto, ownerVars, sockVars
  <2> QED BY Zenon, <2>1 DEF CallerSummary, Handed, listVars
<1>6. CASE NotifyCancel(c)
  <2>1. /\ UNCHANGED <<outcome, sock, resultSock, waitq, opc, accepting, burst, active>>
        /\ UNCHANGED <<cancelError, claimed, ring, controlList, batch, deferred>>
        /\ \A d \in Cmds \ {c} : pc'[d] = pc[d] /\ refs'[d] = refs[d]
        /\ cancelList' = IF accepting THEN <<c>> \o cancelList ELSE cancelList
    BY Zenon, <1>2, <1>6 DEF NotifyCancel, Goto, Get, ownerVars, sockVars
  <2>2. Range(<<c>> \o cancelList) = Range(cancelList) \cup {c}
    BY <1>2, PushLemma
  <2> QED BY Zenon, <2>1, <2>2 DEF CallerSummary, Handed
<1>7. CASE Return(c)
  <2>1. /\ UNCHANGED <<outcome, sock, resultSock, waitq, opc, accepting, burst, active>>
        /\ UNCHANGED <<cancelError, refs, ring, listVars>>
        /\ pc[c] = "wait"
        /\ \A d \in Cmds \ {c} : pc'[d] = pc[d] /\ claimed'[d] = claimed[d]
    BY Zenon, <1>2, <1>7 DEF Return, Goto, ownerVars, sockVars
  <2> QED BY Zenon, <2>1 DEF CallerSummary, Handed, listVars
<1>8. CASE Release(c) \/ ResultRelease(c)
  <2>1. /\ UNCHANGED <<outcome, sock, resultSock, waitq, opc, accepting, burst, active>>
        /\ UNCHANGED <<cancelError, ring, cancelList, batch, deferred>>
        /\ pc[c] \in {"release", "held"} /\ (pc[c] = "release" => claimed' = claimed)
        /\ \A d \in Cmds \ {c} : pc'[d] = pc[d] /\ refs'[d] = refs[d] /\ claimed'[d] = claimed[d]
        /\ controlList' = controlList \/ controlList' = <<c>> \o controlList
    BY Zenon, <1>2, <1>8 DEF Release, ResultRelease, ReleaseCaller, Goto, Put, ownerVars, sockVars
  <2>2. Range(<<c>> \o controlList) = Range(controlList) \cup {c}
    BY <1>2, PushLemma
  <2> QED BY Zenon, <2>1, <2>2 DEF CallerSummary, Handed
<1> QED BY Zenon, <1>3, <1>4, <1>5, <1>6, <1>7, <1>8 DEF CallerStep

\* The rings only grow by a caller's hand.
LEMMA CallerAdds ==
  ASSUME IInv, NEW c \in Cmds, CallerSummary(c)
  PROVE  Queued \subseteq Queued' /\ OwnerHolds \subseteq OwnerHolds'
<1>1. TypeOK /\ RingOf(c) \in Rings
  BY Zenon DEF IInv, RingOf, Rings
<1>2. \A r \in Rings : Range(ring[r]) \subseteq Range(ring'[r])
  <2>1. CASE ring' = ring
    BY Zenon, <2>1
  <2>2. CASE ring' = [ring EXCEPT ![RingOf(c)] = Append(@, c)]
    <3>1. \A r \in Rings : ring[r] \in Seq(Cmds)
                            /\ ring'[r] = IF r = RingOf(c) THEN Append(ring[r], c) ELSE ring[r]
      BY Zenon, <1>1, <2>2 DEF TypeOK
    <3> QED BY <3>1, AppendLemma
  <2> QED BY Zenon, <2>1, <2>2 DEF CallerSummary
<1>3. Queued \subseteq Queued'
  BY Zenon, <1>2 DEF Queued, CallerSummary, Rings
<1> QED BY Zenon, <1>3 DEF OwnerHolds, CallerSummary

-----------------------------------------------------------------------------
(***************************************************************************)
(* What the summaries preserve.                                            *)
(***************************************************************************)

\* A step is the owner's or a calling thread's.
LEMMA Steps ==
  ASSUME IInv, RingKinds, [Next]_vars
  PROVE  OwnerSummary \/ \E c \in Cmds : CallerSummary(c)
<1>1. CASE OwnerStep
  BY Zenon, <1>1, OwnerStepSummary
<1>2. CASE \E c \in Cmds : CallerStep(c) \/ DeadlinePasses(c)
  BY Zenon, <1>2, CallerStepSummary
<1>3. CASE UNCHANGED vars
  BY Zenon, <1>3, StutterSummary
<1> QED BY Zenon, <1>1, <1>2, <1>3 DEF Next, OwnerStep

LEMMA RingKindsLemma ==
  ASSUME IInv, RingKinds, [Next]_vars
  PROVE  RingKinds'
<1>1. TypeOK /\ OwnerPhase
  BY Zenon DEF IInv
<1>2. ring \in [Rings -> Seq(Cmds)] /\ burst \in Seq(Cmds)
  BY Zenon, <1>1 DEF TypeOK
<1>3. CASE BeginTurn \/ EndCloseBurst
  <2>1. PICK r \in Rings : /\ burst' = TakeBurst(ring[r])
                           /\ ring' = [ring EXCEPT ![r] = AfterBurst(@)]
                           /\ opc' = "data" => r = "DATA"
    BY Zenon, <1>3 DEF BeginTurn, EndCloseBurst, Rings
  <2>2. Range(ring[r]) = Range(burst') \cup Range(AfterBurst(ring[r]))
    BY Zenon, <1>2, <2>1, BurstLemma
  <2>3. \A x \in Rings : ring'[x] = IF x = r THEN AfterBurst(ring[r]) ELSE ring[x]
    BY Zenon, <1>2, <2>1
  <2>4. \A x \in Rings : Range(ring'[x]) \subseteq Range(ring[x])
    BY Zenon, <2>2, <2>3
  <2>5. opc' = "data" => \A c \in Range(burst') : Kind[c] # "CLOSE"
    BY Zenon, <2>1, <2>2 DEF RingKinds, RingOf
  <2> QED BY Zenon, <2>4, <2>5 DEF RingKinds
<1>4. CASE StartOne
  <2>1. burst # <<>> /\ burst' = Tail(burst) /\ ring' = ring /\ opc' = opc
    BY Zenon, <1>4 DEF StartOne, ownerVars
  <2>2. Range(burst') \subseteq Range(burst)
    BY <1>2, <2>1, PopLemma
  <2> QED BY Zenon, <2>1, <2>2 DEF RingKinds
<1>5. ASSUME NEW r \in Rings, DrainRing(r) PROVE RingKinds'
  <2>1. ring[r] # <<>> /\ ring' = [ring EXCEPT ![r] = Tail(@)] /\ opc' = "drain"
    BY Zenon, <1>5 DEF DrainRing, ownerVars
  <2>2. \A x \in Rings : ring'[x] = IF x = r THEN Tail(ring[r]) ELSE ring[x]
    BY Zenon, <1>2, <2>1
  <2>3. \A x \in Rings : Range(ring'[x]) \subseteq Range(ring[x])
    BY <1>2, <2>1, <2>2, PopLemma
  <2> QED BY Zenon, <2>1, <2>3 DEF RingKinds
<1>6. ASSUME ring' = ring, burst' = burst, opc' = "data" => opc = "data"
      PROVE  RingKinds'
  BY Zenon, <1>6 DEF RingKinds
<1>7. CASE OwnerStep
  <2>1. CASE EndDataBurst \/ CancelOne \/ TakeControls \/ DeferOne \/ ReapOne \/ EndTurn
    BY Zenon, <1>6, <2>1 DEF EndDataBurst, CancelOne, TakeControls, DeferOne, ReapOne, EndTurn, ownerVars
  <2>2. CASE TransportStep \/ \E c \in Cmds : CommandTimeout(c)
    BY Zenon, <1>6, <2>2 DEF TransportStep, TransportProgress, ConnectSettles, StreamAborts,
       CommandTimeout, ownerVars
  <2>3. CASE ShutdownBegins \/ DrainNotification \/ ShutdownEnds \/ \E c \in Cmds : DrainActive(c)
    BY Zenon, <1>6, <2>3 DEF ShutdownBegins, DrainNotification, ShutdownEnds, DrainActive, ownerVars
  <2> QED BY Zenon, <1>3, <1>4, <1>5, <1>7, <2>1, <2>2, <2>3 DEF OwnerStep, OwnerTurn, Shutdown
<1>8. ASSUME NEW c \in Cmds, CallerStep(c) \/ DeadlinePasses(c) PROVE RingKinds'
  <2>1. CallerSummary(c) /\ RingOf(c) \in Rings
    BY Zenon, <1>8, CallerStepSummary DEF RingOf, Rings
  <2>2. burst' = burst /\ opc' = opc
    BY Zenon, <2>1 DEF CallerSummary
  <2>3. CASE ring' = ring
    BY Zenon, <1>6, <2>2, <2>3
  <2>4. CASE ring' = [ring EXCEPT ![RingOf(c)] = Append(@, c)]
    <3>1. \A r \in Rings : ring'[r] = IF r = RingOf(c) THEN Append(ring[r], c) ELSE ring[r]
      BY Zenon, <1>2, <2>1, <2>4
    <3>2. \A r \in Rings : Range(ring'[r]) \subseteq Range(ring[r])
                           \cup (IF r = RingOf(c) THEN {c} ELSE {})
      BY <1>2, <3>1, AppendLemma
    <3> QED BY Zenon, <2>2, <3>2 DEF RingKinds
  <2> QED BY Zenon, <2>1, <2>3, <2>4 DEF CallerSummary
<1>9. CASE UNCHANGED vars
  BY Zenon, <1>6, <1>9 DEF vars, ownerVars
<1> QED BY Zenon, <1>7, <1>8, <1>9 DEF Next, OwnerStep

\* A request handed over to the owner is still with it, or answered.
Answered == \A c \in Handed : c \in OwnerHolds \/ Done(c)

LEMMA AnsweredLemma ==
  ASSUME IInv, RingKinds, Answered, [Next]_vars
  PROVE  Answered'
<1>1. TypeOK /\ LifeCycle
  BY Zenon DEF IInv
<1>2. Handed \subseteq Cmds
  BY <1>1 DEF Handed, TypeOK, Range
<1>3. CASE OwnerSummary
  BY Zenon, <1>2, <1>3 DEF OwnerSummary, Shrinks, Fate, Answered, Done
<1>4. ASSUME NEW c \in Cmds, CallerSummary(c) PROVE Answered'
  <2>1. OwnerHolds \subseteq OwnerHolds'
    BY Zenon, <1>4, CallerAdds
  <2>2. \A d \in Handed' : d \in Handed \/ (d = c /\ pc[c] \in {"release", "held"})
    BY Zenon, <1>4 DEF CallerSummary
  <2>3. pc[c] \in {"release", "held"} => c \in OwnerHolds \/ Done(c)
    BY Zenon, <1>1 DEF LifeCycle
  <2>4. outcome' = outcome
    BY Zenon, <1>4 DEF CallerSummary
  <2> QED BY Zenon, <2>1, <2>2, <2>3, <2>4 DEF Answered, Done
<1> QED BY Zenon, <1>3, <1>4, Steps

\* Cancellations: the reason outlives its notification only while the request
\* is queued, unless shutdown is about to finish it.
LEMMA CancelLemma ==
  ASSUME IInv, RingKinds, Stopped, CancelTakesEffect, [Next]_vars
  PROVE  CancelTakesEffect'
<1>1. TypeOK /\ LifeCycle /\ OwnerPhase
  BY Zenon DEF IInv
<1> SUFFICES ASSUME NEW c \in Cmds, cancelError'[c] # None,
                    pc'[c] \notin {"expiring", "cancelling"}, c \notin Range(cancelList')
             PROVE  outcome'[c] # Pending \/ c \in Queued' \/ (opc' = "drain" /\ c \in active')
  BY Zenon DEF CancelTakesEffect, Done
<1>2. CASE OwnerSummary
  <2>1. Shrinks /\ Fate(c)
    BY Zenon, <1>2 DEF OwnerSummary
  <2>2. CASE c \in Queued \ Queued' \/ c \in Range(cancelList)
    BY Zenon, <2>1, <2>2 DEF Fate
  <2>3. CASE c \notin Queued \ Queued' /\ c \notin Range(cancelList)
    <3>1. cancelError[c] # None /\ pc[c] \notin {"expiring", "cancelling"}
      BY Zenon, <2>1, <2>3 DEF Fate, Shrinks
    <3>2. Done(c) \/ c \in Queued \/ (opc = "drain" /\ c \in active)
      BY Zenon, <2>3, <3>1 DEF CancelTakesEffect
    <3>3. Done(c) => outcome'[c] # Pending
      BY Zenon, <2>1 DEF Fate, Done
    <3>4. ASSUME opc = "drain", c \in active, outcome'[c] = Pending, c \notin Queued'
          PROVE  opc' = "drain" /\ c \in active'
      <4>1. c \in OwnerHolds /\ opc' = "drain"
        BY Zenon, <2>1, <3>4 DEF Shrinks, OwnerHolds
      <4>2. c \in OwnerHolds'
        BY Zenon, <2>1, <3>4, <4>1 DEF Fate
      <4> QED BY Zenon, <3>4, <4>1, <4>2 DEF OwnerHolds
    <3> QED BY Zenon, <2>3, <3>2, <3>3, <3>4
  <2> QED BY Zenon, <2>2, <2>3
<1>3. ASSUME NEW d \in Cmds, CallerSummary(d)
      PROVE  outcome'[c] # Pending \/ c \in Queued' \/ (opc' = "drain" /\ c \in active')
  <2>1. /\ outcome' = outcome /\ opc' = opc /\ active' = active /\ Queued \subseteq Queued'
        /\ cancelError'[c] = cancelError[c] /\ c \notin Range(cancelList)
        /\ c # d => pc'[c] = pc[c]
    BY Zenon, <1>3, CallerAdds DEF CallerSummary
  <2>2. CASE pc[c] \notin {"expiring", "cancelling"}
    BY Zenon, <2>1, <2>2 DEF CancelTakesEffect, Done
  <2>3. CASE pc[c] \in {"expiring", "cancelling"}
    <3>1. ~accepting
      BY Zenon, <1>3, <2>1, <2>3 DEF CallerSummary
    <3>2. opc \in {"drain", "stopped"}
      BY Zenon, <1>1, <3>1 DEF OwnerPhase
    <3>3. c \in OwnerHolds \/ Done(c)
      BY Zenon, <1>1, <2>3 DEF LifeCycle
    <3>4. opc = "stopped" => c \notin OwnerHolds
      BY Zenon DEF Stopped
    <3> QED BY Zenon, <2>1, <3>2, <3>3, <3>4 DEF OwnerHolds, Done
  <2> QED BY Zenon, <2>2, <2>3
<1> QED BY Zenon, <1>2, <1>3, Steps

\* A successful CREATE or ACCEPT has a socket of its own, which is closed unless
\* somebody took it or the owner still has the request.
ResultsKept ==
  \A c \in Cmds : Produces(c) /\ outcome[c] = "OK" =>
    /\ resultSock[c] \in Socks /\ sock[resultSock[c]] # "unused"
    /\ ~claimed[c] /\ c \notin OwnerHolds /\ opc # "drain" => sock[resultSock[c]] # "open"

LEMMA ResultsLemma ==
  ASSUME IInv, RingKinds, Stopped, Stopped', ResultsKept, [Next]_vars
  PROVE  ResultsKept'
<1>1. TypeOK /\ LifeCycle /\ OwnerPhase
  BY Zenon DEF IInv
<1> SUFFICES ASSUME NEW c \in Cmds, Produces(c), outcome'[c] = "OK"
             PROVE  /\ resultSock'[c] \in Socks /\ sock'[resultSock'[c]] # "unused"
                    /\ ~claimed'[c] /\ c \notin OwnerHolds' /\ opc' # "drain" =>
                         sock'[resultSock'[c]] # "open"
  BY Zenon DEF ResultsKept, Produces
<1>2. opc' = "stopped" => \A s \in Socks : sock'[s] # "open"
  BY Zenon DEF Stopped, Resolves
<1>3. CASE OwnerSummary /\ ~Done(c)
  BY Zenon, <1>3 DEF OwnerSummary, Deeds, ResultStep, Fate
<1>4. CASE OwnerSummary /\ Done(c)
  <2> DEFINE s == resultSock[c]
  <2>1. Shrinks /\ SockStep /\ ResultStep /\ Fate(c)
    BY Zenon, <1>4 DEF OwnerSummary, Deeds
  <2>2. outcome[c] = "OK" /\ resultSock'[c] = s /\ claimed' = claimed
    BY Zenon, <1>4, <2>1 DEF ResultStep, Fate, Shrinks
  <2>3. s \in Socks /\ sock[s] \in {"open", "closed", "retired"}
    BY Zenon, <1>1, <2>2 DEF ResultsKept, TypeOK
  <2> HIDE DEF s
  <2>4. sock'[s] # "unused"
    BY Zenon, <2>1, <2>3 DEF SockStep
  <2>5. ASSUME ~claimed[c], c \notin OwnerHolds', opc' # "drain"
        PROVE  sock'[s] # "open"
    <3>1. CASE opc = "drain"
      BY Zenon, <1>2, <2>1, <2>3, <2>5, <3>1 DEF Shrinks
    <3>2. CASE opc # "drain" /\ c \in OwnerHolds
      BY Zenon, <2>1, <2>2, <2>3, <2>5, <3>2 DEF Fate, Unclaimed, s
    <3>3. CASE opc # "drain" /\ c \notin OwnerHolds
      <4>1. sock[s] # "open"
        BY Zenon, <2>2, <2>5, <3>3 DEF ResultsKept, s
      <4> QED BY Zenon, <2>1, <2>3, <4>1 DEF SockStep
    <3> QED BY Zenon, <3>1, <3>2, <3>3
  <2> QED BY Zenon, <2>2, <2>3, <2>4, <2>5
<1>5. ASSUME NEW d \in Cmds, CallerSummary(d)
      PROVE  /\ resultSock'[c] \in Socks /\ sock'[resultSock'[c]] # "unused"
             /\ ~claimed'[c] /\ c \notin OwnerHolds' /\ opc' # "drain" =>
                  sock'[resultSock'[c]] # "open"
  <2>1. /\ UNCHANGED <<outcome, sock, resultSock, opc>> /\ OwnerHolds \subseteq OwnerHolds'
        /\ claimed'[c] # claimed[c] => pc[c] \in {"wait", "held"}
    BY Zenon, <1>5, CallerAdds DEF CallerSummary
  <2>2. resultSock[c] \in Socks /\ sock[resultSock[c]] # "unused"
    BY Zenon, <2>1 DEF ResultsKept
  <2>3. ASSUME ~claimed'[c], c \notin OwnerHolds', opc # "drain"
        PROVE  sock[resultSock[c]] # "open"
    <3>1. CASE ~claimed[c]
      BY Zenon, <2>1, <2>3, <3>1 DEF ResultsKept
    <3>2. CASE claimed[c]
      <4>1. pc[c] \in {"wait", "held"} /\ c \notin OwnerHolds
        BY Zenon, <2>1, <2>3, <3>2
      <4>2. ~accepting
        BY Zenon, <1>1, <4>1 DEF LifeCycle
      <4>3. opc' = "stopped"
        BY Zenon, <1>1, <2>1, <2>3, <4>2 DEF OwnerPhase
      <4> QED BY Zenon, <1>2, <2>1, <2>2, <4>3
    <3> QED BY Zenon, <3>1, <3>2
  <2> QED BY Zenon, <2>1, <2>2, <2>3
<1> QED BY Zenon, <1>3, <1>4, <1>5, Steps

\* The inductive invariant of what the channel promises, on top of IInv.
SInv == RingKinds /\ Stopped /\ Answered /\ CancelTakesEffect /\ ResultsKept

\* Together with IInv it holds at the start and is kept by every step.
LEMMA ServiceInvariant == Spec => [](IInv /\ SInv)
<1>1. Init => SInv
  <2> SUFFICES ASSUME Init PROVE SInv
    BY Zenon
  <2>1. Range(<<>>) = {} /\ ring["CLOSE"] = <<>> /\ ring["DATA"] = <<>>
    BY DEF Range, Init, Rings
  <2>2. Handed = {} /\ RingKinds
    BY Zenon, <2>1 DEF Init, Handed, RingKinds, Rings
  <2> QED BY Zenon, <2>2 DEF Init, SInv, Stopped, Answered, CancelTakesEffect, ResultsKept, Pending
<1>2. IInv /\ SInv /\ [Next]_vars => SInv'
  BY Zenon, RingKindsLemma, StoppedLemma, AnsweredLemma, CancelLemma, ResultsLemma DEF SInv
<1> QED BY <1>1, <1>2, Invariance, PTL DEF Spec

-----------------------------------------------------------------------------
(***************************************************************************)
(* The theorems.                                                           *)
(***************************************************************************)

\* A cancellation is never forgotten: once command_cancellations has consumed
\* the notification the request is answered, or is still in a ring or burst,
\* where command_start sees cancel_error.
THEOREM CancelsTakeEffect == Spec => []CancelTakesEffect
<1>1. SInv => CancelTakesEffect
  BY Zenon DEF SInv
<1> QED BY <1>1, ServiceInvariant, PTL

\* command_reap closes a result nobody took before the request is freed: no
\* socket outlives the request that made it without an owner.
THEOREM NoSocketLeaks == Spec => []NoLeakedSocket
<1>1. IInv /\ SInv => NoLeakedSocket
  <2> SUFFICES ASSUME IInv, SInv, NEW c \in Cmds, Produces(c), outcome[c] = "OK",
                      ~claimed[c], refs[c] = 0, opc # "drain"
               PROVE  sock[resultSock[c]] # "open"
    BY Zenon DEF NoLeakedSocket
  <2>1. c \notin OwnerHolds
    BY DEF IInv, RefAccounting, One
  <2> QED BY Zenon, <2>1 DEF SInv, ResultsKept
<1> QED BY <1>1, ServiceInvariant, PTL

\* Only its CLOSE, the owner's shutdown or the reaping of a result that was not
\* taken closes an open socket.
THEOREM ClosedByOwnersOnly == Spec => OnlyOwnersClose
<1> DEFINE A == ClosedByOwner
<1>1. IInv /\ SInv /\ [Next]_vars => [A]_vars
  <2> SUFFICES ASSUME IInv, SInv, [Next]_vars PROVE A
    BY Zenon
  <2>1. CASE OwnerSummary
    BY Zenon, <2>1 DEF OwnerSummary
  <2>2. CASE \E c \in Cmds : CallerSummary(c)
    BY Zenon, <2>2 DEF CallerSummary, ClosedByOwner
  <2> QED BY Zenon, <2>1, <2>2, Steps DEF SInv
<1> QED BY <1>1, ServiceInvariant, PTL DEF Spec, OnlyOwnersClose, ClosedByOwner

\* Requests parked on one wait queue succeed in the order they were parked.
THEOREM QueuesAreFair == Spec => ServedInOrder
<1>1. IInv /\ SInv /\ [Next]_vars => [InOrder]_vars
  <2> SUFFICES ASSUME IInv, SInv, [Next]_vars PROVE InOrder
    BY Zenon
  <2>1. CASE OwnerSummary
    BY Zenon, <2>1 DEF OwnerSummary, Deeds
  <2>2. CASE \E c \in Cmds : CallerSummary(c)
    BY Zenon, <2>2, WaitersPending DEF CallerSummary, InOrder, Done, Pending
  <2> QED BY Zenon, <2>1, <2>2, Steps DEF SInv
<1> QED BY <1>1, ServiceInvariant, PTL DEF Spec, ServedInOrder, InOrder

-----------------------------------------------------------------------------
(***************************************************************************)
(* The refinement of RequestService.                                       *)
(***************************************************************************)

\* A request is free when nobody holds it.
LEMMA RefsZero ==
  ASSUME IInv, NEW c \in Cmds
  PROVE  refs[c] = 0 <=> c \notin CallerHolds \cup OwnerHolds \cup Range(cancelList) \cup Handed
BY DEF IInv, RefAccounting, One

LEMMA RefsZeroNext ==
  ASSUME IInv', NEW c \in Cmds
  PROVE  refs'[c] = 0 <=> c \notin CallerHolds' \cup OwnerHolds' \cup Range(cancelList') \cup Handed'
BY DEF IInv, RefAccounting, One

\* The phases, one request at a time.
LEMMA PhaseOf ==
  ASSUME NEW c \in Cmds
  PROVE  /\ Phase[c] = IF pc[c] = "idle" THEN "idle"
                       ELSE IF pc[c] \in {"submit", "sleep"} THEN "asking"
                       ELSE IF refs[c] = 0 THEN "freed" ELSE "accepted"
         /\ Phase'[c] = IF pc'[c] = "idle" THEN "idle"
                        ELSE IF pc'[c] \in {"submit", "sleep"} THEN "asking"
                        ELSE IF refs'[c] = 0 THEN "freed" ELSE "accepted"
BY Zenon DEF Phase

\* The owner's steps answer and free accepted requests.
LEMMA OwnerServes ==
  ASSUME IInv, IInv', SInv, OwnerSummary
  PROVE  Service!Serve
<1> DEFINE answered == {c \in Cmds : outcome'[c] # outcome[c]}
           freed == {c \in Cmds : Phase'[c] # Phase[c]}
           accepted == {c \in Cmds : Phase[c] = "accepted"}
           r == [c \in answered |-> outcome'[c]]
<1>1. TypeOK /\ LifeCycle /\ outcome' \in [Cmds -> Outcomes \cup {Pending}] /\ Shrinks
  BY Zenon DEF IInv, TypeOK, OwnerSummary
<1>2. CallerHolds' = CallerHolds
  BY Zenon, <1>1 DEF CallerHolds, Shrinks
<1>3. ASSUME NEW c \in answered
      PROVE  c \in accepted /\ outcome[c] = Pending /\ outcome'[c] \in Outcomes
  <2>1. ~Done(c) /\ c \in OwnerHolds
    BY Zenon DEF OwnerSummary, Fate
  <2>2. pc[c] \notin {"idle", "submit", "sleep"} /\ refs[c] # 0
    BY Zenon, <1>1, <2>1, RefsZero DEF LifeCycle
  <2> QED BY Zenon, <1>1, <2>1, <2>2, PhaseOf DEF Done
<1>4. ASSUME NEW c \in freed
      PROVE  c \in accepted /\ Phase'[c] = "freed" /\ outcome'[c] # Pending
  <2>1. pc'[c] = pc[c] /\ pc[c] \notin {"idle", "submit", "sleep"}
        /\ ~(refs[c] = 0 <=> refs'[c] = 0)
    BY Zenon, <1>1, PhaseOf DEF Shrinks
  <2>2. refs[c] = 0 => refs'[c] = 0
    BY Zenon, <1>1, <1>2, RefsZero, RefsZeroNext DEF Shrinks
  <2>3. refs[c] # 0 /\ refs'[c] = 0
    BY Zenon, <2>1, <2>2
  <2>4. /\ c \notin OwnerHolds' /\ c \notin CallerHolds
        /\ c \in OwnerHolds \/ c \in Range(cancelList) \/ c \in Handed
    BY Zenon, <1>2, <2>3, RefsZero, RefsZeroNext
  <2>5. c \in OwnerHolds \/ Done(c)
    BY Zenon, <1>1, <2>4 DEF LifeCycle, SInv, Answered
  <2>6. outcome'[c] # Pending
    BY Zenon, <2>4, <2>5 DEF OwnerSummary, Fate, Done
  <2> QED BY Zenon, <2>1, <2>3, <2>6, PhaseOf
<1>5. r \in [answered -> Outcomes] /\ answered \in SUBSET accepted /\ freed \in SUBSET accepted
  BY Zenon, <1>3, <1>4
<1>6. outcome' = [c \in Cmds |-> IF c \in answered THEN r[c] ELSE outcome[c]]
  BY Zenon, <1>1
<1>7. Phase' = [c \in Cmds |-> IF c \in freed THEN "freed" ELSE Phase[c]]
  <2>1. Phase' = [c \in Cmds |-> Phase'[c]]
    BY Zenon DEF Phase
  <2>2. \A c \in Cmds : Phase'[c] = IF c \in freed THEN "freed" ELSE Phase[c]
    BY Zenon, <1>4
  <2> HIDE DEF freed
  <2> QED BY Zenon, <2>1, <2>2
<1>8. (\A c \in answered : outcome[c] = Pending) /\ (\A c \in freed : outcome'[c] # Pending)
  BY Zenon, <1>3, <1>4
<1> HIDE DEF answered, freed, r
<1> QED BY Zenon, <1>5, <1>6, <1>7, <1>8 DEF Service!Serve

\* The moves of one request that RequestService allows.
Moves(p, q, done) ==
  \/ p = q
  \/ p = "idle" /\ q = "asking"
  \/ p \in {"idle", "asking"} /\ q = "freed"
  \/ p = "asking" /\ q = "accepted"
  \/ p = "accepted" /\ q = "freed" /\ done

\* A calling thread moves its own request.
LEMMA CallerMoves ==
  ASSUME IInv, IInv', NEW c \in Cmds, CallerStep(c) \/ DeadlinePasses(c)
  PROVE  Moves(Phase[c], Phase'[c], Done(c))
<1>1. TypeOK /\ LifeCycle /\ pc \in [Cmds -> CallerPCs] /\ refs \in [Cmds -> 0..3]
  BY Zenon DEF IInv, TypeOK
<1>2. pc[c] = "idle" => refs[c] = 0
  BY Zenon, <1>1, RefsZero DEF LifeCycle, CallerHolds
<1>3. pc[c] \in {"submit", "sleep"} => refs[c] = 1
  <2> SUFFICES ASSUME pc[c] \in {"submit", "sleep"} PROVE refs[c] = 1
    BY Zenon
  <2>1. c \in CallerHolds /\ c \notin OwnerHolds \cup Range(cancelList) \cup Handed
    BY Zenon, <1>1 DEF LifeCycle, CallerHolds
  <2> QED BY <2>1 DEF IInv, RefAccounting, One
<1>4. CASE Clone(c)
  <2>1. /\ pc[c] = "idle"
        /\ pc'[c] = "submit" \/ (pc'[c] = "gone" /\ refs'[c] = 0)
    BY Zenon, <1>1, <1>2, <1>4 DEF Clone, Goto
  <2> QED BY Zenon, <2>1, PhaseOf DEF Moves
<1>5. CASE Submit(c) \/ WakeSubmitter(c)
  <2>1. /\ pc[c] \in {"submit", "sleep"}
        /\ \/ pc'[c] \in {"submit", "sleep"}
           \/ pc'[c] = "gone" /\ refs'[c] = 0
           \/ pc'[c] = "wait" /\ refs'[c] = 2
    BY <1>1, <1>3, <1>5 DEF Submit, WakeSubmitter, Enqueue, Refuse, AwaitSpace, Goto, Get, Put
  <2> QED BY Zenon, <2>1, PhaseOf DEF Moves
<1>6. CASE DeadlinePasses(c)
  BY Zenon, <1>6, PhaseOf DEF DeadlinePasses, cmdVars, Moves
<1>7. CASE WaitExpires(c) \/ ThreadCancelled(c) \/ NotifyCancel(c) \/ Return(c)
  <2>1. /\ pc[c] \notin {"idle", "submit", "sleep", "gone"}
        /\ pc'[c] \notin {"idle", "submit", "sleep", "gone"}
    BY Zenon, <1>1, <1>7 DEF WaitExpires, ThreadCancelled, NotifyCancel, Return, Goto
  <2>2. c \in CallerHolds /\ c \in CallerHolds'
    BY Zenon, <2>1 DEF CallerHolds
  <2>3. refs[c] # 0 /\ refs'[c] # 0
    BY Zenon, <2>2, RefsZero, RefsZeroNext
  <2> QED BY Zenon, <2>1, <2>3, PhaseOf DEF Moves
<1>8. CASE Release(c) \/ ResultRelease(c)
  <2>1. pc[c] \in {"release", "held"} /\ pc'[c] = "gone"
    BY Zenon, <1>1, <1>8 DEF Release, ResultRelease, ReleaseCaller, Goto
  <2>2. refs[c] # 0
    BY Zenon, <2>1, RefsZero DEF CallerHolds
  <2>3. refs'[c] = 0 => Done(c)
    <3>1. c \in OwnerHolds \/ Done(c)
      BY Zenon, <1>1, <2>1 DEF LifeCycle
    <3>2. OwnerHolds \subseteq OwnerHolds'
      BY Zenon, CallerStepSummary, CallerAdds
    <3> QED BY Zenon, <3>1, <3>2, RefsZeroNext
  <2> QED BY Zenon, <2>1, <2>2, <2>3, PhaseOf DEF Moves
<1> QED BY Zenon, <1>4, <1>5, <1>6, <1>7, <1>8 DEF CallerStep

LEMMA CallerServes ==
  ASSUME IInv, IInv', NEW c \in Cmds, CallerStep(c) \/ DeadlinePasses(c)
  PROVE  Service!Next \/ UNCHANGED Service!service
<1> DEFINE p == Phase[c]
           q == Phase'[c]
<1>1. CallerSummary(c) /\ Moves(p, q, Done(c))
  BY Zenon, CallerStepSummary, CallerMoves
<1>2. outcome' = outcome /\ \A d \in Cmds \ {c} : pc'[d] = pc[d] /\ refs'[d] = refs[d]
  BY Zenon, <1>1 DEF CallerSummary
<1>3. Phase \in [Cmds -> {"idle", "asking", "freed", "accepted"}]
  BY Zenon DEF Phase
<1>4. Phase' = [Phase EXCEPT ![c] = q]
  <2>1. Phase' = [d \in Cmds |-> Phase'[d]]
    BY Zenon DEF Phase
  <2>2. \A d \in Cmds : Phase'[d] = IF d = c THEN q ELSE Phase[d]
    BY Zenon, <1>2, PhaseOf
  <2> HIDE DEF q
  <2> QED BY Zenon, <1>3, <2>1, <2>2
<1> HIDE DEF p, q
<1>5. CASE p = q
  <2>1. Phase' = Phase
    BY Zenon, <1>3, <1>4, <1>5 DEF p
  <2> QED BY Zenon, <1>2, <2>1 DEF Service!service
<1>6. CASE p = "idle" /\ q = "asking"
  BY Zenon, <1>2, <1>4, <1>6 DEF Service!Next, Service!Ask, p
<1>7. CASE p \in {"idle", "asking"} /\ q = "freed"
  BY Zenon, <1>2, <1>4, <1>7 DEF Service!Next, Service!Refuse, p
<1>8. CASE p = "asking" /\ q = "accepted"
  BY Zenon, <1>2, <1>4, <1>8 DEF Service!Next, Service!Accept, p
<1>9. CASE p = "accepted" /\ q = "freed" /\ Done(c)
  <2> DEFINE accepted == {d \in Cmds : Phase[d] = "accepted"}
             r == [d \in {} |-> Pending]
  <2>1. {} \in SUBSET accepted /\ {c} \in SUBSET accepted /\ r \in [{} -> Outcomes]
    BY Zenon, <1>9 DEF p
  <2>2. outcome' = [d \in Cmds |-> IF d \in {} THEN r[d] ELSE outcome[d]]
    BY Zenon, <1>2 DEF IInv, TypeOK
  <2>3. Phase' = [d \in Cmds |-> IF d \in {c} THEN "freed" ELSE Phase[d]]
    BY Zenon, <1>3, <1>4, <1>9
  <2>4. (\A d \in {} : outcome[d] = Pending) /\ (\A d \in {c} : outcome'[d] # Pending)
    BY Zenon, <1>2, <1>9 DEF Done
  <2> HIDE DEF r
  <2> QED BY Zenon, <2>1, <2>2, <2>3, <2>4 DEF Service!Next, Service!Serve
<1> QED BY Zenon, <1>1, <1>5, <1>6, <1>7, <1>8, <1>9 DEF Moves

\* The command channel of socket_owner.c implements RequestService, for any
\* number of requests, sockets and ring slots: a request that was accepted is
\* answered exactly once, and its memory is reclaimed once and not before.
THEOREM ChannelIsService == Spec => ImplementsService
<1>1. Init => Service!Init
  BY Zenon DEF Init, Service!Init, Phase
<1>2. /\ IInv /\ SInv /\ IInv' /\ [Next]_vars
      => [Service!Next]_(Service!service)
  <2> SUFFICES ASSUME IInv, SInv, IInv', [Next]_vars
               PROVE  Service!Next \/ UNCHANGED Service!service
    BY Zenon
  <2>1. CASE \E c \in Cmds : CallerStep(c) \/ DeadlinePasses(c)
    BY Zenon, <2>1, CallerServes
  <2>2. CASE OwnerStep \/ UNCHANGED vars
    <3>1. OwnerSummary
      BY Zenon, <2>2, OwnerStepSummary, StutterSummary DEF SInv
    <3> QED BY Zenon, <3>1, OwnerServes DEF Service!Next
  <2> QED BY Zenon, <2>1, <2>2 DEF Next, OwnerStep
<1> QED BY <1>1, <1>2, ServiceInvariant, PTL DEF Spec, ImplementsService, Service!Spec

-----------------------------------------------------------------------------
(***************************************************************************)
(* Handles and the requests that name them: no two requests are given the  *)
(* same socket, and nobody waits on a socket that was closed.              *)
(*                                                                         *)
(* The argument is about command_reap, which closes a result without       *)
(* answering its waiters: that is right because a result nobody took was   *)
(* never named by a request that can wait.                                 *)
(***************************************************************************)

\* Nobody is left waiting on a closed socket.
Live == \A c \in active : ~Done(c) => sock[Target[c]] = "open"

\* A socket that was handed out had not been seen before.
Distinct ==
  /\ \A s \in Opened : sock[s] # "unused"
  /\ \A c \in Cmds : resultSock[c] # None =>
       resultSock[c] \in Socks \ Opened /\ sock[resultSock[c]] # "unused"
  /\ \A c, d \in Cmds : resultSock[c] # None /\ resultSock[c] = resultSock[d] => c = d

\* A result is taken once, after it was committed.
Claims ==
  \A c \in Cmds : /\ pc[c] = "held" \/ claimed[c] => Done(c)
                  /\ claimed[c] => pc[c] \in {"release", "gone"}

\* A request that may wait names a socket the application was given.
Named ==
  \A c \in Cmds : pc[c] # "idle" /\ Kind[c] \in Waitable =>
    Target[c] \in Opened \/ \E d \in Cmds : claimed[d] /\ resultSock[d] = Target[c]

\* The inductive invariant of handles, on top of IInv and SInv.
HInv == Live /\ Distinct /\ Claims /\ Named

-----------------------------------------------------------------------------
(***************************************************************************)
(* New handles.                                                            *)
(***************************************************************************)
NewHandles ==
  /\ \A c \in Cmds : resultSock'[c] # resultSock[c] =>
       /\ resultSock'[c] \in Socks
       /\ sock[resultSock'[c]] = "unused" /\ sock'[resultSock'[c]] = "open"
  /\ \A c, d \in Cmds : /\ resultSock'[c] # resultSock[c] /\ resultSock'[d] # resultSock[d]
                        /\ resultSock'[c] = resultSock'[d]
                        => c = d

\* No socket is closed.
OpenKept == \A s \in Socks : sock[s] = "open" => sock'[s] = "open"

\* Slots are taken from the free ones, each once.
LEMMA AdoptNew ==
  ASSUME NEW new, new \subseteq Cmds, Adopt(new)
  PROVE  NewHandles /\ OpenKept
<1>1. PICK f \in [new -> {s \in Socks : sock[s] = "unused"}] :
        /\ \A c, d \in new : f[c] = f[d] => c = d
        /\ sock' = [s \in Socks |-> IF s \in Range(f) THEN "open" ELSE sock[s]]
        /\ resultSock' = [c \in Cmds |-> IF c \in new THEN f[c] ELSE resultSock[c]]
  BY Zenon DEF Adopt
<1>2. \A c \in new : f[c] \in Range(f) /\ f[c] \in Socks /\ sock[f[c]] = "unused"
  BY Zenon DEF Range
<1>3. \A c \in Cmds : resultSock'[c] # resultSock[c] => c \in new /\ resultSock'[c] = f[c]
  BY Zenon, <1>1
<1>4. \A c \in new : sock'[f[c]] = "open"
  BY Zenon, <1>1, <1>2
<1>5. OpenKept
  BY Zenon, <1>1 DEF OpenKept
<1> QED BY Zenon, <1>1, <1>2, <1>3, <1>4, <1>5 DEF NewHandles

LEMMA WakeNew ==
  ASSUME NEW s, NEW k, NEW q \in Seq(Cmds), WakeQueue(s, k, q)
  PROVE  NewHandles /\ OpenKept
<1>1. PICK n \in 0..Len(q) : \E o \in [{q[i] : i \in 1..n} -> Outcomes] :
        Adopt({c \in {q[i] : i \in 1..n} : k = "ACCEPT" /\ o[c] = "OK"})
  BY Zenon DEF WakeQueue
<1>2. PICK o \in [{q[i] : i \in 1..n} -> Outcomes] :
        Adopt({c \in {q[i] : i \in 1..n} : k = "ACCEPT" /\ o[c] = "OK"})
  BY <1>1, Zenon
<1>3. {c \in {q[i] : i \in 1..n} : k = "ACCEPT" /\ o[c] = "OK"} \subseteq Cmds
  OBVIOUS
<1> QED BY Zenon, <1>2, <1>3, AdoptNew

LEMMA StartNew ==
  ASSUME IInv, NEW c \in Cmds, NEW e, StartCommand(c, e)
  PROVE  NewHandles
<1>1. ASSUME resultSock' = resultSock PROVE NewHandles
  BY Zenon, <1>1 DEF NewHandles
<1>2. ASSUME NEW v, Finish(c, v) PROVE NewHandles
  BY Zenon, <1>1, <1>2 DEF Finish
<1>3. ASSUME Park(c) PROVE NewHandles
  BY Zenon, <1>1, <1>3 DEF Park
<1>4. CASE e # None
  BY Zenon, <1>1, <1>4 DEF StartCommand
<1>5. CASE e = None
  <2>1. CASE Finish(c, "ERROR")
    BY Zenon, <1>2, <2>1
  <2>2. CASE Process(c) /\ Kind[c] = "CREATE"
    <3>1. {c} \subseteq Cmds
      BY Zenon
    <3> QED BY Zenon, <1>2, <2>2, <3>1, AdoptNew DEF Process, ProcessCreate
  <2>3. CASE Process(c) /\ Kind[c] # "CREATE" /\ sock[Target[c]] # "open"
    BY Zenon, <1>2, <2>3 DEF Process
  <2>4. CASE Process(c) /\ sock[Target[c]] = "open" /\ Kind[c] \in {"RECV", "ACCEPT"}
    <3>1. Append(waitq[Target[c]][Kind[c]], c) \in Seq(Cmds)
      BY <2>4, TargetAssumption DEF IInv, TypeOK, Waitable
    <3> QED BY Zenon, <1>2, <2>4, <3>1, WakeNew DEF Process, ProcessQueued
  <2>5. CASE Process(c) /\ sock[Target[c]] = "open" /\ Kind[c] = "CONNECT"
    BY Zenon, <1>2, <1>3, <2>5 DEF Process, ProcessConnect
  <2>6. CASE Process(c) /\ sock[Target[c]] = "open" /\ Kind[c] = "SEND"
    BY Zenon, <1>2, <1>3, <2>6 DEF Process, ProcessSend
  <2>7. CASE Process(c) /\ sock[Target[c]] = "open" /\ Kind[c] = "CONTROL"
    BY Zenon, <1>2, <2>7 DEF Process, ProcessControl
  <2>8. CASE Process(c) /\ sock[Target[c]] = "open" /\ Kind[c] = "CLOSE"
    BY Zenon, <1>1, <2>8 DEF Process, ProcessClose
  <2> QED BY Zenon, <1>5, <2>1, <2>2, <2>3, <2>4, <2>5, <2>6, <2>7, <2>8, KindAssumption
             DEF StartCommand, Kinds, Waitable
<1> QED BY Zenon, <1>4, <1>5

\* Requests are started from the burst, or by shutdown from a ring.
LEMMA Started ==
  ASSUME IInv, StartOne \/ \E r \in Rings : DrainRing(r)
  PROVE  \E c \in Queued, e \in Reasons \cup {None} : c \in Cmds /\ StartCommand(c, e)
<1>1. TypeOK
  BY Zenon DEF IInv
<1>2. CASE StartOne
  <2> DEFINE c == Head(burst)
             e == IF cancelError[c] # None THEN cancelError[c]
                  ELSE IF c \in expired THEN "ETIMEDOUT" ELSE None
  <2>1. burst \in Seq(Cmds) /\ burst # <<>> /\ StartCommand(c, e)
    BY Zenon, <1>1, <1>2 DEF TypeOK, StartOne
  <2>2. c \in Cmds /\ c \in Range(burst)
    BY <2>1, PopLemma
  <2>3. c \in Queued /\ e \in Reasons \cup {None}
    BY Zenon, <1>1, <2>2 DEF Queued, TypeOK, Reasons
  <2> HIDE DEF c, e
  <2> QED BY Zenon, <2>1, <2>2, <2>3
<1>3. ASSUME NEW r \in Rings, DrainRing(r)
      PROVE  \E c \in Queued, e \in Reasons \cup {None} : c \in Cmds /\ StartCommand(c, e)
  <2> DEFINE c == Head(ring[r])
             e == IF cancelError[c] = None THEN "ENETDOWN" ELSE cancelError[c]
  <2>1. ring[r] \in Seq(Cmds) /\ ring[r] # <<>> /\ StartCommand(c, e)
    BY Zenon, <1>1, <1>3 DEF TypeOK, DrainRing
  <2>2. c \in Cmds /\ c \in Range(ring[r])
    BY <2>1, PopLemma
  <2>3. c \in Queued /\ e \in Reasons \cup {None}
    BY Zenon, <1>1, <2>2 DEF Queued, TypeOK, Reasons, Rings
  <2> HIDE DEF c, e
  <2> QED BY Zenon, <2>1, <2>2, <2>3
<1> QED BY Zenon, <1>2, <1>3

\* Every step of the owner hands out new handles only.
LEMMA OwnerNew ==
  ASSUME IInv, OwnerStep
  PROVE  NewHandles
<1>1. ASSUME resultSock' = resultSock PROVE NewHandles
  BY Zenon, <1>1 DEF NewHandles
<1>2. CASE StartOne \/ \E r \in Rings : DrainRing(r)
  BY Zenon, <1>2, Started, StartNew
<1>3. CASE \E s \in Socks : TransportProgress(s)
  <2>1. PICK s \in Socks, k \in {"RECV", "SEND", "ACCEPT"} : WakeQueue(s, k, waitq[s][k])
    BY Zenon, <1>3 DEF TransportProgress
  <2>2. waitq[s][k] \in Seq(Cmds)
    BY DEF IInv, TypeOK, Waitable
  <2> QED BY Zenon, <2>1, <2>2, WakeNew
<1>4. CASE BeginTurn \/ EndCloseBurst \/ EndDataBurst \/ CancelOne \/ TakeControls
           \/ DeferOne \/ ReapOne \/ EndTurn
  BY Zenon, <1>1, <1>4 DEF BeginTurn, EndCloseBurst, EndDataBurst, CancelOne, TakeControls,
     DeferOne, ReapOne, EndTurn, cmdVars
<1>5. CASE \E s \in Socks : ConnectSettles(s) \/ StreamAborts(s)
  BY Zenon, <1>1, <1>5 DEF ConnectSettles, StreamAborts
<1>6. CASE ShutdownBegins \/ DrainNotification \/ ShutdownEnds
           \/ \E c \in Cmds : DrainActive(c) \/ CommandTimeout(c)
  BY Zenon, <1>1, <1>6 DEF ShutdownBegins, DrainNotification, ShutdownEnds, DrainActive,
     CommandTimeout, cmdVars
<1> QED BY Zenon, <1>2, <1>3, <1>4, <1>5, <1>6 DEF OwnerStep, OwnerTurn, TransportStep, Shutdown

\* Handles stay distinct.
LEMMA DistinctLemma ==
  ASSUME IInv, RingKinds, Distinct, [Next]_vars
  PROVE  Distinct'
<1>1. TypeOK
  BY Zenon DEF IInv
<1>2. CASE OwnerStep
  <2>1. NewHandles /\ SockStep
    BY Zenon, <1>2, OwnerNew, OwnerStepSummary DEF OwnerSummary, Deeds
  <2>2. \A s \in Socks : sock[s] # "unused" => sock'[s] # "unused"
    BY Zenon, <1>1, <2>1 DEF SockStep, TypeOK
  <2>3. \A s \in Opened : sock'[s] # "unused"
    BY Zenon, <2>2, TargetAssumption DEF Distinct
  <2>4. ASSUME NEW c \in Cmds, resultSock'[c] # None
        PROVE  resultSock'[c] \in Socks \ Opened /\ sock'[resultSock'[c]] # "unused"
    <3>1. CASE resultSock'[c] = resultSock[c]
      BY Zenon, <2>2, <2>4, <3>1 DEF Distinct
    <3>2. CASE resultSock'[c] # resultSock[c]
      BY Zenon, <2>1, <3>2 DEF NewHandles, Distinct
    <3> QED BY Zenon, <3>1, <3>2
  <2>5. ASSUME NEW c \in Cmds, NEW d \in Cmds, resultSock'[c] # None, resultSock'[c] = resultSock'[d]
        PROVE  c = d
    BY <2>1, <2>5 DEF NewHandles, Distinct
  <2> QED BY Zenon, <2>3, <2>4, <2>5 DEF Distinct
<1>3. CASE (\E c \in Cmds : CallerStep(c) \/ DeadlinePasses(c)) \/ UNCHANGED vars
  <2>1. sock' = sock /\ resultSock' = resultSock
    BY Zenon, <1>3, CallerStepSummary DEF CallerSummary, vars, cmdVars, sockVars
  <2> QED BY Zenon, <2>1 DEF Distinct
<1> QED BY Zenon, <1>2, <1>3 DEF Next, OwnerStep

\* A result is taken by its own caller, once.
LEMMA ClaimsLemma ==
  ASSUME IInv, RingKinds, Claims, [Next]_vars
  PROVE  Claims' /\ \A c \in Cmds : claimed[c] => claimed'[c]
<1>1. TypeOK /\ claimed \in [Cmds -> BOOLEAN] /\ pc \in [Cmds -> CallerPCs]
  BY Zenon DEF IInv, TypeOK
<1>2. CASE OwnerSummary
  BY Zenon, <1>2 DEF OwnerSummary, Shrinks, Fate, Claims, Done
<1>3. ASSUME NEW c \in Cmds, CallerStep(c) \/ DeadlinePasses(c)
      PROVE  Claims' /\ \A d \in Cmds : claimed[d] => claimed'[d]
  <2>1. CallerSummary(c)
    BY Zenon, <1>3, CallerStepSummary
  <2>2. outcome' = outcome /\ \A d \in Cmds \ {c} : pc'[d] = pc[d] /\ claimed'[d] = claimed[d]
    BY Zenon, <2>1 DEF CallerSummary
  <2>3. CASE Clone(c) \/ Submit(c) \/ WakeSubmitter(c) \/ WaitExpires(c) \/ ThreadCancelled(c)
             \/ NotifyCancel(c) \/ DeadlinePasses(c)
    <3>1. claimed' = claimed
      BY Zenon, <2>3 DEF Clone, Submit, WakeSubmitter, WaitExpires, ThreadCancelled, NotifyCancel,
         DeadlinePasses, cmdVars
    <3>2. CASE Clone(c) \/ WakeSubmitter(c) \/ WaitExpires(c) \/ ThreadCancelled(c)
      <4>1. pc[c] \notin {"held", "release", "gone"} /\ pc'[c] # "held"
        BY Zenon, <1>1, <3>2 DEF Clone, WakeSubmitter, WaitExpires, ThreadCancelled, Goto
      <4> QED BY Zenon, <2>2, <3>1, <4>1 DEF Claims, Done
    <3>3. CASE Submit(c)
      <4>1. pc[c] \notin {"held", "release", "gone"} /\ pc'[c] # "held"
        BY Zenon, <1>1, <3>3 DEF Submit, Enqueue, Refuse, AwaitSpace, Goto
      <4> QED BY Zenon, <2>2, <3>1, <4>1 DEF Claims, Done
    <3>4. CASE NotifyCancel(c)
      <4>1. pc[c] \notin {"held", "release", "gone"} /\ pc'[c] # "held"
        BY Zenon, <1>1, <3>4 DEF NotifyCancel, Goto
      <4> QED BY Zenon, <2>2, <3>1, <4>1 DEF Claims, Done
    <3>5. CASE DeadlinePasses(c)
      <4>1. pc' = pc
        BY Zenon, <3>5 DEF DeadlinePasses
      <4> QED BY Zenon, <2>2, <3>1, <4>1 DEF Claims, Done
    <3> QED BY Zenon, <2>3, <3>2, <3>3, <3>4, <3>5
  <2>4. CASE Return(c)
    <3>1. /\ pc[c] = "wait" /\ Done(c)
          /\ claimed'[c] => pc'[c] = "release"
      BY Zenon, <1>1, <2>4 DEF Return, Goto
    <3> QED BY Zenon, <2>2, <3>1 DEF Claims, Done
  <2>5. CASE Release(c) \/ ResultRelease(c)
    <3>1. /\ pc[c] \in {"release", "held"} /\ pc'[c] = "gone"
          /\ pc[c] = "release" => claimed' = claimed
      BY Zenon, <1>1, <2>5 DEF Release, ResultRelease, ReleaseCaller, Goto
    <3> QED BY Zenon, <2>2, <3>1 DEF Claims, Done
  <2> QED BY Zenon, <1>3, <2>3, <2>4, <2>5 DEF CallerStep
<1> QED BY Zenon, <1>2, <1>3, OwnerStepSummary, StutterSummary DEF Next, OwnerStep

\* A handle that was taken stays known, so what is named stays named.
LEMMA NamedLemma ==
  ASSUME IInv, RingKinds, Claims, Named, [Next]_vars
  PROVE  Named'
<1>1. \A d \in Cmds : claimed[d] => claimed'[d]
  BY Zenon, ClaimsLemma
<1>2. \A d \in Cmds : claimed[d] => Done(d)
  BY Zenon DEF Claims
<1>3. CASE OwnerSummary
  <2>1. pc' = pc /\ \A d \in Cmds : claimed[d] => resultSock'[d] = resultSock[d]
    BY Zenon, <1>2, <1>3 DEF OwnerSummary, Shrinks, Deeds, ResultStep
  <2> QED BY Zenon, <1>1, <2>1 DEF Named
<1>4. ASSUME NEW c \in Cmds, CallerStep(c) \/ DeadlinePasses(c)
      PROVE  Named'
  <2>1. resultSock' = resultSock /\ \A d \in Cmds \ {c} : pc'[d] = pc[d]
    BY Zenon, <1>4, CallerStepSummary DEF CallerSummary
  <2>2. ASSUME pc[c] = "idle", pc'[c] # "idle", Kind[c] \in Waitable
        PROVE  Target[c] \in Opened \/ \E d \in Cmds : claimed[d] /\ resultSock[d] = Target[c]
    <3>1. Clone(c)
      BY Zenon, <1>4, <2>2 DEF CallerStep, Submit, WakeSubmitter, WaitExpires, ThreadCancelled,
         NotifyCancel, Return, Release, ResultRelease, DeadlinePasses
    <3>2. Kind[c] # "CREATE" /\ Kind[c] # "CONTROL"
      BY Zenon, <2>2 DEF Waitable
    <3> QED BY Zenon, <3>1, <3>2 DEF Clone, InHands
  <2> QED BY Zenon, <1>1, <2>1, <2>2 DEF Named
<1> QED BY Zenon, <1>3, <1>4, OwnerStepSummary, StutterSummary DEF Next, OwnerStep

-----------------------------------------------------------------------------
(***************************************************************************)
(* Nobody waits on a closed socket.                                        *)
(***************************************************************************)
\* Steps that start no request and close no socket.
LEMMA LiveKept ==
  ASSUME IInv, Live, active' \subseteq active,
         \A c \in Cmds : Done(c) => outcome'[c] = outcome[c],
         OpenKept
  PROVE  Live'
<1>1. active \subseteq Cmds
  BY Zenon DEF IInv, TypeOK
<1> QED BY Zenon, <1>1, TargetAssumption DEF Live, Done, OpenKept

\* A request that starts and waits found its socket open.
LEMMA StartedOnOpen ==
  ASSUME IInv, NEW c \in Cmds, c \in Queued, NEW e \in Reasons \cup {None},
         StartCommand(c, e), outcome'[c] = Pending
  PROVE  sock[Target[c]] = "open" /\ Kind[c] \in Waitable
<1>1. ~Done(c) /\ Kind[c] \in Waitable
  BY Zenon, StartEffect DEF IInv, LifeCycle, Effect
<1>2. e = None
  BY Zenon, StartDeeds
<1>3. ASSUME NEW o \in Outcomes, Finish(c, o) PROVE FALSE
  <2>1. outcome'[c] = o
    BY Zenon, <1>1, <1>3 DEF Finish, Commit, Outcome
  <2> QED BY Zenon, <2>1 DEF Outcomes, Reasons, Pending
<1>4. ~Finish(c, "ERROR") /\ ~Finish(c, "EBADF")
  BY Zenon, <1>3 DEF Outcomes
<1>5. Process(c)
  BY Zenon, <1>2, <1>4 DEF StartCommand
<1>6. Kind[c] # "CREATE"
  BY Zenon, <1>1 DEF Waitable
<1> QED BY Zenon, <1>1, <1>4, <1>5, <1>6 DEF Process

\* A close answers everyone who waits on its socket.
LEMMA CloseAnswers ==
  ASSUME IInv, NEW c \in Cmds, c \in Queued, NEW e \in Reasons \cup {None},
         StartCommand(c, e), NEW d \in active \cup {c}, outcome'[d] = Pending,
         sock[Target[d]] = "open"
  PROVE  sock'[Target[d]] = "open"
<1>1. /\ active \subseteq Cmds /\ d \in Cmds /\ Target[d] \in Socks
      /\ waitq \in [Socks -> [Waitable -> Seq(Cmds)]]
  BY Zenon, TargetAssumption DEF IInv, TypeOK
<1>2. SUFFICES ASSUME sock'[Target[d]] # "open" PROVE FALSE
  BY Zenon
<1>3. Kind[c] = "CLOSE" /\ Target[c] = Target[d]
  BY Zenon, <1>1, <1>2, StartDeeds
<1>4. Kind[d] \in Waitable /\ d \in Range(waitq'[Target[d]][Kind[d]])
  BY Zenon, StartEffect DEF Effect
<1>5. sock' # sock
  BY Zenon, <1>2
<1>6. ProcessClose(c)
  BY Zenon, <1>3, <1>5 DEF StartCommand, Process, Finish
<1>7. waitq'[Target[d]] = NoWaiters
  BY Zenon, <1>1, <1>3, <1>6 DEF ProcessClose
<1> QED BY <1>4, <1>7 DEF NoWaiters, Range

LEMMA StartLive ==
  ASSUME IInv, Live, NEW c \in Cmds, c \in Queued, NEW e \in Reasons \cup {None},
         StartCommand(c, e)
  PROVE  Live'
<1>1. active' = active \cup {c} /\ \A d \in Cmds : Done(d) => outcome'[d] = outcome[d]
  BY Zenon, StartEffect DEF Effect
<1>2. ASSUME NEW d \in active', ~Done(d)' PROVE sock'[Target[d]] = "open"
  <2>1. d \in active \cup {c} /\ outcome'[d] = Pending
    BY Zenon, <1>1, <1>2 DEF Done
  <2>2. sock[Target[d]] = "open"
    <3>1. CASE d = c
      BY Zenon, <2>1, <3>1, StartedOnOpen
    <3>2. CASE d \in active
      <4>1. d \in Cmds
        BY Zenon, <3>2 DEF IInv, TypeOK
      <4> QED BY Zenon, <1>1, <2>1, <3>2, <4>1 DEF Live, Done
    <3> QED BY Zenon, <2>1, <3>1, <3>2
  <2> QED BY Zenon, <2>1, <2>2, CloseAnswers
<1> QED BY Zenon, <1>2 DEF Live

\* Reaping closes a socket that nobody was given.
LEMMA ReapLive ==
  ASSUME IInv, RingKinds, HInv, ReapOne
  PROVE  Live'
<1> DEFINE c == Head(batch)
           s == resultSock[c]
<1>1. TypeOK /\ ParkedSound /\ LifeCycle /\ Live /\ Distinct /\ Named
  BY Zenon DEF IInv, HInv
<1>2. batch \in Seq(Cmds) /\ batch # <<>>
  BY Zenon, <1>1 DEF TypeOK, ReapOne
<1>3. c \in Cmds
  BY Zenon, <1>2, PopLemma
<1>4. /\ active' = active \ {c}
      /\ sock' = sock \/ ( /\ Unclaimed(c) /\ s \in Socks
                           /\ \E life \in {"closed", "retired"} : sock' = [sock EXCEPT ![s] = life])
  BY Zenon DEF ReapOne
<1>5. \A d \in Cmds : Done(d) => outcome'[d] = outcome[d]
  BY Zenon, OwnerStepSummary DEF OwnerStep, OwnerTurn, OwnerSummary, Fate
<1>6. CASE sock' = sock
  BY Zenon, <1>1, <1>4, <1>5, <1>6, LiveKept DEF OpenKept
<1>7. CASE /\ Unclaimed(c) /\ s \in Socks
           /\ \E life \in {"closed", "retired"} : sock' = [sock EXCEPT ![s] = life]
  <2>1. ~claimed[c] /\ s # None
    BY Zenon, <1>7, TargetAssumption DEF Unclaimed
  <2>2. ASSUME NEW d \in active, ~Done(d) PROVE Target[d] # s
    <3>1. d \in Cmds /\ Kind[d] \in Waitable /\ pc[d] # "idle"
      BY Zenon, <1>1, <2>2 DEF TypeOK, ParkedSound, LifeCycle, OwnerHolds
    <3>2. Target[d] \in Opened \/ \E b \in Cmds : claimed[b] /\ resultSock[b] = Target[d]
      BY Zenon, <1>1, <3>1 DEF Named
    <3> QED BY Zenon, <1>1, <1>3, <2>1, <3>2 DEF Distinct
  <2>3. \A t \in Socks \ {s} : sock'[t] = sock[t]
    BY Zenon, <1>1, <1>7 DEF TypeOK
  <2>4. ASSUME NEW d \in active', ~Done(d)' PROVE sock'[Target[d]] = "open"
    <3>1. d \in active /\ d \in Cmds /\ Target[d] \in Socks /\ ~Done(d)
      BY Zenon, <1>1, <1>4, <1>5, <2>4, TargetAssumption DEF TypeOK, Done
    <3> QED BY Zenon, <1>1, <2>2, <2>3, <3>1 DEF Live
  <2> QED BY Zenon, <2>4 DEF Live
<1> QED BY Zenon, <1>4, <1>6, <1>7

\* Every step.
LEMMA LiveLemma ==
  ASSUME IInv, RingKinds, HInv, [Next]_vars
  PROVE  Live'
<1>1. Live /\ TypeOK
  BY Zenon DEF HInv, IInv
<1>2. CASE OwnerStep /\ ~ReapOne /\ ~StartOne /\ ~(\E r \in Rings : DrainRing(r))
  <2>1. \A c \in Cmds : Done(c) => outcome'[c] = outcome[c]
    BY Zenon, <1>2, OwnerStepSummary DEF OwnerSummary, Fate
  <2>2. CASE BeginTurn \/ EndCloseBurst \/ EndDataBurst \/ CancelOne \/ TakeControls
             \/ DeferOne \/ EndTurn
    <3>1. active' = active /\ sock' = sock
      BY Zenon, <2>2 DEF BeginTurn, EndCloseBurst, EndDataBurst, CancelOne, TakeControls,
         DeferOne, EndTurn, sockVars
    <3> QED BY Zenon, <1>1, <2>1, <3>1, LiveKept DEF OpenKept
  <2>3. CASE ShutdownBegins \/ DrainNotification
             \/ \E c \in Cmds : DrainActive(c) \/ CommandTimeout(c)
    <3>1. active' \subseteq active /\ sock' = sock
      BY Zenon, <2>3 DEF ShutdownBegins, DrainNotification, DrainActive, CommandTimeout, sockVars
    <3> QED BY Zenon, <1>1, <2>1, <3>1, LiveKept DEF OpenKept
  <2>4. ASSUME NEW s \in Socks, TransportProgress(s) PROVE Live'
    <3>1. PICK k \in {"RECV", "SEND", "ACCEPT"} : WakeQueue(s, k, waitq[s][k])
      BY Zenon, <2>4 DEF TransportProgress
    <3>2. waitq[s][k] \in Seq(Cmds)
      BY <1>1 DEF TypeOK, Waitable
    <3>3. active' = active
      BY Zenon, <2>4 DEF TransportProgress
    <3> QED BY Zenon, <1>1, <2>1, <3>1, <3>2, <3>3, WakeNew, LiveKept
  <2>5. ASSUME NEW s \in Socks, ConnectSettles(s) \/ StreamAborts(s) PROVE Live'
    <3>1. active' = active /\ OpenKept
      BY Zenon, <1>1, <2>5 DEF ConnectSettles, StreamAborts, TypeOK, OpenKept
    <3> QED BY Zenon, <1>1, <2>1, <3>1, LiveKept DEF OpenKept
  <2>6. CASE ShutdownEnds
    <3>1. active' = {}
      BY Zenon, <2>6 DEF ShutdownEnds
    <3> QED BY Zenon, <3>1 DEF Live
  <2> QED BY Zenon, <1>2, <2>2, <2>3, <2>4, <2>5, <2>6
          DEF OwnerStep, OwnerTurn, TransportStep, Shutdown
<1>3. CASE StartOne \/ \E r \in Rings : DrainRing(r)
  BY Zenon, <1>1, <1>3, Started, StartLive
<1>4. CASE (\E c \in Cmds : CallerStep(c) \/ DeadlinePasses(c)) \/ UNCHANGED vars
  <2>1. active' = active /\ outcome' = outcome /\ sock' = sock
    BY Zenon, <1>4, CallerStepSummary DEF CallerSummary, vars, cmdVars, sockVars
  <2> QED BY Zenon, <1>1, <2>1, LiveKept DEF OpenKept, Done
<1> QED BY Zenon, <1>2, <1>3, <1>4, ReapLive DEF Next, OwnerStep

-----------------------------------------------------------------------------
(***************************************************************************)
(* The results.                                                            *)
(***************************************************************************)
LEMMA HandlesInvariant == Spec => [](IInv /\ RingKinds /\ HInv)
<1>1. Init => HInv
  <2> SUFFICES ASSUME Init PROVE HInv
    BY Zenon
  <2>1. Live /\ Claims /\ Named
    BY Zenon DEF Init, Live, Claims, Named, Done
  <2>2. Distinct
    BY Zenon, TargetAssumption DEF Init, Distinct
  <2> QED BY Zenon, <2>1, <2>2 DEF HInv
<1>2. IInv /\ RingKinds /\ HInv /\ [Next]_vars => HInv'
  BY Zenon, DistinctLemma, ClaimsLemma, NamedLemma, LiveLemma DEF HInv
<1>3. Spec => [](IInv /\ RingKinds)
  BY ServiceInvariant, PTL DEF SInv
<1> QED BY <1>1, <1>2, <1>3, PTL DEF Spec

\* Every queued waiter is an unfinished request on the active list that is still
\* referenced, and its socket is open: wake_recv, wake_send and wake_accept,
\* which dereference what they find in a queue, never meet a freed command, and
\* no close or reap leaves a caller waiting on a socket that is gone.
THEOREM WaitersStayLive == Spec => []WaitersLive
<1>1. IInv /\ HInv => WaitersLive
  <2> SUFFICES ASSUME IInv, HInv, NEW s \in Socks, NEW c \in Waiters(s)
               PROVE  /\ c \in active /\ ~Done(c) /\ Target[c] = s
                      /\ sock[s] = "open" /\ refs[c] > 0
    BY Zenon DEF WaitersLive
  <2>1. TypeOK /\ ParkedSound /\ RefAccounting /\ Live
    BY Zenon DEF IInv, HInv
  <2>2. c \in active /\ ~Done(c) /\ Target[c] = s
    BY <2>1 DEF ParkedSound, Waiters
  <2>3. c \in Cmds
    BY Zenon, <2>1, <2>2 DEF TypeOK
  <2>4. refs[c] > 0
    BY <2>1, <2>2, <2>3 DEF RefAccounting, OwnerHolds, One
  <2> QED BY Zenon, <2>1, <2>2, <2>4 DEF Live
<1> QED BY <1>1, HandlesInvariant, PTL
=============================================================================
